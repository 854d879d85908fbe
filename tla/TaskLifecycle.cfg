SPECIFICATION Spec
CONSTANTS
  Tasks = {t1}
  Callers = {c1, c2}
  Rooms = {r1, r2}
  NoRoom = NoRoom
  Full = 1
  MaxHistory = 4
INVARIANTS
  TypeOK
  EveryTransitionAccounted
  RoomUpToDate
PROPERTIES
  ImplementsProtocol
SYMMETRY Symmetry
