SPECIFICATION Spec
CONSTANTS
  Tasks = {t1}
  Senders = {s1}
  Clients = {c1, c2, c3}
  MaxMoves = 3
  MaxBroadcasts = 1
SYMMETRY Symmetry
INVARIANTS
  TypeOK
  OutcomesAreGenuine
  NobodyHearsTwice
  StayingClientsHear
\* Every task may be at its end and every client gone.
CHECK_DEADLOCK FALSE
