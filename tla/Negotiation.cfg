SPECIFICATION Spec
CONSTANTS
  Agents = {a1, a2, a3}
  Rooms = {r1, r2}
  Calls = {c1, c2}
  MaxMembers = 5
  MaxVersion = 1
  MaxPolls = 2
INVARIANTS
  TypeOK
  
  OnePeerIsRight
PROPERTIES
  NegotiationEnds
\* Every call may be over and no card change any more.
CHECK_DEADLOCK FALSE
