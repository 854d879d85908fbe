SPECIFICATION Spec
CONSTANTS
  Agents = {a1, a2, a3}
  Rooms = {r1, r2}
  Calls = {c1, c2}
  MaxMembers = 2
  MaxVersion = 1
  MaxPolls = 2
INVARIANTS
  NegotiatedWithThePeer
CHECK_DEADLOCK FALSE
