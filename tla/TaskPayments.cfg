SPECIFICATION Spec
CONSTANTS
  Tasks = {t1, t2}
  Invoices = {i1}
  Escrows = {e1, e2}
  Channels = {h1}
  Amounts <- MCAmounts
  NoEscrow = none
  MaxVolume = 3
  MaxMoves = 6
SYMMETRY Symmetry
CONSTRAINT HalvesApart
INVARIANTS
  PaidAtMostOnce
  BridgeKeepsTasksApart
  ChannelNetWithinVolume
  PaymentFollowsTask
  OneAttemptSettlesRight
\* Every task may have an outcome and every id be in use.
CHECK_DEADLOCK FALSE
