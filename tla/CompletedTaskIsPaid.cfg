SPECIFICATION Spec
CONSTANTS
  Tasks = {t1}
  Invoices = {}
  Escrows = {e1}
  Channels = {}
  Amounts = {}
  NoEscrow = none
  MaxVolume = 0
  MaxMoves = 6

INVARIANTS
  CompletedTaskIsPaid
\* Every task may have an outcome and every id be in use.
CHECK_DEADLOCK FALSE
