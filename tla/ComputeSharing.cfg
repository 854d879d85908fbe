SPECIFICATION Spec
CONSTANTS
  Jobs = {j1, j2}
  MaxConcurrent = 1
  MaxChunks = 2
INVARIANTS
  TypeOK
  BoundedConcurrency
  StreamIsComplete
PROPERTIES
  OutcomeIsFinal
  PollerReturns
  NoStarvation
  CompletedStreamEnds
\* Every job may be over.
CHECK_DEADLOCK FALSE
