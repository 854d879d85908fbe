SPECIFICATION Spec
CONSTANTS
  Jobs = {j1, j2}
  MaxConcurrent = 1
  MaxChunks = 2
PROPERTIES
  CancelStopsJob
CHECK_DEADLOCK FALSE
