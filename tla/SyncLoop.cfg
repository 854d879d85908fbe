SPECIFICATION Spec
CONSTANTS
  Starts = {s1, s2}
  MaxEvents = 4
  Limit = 2
INVARIANTS
  TypeOK
  EveryEventAccounted
PROPERTIES
  ImplementsStream
  StoppedLoopsEnd
  EventsArrive
\* Every start may be used up and every loop over.
CHECK_DEADLOCK FALSE
