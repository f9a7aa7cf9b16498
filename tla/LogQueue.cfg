\* Three log calls, a queue of two, one reload, Shutdown at any time.
SPECIFICATION FairSpec
CONSTANTS
  QueueCap = 2
  MaxCalls = 3
INVARIANTS TypeOK Accounted LevelAsStarted SilentAfterReload
PROPERTIES QueuedIsReceived CallsGetThrough SetupEnds
CHECK_DEADLOCK FALSE
