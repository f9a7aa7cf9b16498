\* Four calls about two addresses, with small queues.
SPECIFICATION FairSpec
CONSTANTS
  NoAddr = NoAddr  NoNames = NoNames
  Addr = {"10.0.0.1", "10.0.0.2"}
  MaxLookups = 4
  ReqCap = 2
  RespCap = 2
INVARIANTS TypeOK AnswerStillAhead RequestKept
PROPERTIES ResolverSpec CallEnds
CHECK_DEADLOCK FALSE
