\* Three connections, one after the other, from one address; fair tasks.
SPECIFICATION FairSpec
CONSTANTS
  s1 = s1  s2 = s2  s3 = s3  a1 = a1  a2 = a2  NoSock = NoSock  e1 = e1  e2 = e2
  Sock <- ThreeSocks
  Addr = {a1}
  AddrOf <- OneAddr
  Endpoint = {e1}
  ChunkKind = {"text", "cut"}
  MaxChunks <- TwoThenOne
  MaxReconf = 1
  AllowReset = FALSE
  AllowIoErr = FALSE
  RxqCap = 1
  TxqCap = 15
  ChanCap = 2
  CtlCap = 4
INVARIANTS OwnMessagesOnly OutputProtocol ChunksConserved
PROPERTIES CloseJustified EofCleansUp
CHECK_DEADLOCK FALSE
