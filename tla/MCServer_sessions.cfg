\* Two clients with addresses of their own, which may abort.
SPECIFICATION Spec
CONSTANTS
  s1 = s1  s2 = s2  s3 = s3  a1 = a1  a2 = a2  NoSock = NoSock  e1 = e1  e2 = e2
  Sock <- TwoSocks
  Addr = {a1, a2}
  AddrOf <- OwnAddr
  Endpoint = {e1}
  ChunkKind = {"text"}
  MaxChunks <- OneEach
  MaxReconf = 1
  AllowReset = TRUE
  AllowIoErr = FALSE
  RxqCap = 1
  TxqCap = 10
  ChanCap = 1
  CtlCap = 4
INVARIANTS TypeOK FarewellBeforeClose NoSelfDeadlock
  TablesAgree ShutdownClosesAll
CHECK_DEADLOCK FALSE
