\* As MCServer_reconf.cfg, without failures: where does the server listen?
SPECIFICATION Spec
CONSTANTS
  s1 = s1  s2 = s2  s3 = s3  a1 = a1  a2 = a2  NoSock = NoSock  e1 = e1  e2 = e2
  Sock <- TwoSocks
  Addr = {a1, a2}
  AddrOf <- OwnAddr
  Endpoint = {e1, e2}
  ChunkKind = {"text"}
  MaxChunks <- Silent
  MaxReconf = 2
  AllowReset = FALSE
  AllowIoErr = FALSE
  RxqCap = 1
  TxqCap = 10
  ChanCap = 1
  CtlCap = 4
INVARIANT ReconfigureApplied
CHECK_DEADLOCK FALSE
