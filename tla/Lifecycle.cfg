\* The whole process, with SIGINT and SIGHUP at any time.
SPECIFICATION FairSpec
CONSTANT CtlCap = 4
INVARIANTS TypeOK SubscribedBeforeConfig NoLag ShutdownBarrierStarves
PROPERTIES ShutdownHeard StartupCompletes
CHECK_DEADLOCK FALSE
