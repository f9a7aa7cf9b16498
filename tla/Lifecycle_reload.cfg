\* The whole process: does the reload that a SIGHUP starts ever finish?
SPECIFICATION FairSpec
CONSTANT CtlCap = 4
PROPERTY ReloadFinishes
CHECK_DEADLOCK FALSE
