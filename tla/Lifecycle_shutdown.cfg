\* The whole process: does main get past the shutdown barrier?
SPECIFICATION FairSpec
CONSTANT CtlCap = 4
PROPERTY ShutdownCompletes
CHECK_DEADLOCK FALSE
