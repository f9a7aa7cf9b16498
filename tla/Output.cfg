\* Two messages of five tokens in all; "$c1007" is plain, "$c0207" on green.
SPECIFICATION FairSpec
CONSTANTS
  Code = {1007, 207}
  MaxTokens = 5
  MaxSaid = 2
  BusCap = 1
  TxqCap = 1
INVARIANTS TypeOK TextKept ColourAsMarked TextNeverCloses
PROPERTY SaidIsSent
CHECK_DEADLOCK FALSE
