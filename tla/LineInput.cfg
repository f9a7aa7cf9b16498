\* Every input of up to six bytes (one letter, BS, LF, CR, NOP, WILL, IAC),
\* in every division into chunks.
SPECIFICATION Spec
CONSTANTS
  Panicked = Panicked
  Byte = {120, 8, 10, 13, 241, 251, 255}
  MaxSent = 6
INVARIANTS TypeOK LinesAsTyped PanicsOnlyOnCut ChunksDoNotMatter
CHECK_DEADLOCK FALSE
