\* An escaped IAC within one line.
SPECIFICATION Spec
CONSTANTS
  Panicked = Panicked
  Byte = {120, 8, 10, 13, 241, 251, 255}
  MaxSent = 4
INVARIANT EscapedIacKept
CHECK_DEADLOCK FALSE
