CONSTANTS
  nl = nl
  a = a
  b = b
  Newline = nl
  Nul = Nul
  Char = {nl, a, b}
  Lines = 2
  Window = 6
  MaxLines = 3
  MaxLog = 9
  Logs <- MCLogs
  Line <- MCLine
SPECIFICATION Spec
INVARIANTS
  TypeOK
  ReturnsLastLines
  ReturnsEndOfLog
  NothingHeld
CHECK_DEADLOCK FALSE
