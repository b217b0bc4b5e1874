SPECIFICATION Spec
CONSTANTS
  Char = {a, b}
  NoChar = none
  OutSize = 2
  Depth = 2
  BufSize = 2
  Lines <- MCLines
  Settings <- MCSettings
  MaxIn = 3
  MaxOpens = 1
  Quiet = FALSE
  FastLine = FALSE
INVARIANT AssertionsHold
CHECK_DEADLOCK FALSE
