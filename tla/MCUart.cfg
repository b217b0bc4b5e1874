SPECIFICATION FairSpec
CONSTANTS
  Char = {a, b}
  NoChar = none
  OutSize = 2
  Depth = 2
  BufSize = 2
  Lines <- MCLines
  Settings <- MCSettings
  MaxIn = 3
  MaxOpens = 1
  Quiet = TRUE
  FastLine = FALSE
INVARIANTS TypeOK AssertionsHold InputAccounted TransmitKept
PROPERTIES OutputSpec OutputDrains
CHECK_DEADLOCK FALSE
