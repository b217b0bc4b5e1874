CONSTANTS
  Period = {2}
  First = {0}
  StartClock = {0, 1}
  MaxClock = 9
  Never = Never
  TickPeriod = 2
  WordSize = 8
SPECIFICATION ClockSpec
INVARIANT
  NanosecondsSinceTick
