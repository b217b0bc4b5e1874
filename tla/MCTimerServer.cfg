CONSTANTS
  Period = {1, 2}
  First = {0, 1, 3}
  MaxClock = 6
  Never = Never
  StartClock = {0, 1}
SPECIFICATION FairSpec
INVARIANTS
  TypeOK
  NoDrift
  NeverEarly
PROPERTIES
  DeadlineKept
  Settles
