\* The lights of the keyboard against the locks they stand for.
SPECIFICATION Spec
CONSTANTS
  Key = {"shiftl", "caps"}
  MaxWire = 2
  Retries = 1
  MaxNest = 2
  MaxPresses = 3
  Faulty = FALSE
INVARIANTS
  LightsShowLocks
CHECK_DEADLOCK FALSE
