SPECIFICATION FairSpec
CONSTANTS
  Values = {0, 1}
  Addresses = {ok, bad}
  Bad = {bad}
  NoValue = none
  BUFMAX = 3
  MaxLine = 9
  MaxFaults = 1
INVARIANTS TypeOK ObeyedOnce AnswerHolds ExceptionsReported
PROPERTIES CommandArrives
