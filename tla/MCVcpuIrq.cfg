CONSTANTS
  timer = timer
  keyboard = keyboard
  Irq <- MCIrq
  NoIrq = NoIrq
  MaxNest = 2
  MaxFrames = 4
  Traps = TRUE
SPECIFICATION FairSpec
INVARIANTS
  TypeOK
  OneHandler
  SaveAreaIntact
  NoLostIrq
  LevelKept
  RegionsNotInterrupted
PROPERTIES
  PendingDispatched
  DeliverySpec
