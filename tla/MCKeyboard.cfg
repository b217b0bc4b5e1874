\* Interrupt handler, keyboard controller and keyboard.
SPECIFICATION Spec
CONSTANTS
  Key = {"shiftl", "shiftr", "altgr", "caps"}
  MaxWire = 2
  Retries = 1
  MaxNest = 2
  MaxPresses = 3
  Faulty = TRUE
INVARIANTS
  TypeOK
  ModifiersCounted
  KeysAgree
  ByteAnnounced
PROPERTIES
  ByteRead
\* Nobody may press a key any more.
CHECK_DEADLOCK FALSE
