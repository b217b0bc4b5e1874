\* The ring buffer of inch.c with room for three characters.
SPECIFICATION RingSpec
CONSTANTS
  KBD_BUF_SIZE = 4
  Char = {a, b}
  NoChar = NoChar
INVARIANTS
  RingTypeOK
PROPERTIES
  QueueSpec
