CONSTANTS
  l1 = l1
  l2 = l2
  o1 = o1
  o2 = o2
  o3 = o3
  o4 = o4
  Line <- MCLine
  Object <- MCObject
  Clock = Clock
  None = None
  MaxHandlers = 2
SYMMETRY MCSymmetry
SPECIFICATION Spec
INVARIANTS
  TypeOK
  Recorded
  DisableSilences
