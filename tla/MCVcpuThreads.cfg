CONSTANTS
  a = a
  b = b
  Thread <- MCThread
  first = a
  MaxDepth = 3
SPECIFICATION Spec
INVARIANT
  ResumesInterrupted
