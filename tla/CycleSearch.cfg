SPECIFICATION FairSpec
CONSTANTS
  a = a
  b = b
  c = c
  d = d
  Cells = {a, b, c, d}
INVARIANTS
  VerdictCorrect
  CycleReported
PROPERTIES
  Terminates
