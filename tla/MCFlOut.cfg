SPECIFICATION MCSpec
CONSTANTS
  Prc = {p1, p2}
  MaxCmd = 4
  MaxOverlap = 3
  Overlap = TRUE
  SystemFails = TRUE
SYMMETRY Symmetry
CHECK_DEADLOCK FALSE
INVARIANT NeverPartial
PROPERTY ReadersSafe
PROPERTY KeepsData
PROPERTY SuccessPublishes
