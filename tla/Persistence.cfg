SPECIFICATION Spec
CONSTANTS
  b1 = b1
  b2 = b2
  Blocks = {b1, b2}
  HasNand = TRUE
  MaxVersion = 2
  Faults = {"open", "alloc", "write"}
SYMMETRY MCSymmetry
INVARIANTS TypeOK StateNeverAheadOfFlash NothingSavedIsLost
PROPERTIES SavesReachCard
