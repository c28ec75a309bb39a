SPECIFICATION Spec
CONSTANTS
  b1 = b1
  b2 = b2
  Blocks = {b1, b2}
  HasNand = TRUE
  MaxVersion = 2
  Faults = {}
SYMMETRY MCSymmetry
PROPERTY RestartContinues
