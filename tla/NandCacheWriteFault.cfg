SPECIFICATION Spec
CONSTANTS
  NumSlots = 2
  NumBlocks = 3
  MainBlocks = 3
  NumCells = 1
  Values = {"ff", "x", "y"}
  Erased = "ff"
  Filler = "x"
  FileBlocks = {3}
  ClockMod = 4
  Faults = {"write"}
INVARIANT CleanMirrorsFile
