SPECIFICATION Spec
CONSTANTS
  NumSlots = 2
  NumBlocks = 3
  MainBlocks = 2
  NumCells = 2
  Values = {"ff", "x"}
  Erased = "ff"
  Filler = "x"
  FileBlocks = {2}
  ClockMod = 2
  Faults = {}
INVARIANTS
  TypeOK
  OneSlotPerBlock
  CleanMirrorsFile
PROPERTIES
  OtherBlocksUntouched
  SaveIsDurable
  ImplementsStore
