SPECIFICATION Spec
CONSTANTS
  Base = 2
  SpareBytes = 1
  BlockPages = 2
  BootPages = 4
  Values = {"ff", "x"}
  Erased = "ff"
  Pages = {2, 4}
  Columns = {1}
  ReadLen = 2
  Kinds = {"read", "program", "partial", "spare", "erase", "status", "poll", "id", "reset"}
  MaxOps = 3
INVARIANTS
  TypeOK
  AssertionsHold
PROPERTIES
  OperationsAsAsked
CHECK_DEADLOCK FALSE
