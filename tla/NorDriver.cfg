SPECIFICATION Spec
CONSTANTS
  Addrs <- MCAddrs
  At5555 <- MCAt5555
  AtAAAA = "AAAA"
  NumBanks = 2
  RegisterSets <- MCRegisterSets
  Machines = {"nc1020", "pc1000"}
  PageCells = 2
  SectorCells <- MCSectorCells
  PageOf <- MCPageOf
  OffsetOf <- MCOffsetOf
  InfoCells = 2
  InfoAt <- MCInfoAt
  Bytes <- MCBytes
  Bits = {0, 4, 5}
  PatternOf <- MCPatternOf
  First = "8000"
  Second = "8001"
  Targets = {"8001", "5555"}
  Payload = {"30", "AA"}
  MaxOps = 3
INVARIANTS
  TypeOK
  StepsMatchTypes
  FastPathsAgree
PROPERTIES
  MapFollowsRegisters
  OperationsAsAsked
  NothingByAccident

