SPECIFICATION Spec
CONSTANTS
  Starts <- MCStarts
  HandlerCode <- MCHandlerCode
  Firmware <- MCFirmware
  MaxRequests = 2
INVARIANTS
  TypeOK
PROPERTIES
  InterruptsAreTransparent
  DecimalIsDecimal
  CoresAgree
CHECK_DEADLOCK FALSE
