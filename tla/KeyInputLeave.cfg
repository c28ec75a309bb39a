SPECIFICATION Spec
CONSTANTS
  HwKeys = {}
  CodeOf <- MCCodeOf
  Spots = {"corner", "app", "top", "low", "save"}
  Face <- MCFace
  Height <- MCHeight
  MaxPoll = 2
  MaxQueue = 0
  MaxFingers = 1
  Brightest = 1
  MaxStarts = 1
  Faults = {}
PROPERTY UserCanLeave
CHECK_DEADLOCK FALSE
