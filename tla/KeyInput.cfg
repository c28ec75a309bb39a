SPECIFICATION Spec
CONSTANTS
  HwKeys = {"Tab", "T", "7"}
  CodeOf <- MCCodeOf
  Spots = {"corner", "top", "low"}
  Face <- MCFace
  Height <- MCHeight
  MaxPoll = 1
  MaxQueue = 2
  MaxFingers = 2
  Brightest = 1
  MaxStarts = 2
  Faults = {"detached", "file"}
INVARIANT TypeOK
PROPERTIES
  MachineSeesWhatIsHeld NoKeyIsStuck ButtonsActOnce LettingGoIsSeen LayoutIsRemembered
CHECK_DEADLOCK FALSE
