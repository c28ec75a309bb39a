SPECIFICATION Spec
CONSTANTS
  CRASH_GUARD_MAX = 3
  GRACE = 2
  MAX_ATTEMPTS = 3
  Factories = {"app"}
  Faults = {}
  MaxCuts = 1
PROPERTIES
  CrashLoopEnds
