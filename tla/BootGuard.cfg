SPECIFICATION LifeSpec
CONSTANTS
  CRASH_GUARD_MAX = 3
  GRACE = 2
  MAX_ATTEMPTS = 2
  Factories = {"app", "launcher"}
  Faults = {"nvs", "full", "timer", "boot"}
  MaxCuts = 1
  Card <- MCCard
  MAX_FILES = 4
  SCREEN_H = 7
  TITLE_H = 2
  ROW_HEIGHT = 2
  SLOP = 1
  CardFails = TRUE
INVARIANTS
  LifeTypeOK
  CrashLoopIsBroken
  CounterKeepsCount
PROPERTIES
  HealthyStartIsForgiven
  CrashLoopRollsBack
  TapOpensWhatIsShown
