SPECIFICATION Spec
CONSTANTS
  Ticks = 4
  Seconds = 1
  Minutes = 2
  Hours = 2
  Sources = {"alarm", "2hz"}
  MaxSyncs = 1
INVARIANT TypeOK
PROPERTIES
  AlarmIsSeen SleeperWakes TimeGoesOn LeftVectorsInterrupt
