\* No frame is ever lost
SPECIFICATION Spec
CONSTANTS
  Levels <- TwoLevels
  Quiet = Quiet
  Loud = Loud
  Ops = {"fx", "output", "level"}
  MaxPuts = 2
  MaxFaults = 0
  MaxSuspends = 1
  Period = 2
  DeadLimit = 2
  ModeTicks = 1
PROPERTIES
  LightSettles
  TextSettles
\* a parked service stops
CHECK_DEADLOCK FALSE
