\* The mixer mutes and the module never fails
SPECIFICATION Spec
CONSTANTS
  Levels <- TwoLevels
  Quiet = Quiet
  Loud = Loud
  Ops = {"mute"}
  MaxPuts = 1
  MaxFaults = 0
  MaxSuspends = 0
  Period = 2
  DeadLimit = 2
  ModeTicks = 1
PROPERTIES
  TextSettles
