\* Outages, a module that changes itself, and the poll parameter
SPECIFICATION Spec
CONSTANTS
  Levels <- TwoLevels
  Quiet = Quiet
  Loud = Loud
  Ops = {"output", "mute", "poll"}
  MaxPuts = 1
  MaxFaults = 2
  MaxSuspends = 0
  Period = 2
  DeadLimit = 2
  ModeTicks = 1
PROPERTIES
  AmpSettles
  ModuleFound
  GivenUpOnlyWhenSilent
\* a parked service stops
CHECK_DEADLOCK FALSE
