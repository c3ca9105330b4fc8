\* Concurrent puts, jack events, presses, an outage and a suspend
SPECIFICATION Spec
CONSTANTS
  Levels <- TwoLevels
  Quiet = Quiet
  Loud = Loud
  Ops = {"fx", "output", "level"}
  MaxPuts = 2
  MaxFaults = 1
  MaxSuspends = 1
  Period = 2
  DeadLimit = 2
  ModeTicks = 1
INVARIANTS
  TypeOK
  LightTracked
  AmpTracked
  TextTracked
SYMMETRY LevelSymmetry
\* a parked service stops
CHECK_DEADLOCK FALSE
