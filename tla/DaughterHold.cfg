\* The codec of the daughter board is bound and unbound
SPECIFICATION LifeSpec
CONSTANTS
  Boards = {"daughter"}
  MaxLives = 2
  MaxSleeps = 1
  MaxLifeFails = 1
INVARIANTS
  DaughterHold
\* the lives of the bound run out
CHECK_DEADLOCK FALSE
