\* Each component on its own bounds, see MC_DriverProgress
SPECIFICATION ProgressSpec
CONSTANTS
  r1 = r1
  r2 = r2
  t1 = t1
  t2 = t2
  Reqs <- TwoReqs
  Words = 2
  MaxGets = 3
  MaxShared = 1
  MaxLate = 3
  Contexts <- Users
  Programs <- Runtime
  Streams = 10
  UartBytes = 3
  Burst = 14
  RegThreads <- TwoThreads
  MaxRegCalls = 2
  MaxVerbFails = 1
  MaxPowerDowns = 1
  Codecs = {1, 2}
  QueueSize = 3
  MaxEvents = 4
  MaxRemovals = 2
  Boards = {"main", "daughter", "sbz"}
  MaxLives = 2
  MaxSleeps = 3
  MaxLifeFails = 2
INVARIANTS
  ProgressTypeOK
  WholeReply
  AnsweredWhenPolled
  BurstBound
  OneTransaction
  RefsBalance
  UpdatesKept
  EventsAccounted
  HandlerHasCodec
  WorksStopped
  AcmServed
  HoldReturned
PROPERTIES
  EverythingEnds
\* the bounds run out
CHECK_DEADLOCK FALSE
