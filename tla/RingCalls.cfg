\* Late and lost answers, posted writes, unsolicited responses, resets; the
\* calls against VerbService, with no fairness of the hardware
SPECIFICATION Spec
CONSTANTS
  t1 = t1
  t2 = t2
  c0 = c0
  c2 = c2
  Threads <- TwoThreads
  Addrs <- TwoCodecs
  Entries = 3
  Links <- SomeLinks
  MaxVerbs = 4
  MaxLost = 1
  MaxUnsol = 3
  MaxResets = 1
INVARIANTS
  TypeOK
  ReplyMatches
  NoneSpurious
  EventsInOrder
PROPERTIES
  Implements
\* the verbs of the bound run out
CHECK_DEADLOCK FALSE
