\* Two codecs on the link, and a controller that stops fetching
SPECIFICATION Spec
CONSTANTS
  t1 = t1
  t2 = t2
  c0 = c0
  c2 = c2
  Threads <- TwoThreads
  Addrs <- TwoCodecs
  Entries = 2
  Links <- FullLink
  MaxVerbs = 2
  MaxLost = 0
  MaxUnsol = 0
  MaxResets = 0
PROPERTIES
  VerbReturns
\* the verbs of the bound run out
CHECK_DEADLOCK FALSE
