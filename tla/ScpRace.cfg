\* A reply that is announced as well as polled for
SPECIFICATION ScpSpec
CONSTANTS
  Reqs = {r1}
  Words = 1
  MaxGets = 0
  MaxShared = 1
  MaxLate = 0
INVARIANTS
  AnsweredInTime
\* the GETs of the bound run out
CHECK_DEADLOCK FALSE
