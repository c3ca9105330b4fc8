\* A put and a resume that loads the DSP again
SPECIFICATION OutputSpec
CONSTANTS
  OutputCards = {"ae9"}
  MaxOutEvents = 2
INVARIANTS
  ControlsKept
\* the events of the bound run out
CHECK_DEADLOCK FALSE
