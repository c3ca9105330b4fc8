\* Two loads, one failure
SPECIFICATION LoadSpec
CONSTANTS
  Images <- MCImages
  FrameWords = 2
  BufferWords = 4
  DmaChannels = {0, 1}
  MaxLoads = 2
  MaxLoadFails = 1
INVARIANTS
  LoadReported
\* the loads of the bound run out
CHECK_DEADLOCK FALSE
