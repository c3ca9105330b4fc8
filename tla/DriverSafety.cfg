\* Each component on its own bounds, see MC_DriverSafety
SPECIFICATION SafetySpec
CONSTANTS
  MaxSteps = 5
  MaxLevel = 6
  MaxTurned = 12
  ChipThreads = {t1, t2}
  ChipAddresses = {4, 8, 12}
  HalfWord = 16
  MaxChipCalls = 2
  MaxSendFails = 1
  MaxPowerLosses = 1
  Images <- MCImages
  FrameWords = 2
  BufferWords = 4
  DmaChannels = {0, 1}
  MaxLoads = 2
  MaxLoadFails = 2
  OutputCards = {"ae9", "plain"}
  MaxOutEvents = 3
  Sds = {1, 2}
  Substreams = {u1, u2}
  Setups <- MCSetups
  LoadSizes = {8, 16}
  LoadRate = 48000
  LoadBreaks <- MCBreaks
  BdlEntries = 5
  Page = 4
  Align4K = TRUE
  PosAdj = 2
  ChmapPositions = {"NA", "FL", "FR", "LFE", "FC"}
  ChmapLength = 4
  SinkBits = {0, 1, 2, 3, 4, 5}
  TlvSizes = {7, 8, 24, 60, 200}
  ConnNids = {0, 2, 3, 5}
  ConnLengths = {1, 3, 4}
  ConnRooms = {1, 3}
  RateBits = {0, 6}
  AmpValues = {0, 5, 128}
  DisplayUsers = {0, 2, 16}
  MaxBinds = 4
  WidgetRanges <- MCRanges
  AfgNode = 1
  MaxRefreshes = 3
INVARIANTS
  SafetyTypeOK
  DetentsCounted
  ValuesLand
  LoadSound
  Unmuted
  OutputFollows
  ListRight
  StreamsShared
  MapsRight
  QueriesRight
  DisplayKept
  TreeKept
PROPERTIES
  MovesRightAway
\* the bounds run out
CHECK_DEADLOCK FALSE
