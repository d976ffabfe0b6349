SPECIFICATION FairSpec
CONSTANTS
  Files = {f, g}
  NoName = NoName
  HdrLen = 2
  Sizes = {0, 2, 3}
  IntMax = 2
  MaxEdits = 1
  Window = 2
INVARIANTS
  NothingMadeUp
  ReceivedIntact
  CutOnlyByDisk
  EndMeansEverything
PROPERTIES
  TransferEnds
CHECK_DEADLOCK FALSE
