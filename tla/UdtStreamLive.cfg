SPECIFICATION FairSpec
CONSTANTS
  MaxSeqNo = 15
  SeqNoTH = 8
  FirstSeqNos = {0}
  Packets = 3
  SndBufSize = 2
  RcvBufSize = 2
  Capacity = 1
  InFlight = 2
PROPERTIES
  Delivers
CHECK_DEADLOCK FALSE
