SPECIFICATION Spec
CONSTANTS
  MaxSeqNo = 15
  SeqNoTH = 8
  FirstSeqNos = {14}
  Packets = 3
  SndBufSize = 2
  RcvBufSize = 3
  Capacity = 2
  InFlight = 3
INVARIANTS
  EndsAgree
  NeverAccused
PROPERTIES
  IsAPipe
CHECK_DEADLOCK FALSE
