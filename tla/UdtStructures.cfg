SPECIFICATION Spec
CONSTANTS
  MaxSeqNo = 13
  SeqNoTH = 7
  SndSize = 10
  RcvSize = 7
  FirstSeqNo = 12
  LossWindow = 5
  AckSlots = 4
  MaxAcks = 7
  SndBlocks = 2
  MaxBlocks = 6
  MaxPackets = 6
  MaxAdd = 3
  RcvSlots = 4
  UnitBlock = 3
  MaxEntries = 2
  GrowNum = 1
  GrowDen = 2
  MaxRaces = 1
  PktBytes = 2
  MaxRead = 3
  Messages <- ThePackets
  SocketIds = {1, 2, 3, 4}
  Talkers = {1, 2}
  HashSize = 2
  MaxTime = 3
  MaxPuts = 3
  Eids = {1, 2}
  MaxStock = 1
INVARIANTS
  LossListsAreSets
  WindowIsTheList
  SndBufferIsTheQueue
  ReadIsWhatCame
  UnitsAreSound
  QueuesAgree
  EpollTells
PROPERTIES
  WorkerServes
  WaitReturns
CHECK_DEADLOCK FALSE
