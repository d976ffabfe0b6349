SPECIFICATION FairSpec
CONSTANTS
  a = a
  b = b
  c = c
  hostA = hostA
  hostB = hostB
  hostC = hostC
  NoId = NoId
  NoIp = NoIp
  Ids = {a, b, c}
  Hosts = {hostA, hostB, hostC}
  HostOf <- MCHostOf
  HELLO_INTERVAL = 1
  TIMEOUT = 1
  MaxNow = 2
INVARIANTS
  PeerAgreement
  OnlyAckMissing
PROPERTIES
  ImplementsPairing
  EveryRunEnds
  OneSucceeds
CHECK_DEADLOCK FALSE
