SPECIFICATION Spec
CONSTANTS
  Clients = {11}
  Listener = 9
  Accepted = {1, 2}
  Backlog = 1
  Attempts = 2
  Minutes = 1
  StoreRoom = 1
INVARIANTS
  BacklogIsSound
  DeletedIsForgotten
  EveryUserCounted
  PeersBelongTogether
CHECK_DEADLOCK FALSE
