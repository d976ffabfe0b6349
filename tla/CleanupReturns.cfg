SPECIFICATION FairSpec
CONSTANTS
  Clients = {11}
  Listener = 9
  Accepted = {1}
  Backlog = 1
  Attempts = 1
  Minutes = 0
  StoreRoom = 1
PROPERTIES
  CleanupReturns
CHECK_DEADLOCK FALSE
