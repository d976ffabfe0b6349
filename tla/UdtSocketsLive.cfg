SPECIFICATION FairSpec
CONSTANTS
  Clients = {11}
  Listener = 9
  Accepted = {1}
  Backlog = 1
  Attempts = 1
  Minutes = 0
  StoreRoom = 1
PROPERTIES
  CallsReturn
  ClosedIsDeleted
CHECK_DEADLOCK FALSE
