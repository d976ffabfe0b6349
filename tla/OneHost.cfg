SPECIFICATION HostSpec
CONSTANTS
  Screens <- MCScreens
  Txts <- MCTxts
  NoTxt = NoTxt
  Peers <- MCPeers
  NoState = NoState
  MaxStarts = 2
  MaxChanges = 1
  MaxTime = 1
  MaxFailures = 1
  main = main
  server = server
  Callers = {main, server}
  QueueLimit = 3
  MaxUpdates = 3
  MaxMenus = 1
  MaxClicks = 1
INVARIANTS
  LayoutIsRight
  RestartFindsAll
  IconIsRight
PROPERTIES
  LatestIsShown
  ExitEndsUi
CHECK_DEADLOCK FALSE
