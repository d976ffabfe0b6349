SPECIFICATION RolesSpec
CONSTANTS
  A = A
  B = B
  Hosts = {A, B}
  Files = {f}
  MoreFiles = {f, g}
  Clickers = {A}
  Editors = {A}
  NoHost = NoHost
  FileEpoch = 9
  Window = 1
  Old = 0
  MaxClock = 1
  MaxEdits = 3
  MaxClicks = 2
  MaxStarts = 1
  MaxFaults = 1
PROPERTIES
  GoesBackOnlyIfOvertaken
  LatestArrives
  EveryClickServed
CHECK_DEADLOCK FALSE
