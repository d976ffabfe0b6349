SPECIFICATION Spec
CONSTANTS
  A = A
  B = B
  Hosts = {A, B}
  Files = {f}
  Clickers = {A, B}
  Editors = {A, B}
  NoHost = NoHost
  FileEpoch = 9
  Window = 1
  Old = 0
  MaxClock = 1
  MaxEdits = 3
  MaxClicks = 2
  MaxStarts = 2
  MaxFaults = 1
SYMMETRY HostSymmetry
INVARIANTS
  ClickNotForgotten
  TrayNotStuck
  SoloUploadEqualizes
CHECK_DEADLOCK FALSE
