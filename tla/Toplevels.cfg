SPECIFICATION ToplevelsSpec
CONSTANTS
  Widths <- MCWidths
  OutputWidth = 2
  Requests <- MCRequests
  Modulus = 100
  MaxSerial = 3
  XWidths <- MCWidths
  ScreenWidth = 2
  XRequests <- MCRequests
  Offsets = {0, 1}
  Positions = {0}
INVARIANTS ViewsMapped ViewsLive ViewsPlaced ReadyMeansAnswered
PROPERTIES ViewFreed
CHECK_DEADLOCK FALSE
