CONSTANTS
  Conn = {c1, c2}
  NoConn = NoConn
  IdMod = 1
  ReconnectMax = 1
  ReconnectOn = FALSE
  Sender = {}
  MayClose = FALSE
  MaxQueue = 2
  MaxRx = 1
SPECIFICATION Spec
SYMMETRY Symmetry
INVARIANTS
  OwnedOnce
  ConnInv
  WinIsPending
CHECK_DEADLOCK FALSE
