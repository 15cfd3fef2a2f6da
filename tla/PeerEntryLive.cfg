CONSTANTS
  Conn = {c1}
  NoConn = NoConn
  IdMod = 1
  ReconnectMax = 1
  ReconnectOn = TRUE
  Sender = {s1}
  MayClose = TRUE
  MaxQueue = 1
  MaxRx = 1
SPECIFICATION FairSpec
INVARIANTS
  TypeOK
  TimerInv
  OpenAnnounced
PROPERTIES
  WaitEnds
CHECK_DEADLOCK FALSE
