CONSTANTS
  Sender = {w, a}
  Watchdog = w
  MaxQueue = 3
  Spurious = TRUE
SPECIFICATION FairSpec
PROPERTIES
  OutboxSpec
  DrainsAgain
CHECK_DEADLOCK FALSE
