CONSTANTS
  None = None
  SessionTm = 1
  Tout = {0}
  MaxBegin = 2
  MaxCalls = 2
  MaxUnrouted = 1
SPECIFICATION Spec
INVARIANTS OpenExpires StatelessExpires
PROPERTIES AbortEnds AbortedEnds
CHECK_DEADLOCK FALSE
