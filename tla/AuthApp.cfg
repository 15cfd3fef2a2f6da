CONSTANTS
  None = None
  Threads = 2
  Rounds = 2
  MaxFaults = 1
  MaxCalls = 2
SPECIFICATION Spec
INVARIANTS GrantedByVerdict AcceptedIsTimed  Concludes
CHECK_DEADLOCK FALSE
