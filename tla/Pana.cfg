CONSTANTS
  None = None
  MRC = 2
  Rounds = 1
  MaxConv = 2
  MaxFaults = 2
  MaxCalls = 1
SPECIFICATION Spec
INVARIANTS Agreement NeverForgotten Concludes
CHECK_DEADLOCK FALSE
