CONSTANTS
  CharSigned = FALSE
  Checked    <- MCChecked
  Relays     <- MCRelays
  MaxHops    = 4

SPECIFICATION Spec

INVARIANTS Carried NothingStale AcceptsGrammar

CHECK_DEADLOCK FALSE
