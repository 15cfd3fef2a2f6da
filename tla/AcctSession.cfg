\* Three sessions of up to five records, two faults.
CONSTANTS
  MaxRec = 5
  MaxBegin = 3
  MaxFaults = 2
SPECIFICATION Spec
INVARIANTS Accounted Honest Concludes
\* The applications may stop.
CHECK_DEADLOCK FALSE
