CONSTANTS
  Octet <- HostOctet
  MaxName = 3
  CharSigned = TRUE
SPECIFICATION Spec
INVARIANTS
  OneWinner
  UnsignedOrder
CHECK_DEADLOCK FALSE
