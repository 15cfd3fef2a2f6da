CONSTANTS
  None = None
  Methods = {"md5", "archie", "gpsk", "tls"}
  MaxTrial = 0
  MaxRetransmission = 2
  NetCap = 2
  MaxFaults <- MCMaxFaults
SPECIFICATION Spec
INVARIANTS Agreement Judged NeverStarved Concludes KeysAgree
CHECK_DEADLOCK FALSE
