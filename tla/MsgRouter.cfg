CONSTANTS
  p1 = p1  p2 = p2
  r1 = r1  r2 = r2  r3 = r3
  t1 = t1  t2 = t2  Reactor = Reactor
  Us = Us  None = None
  Peer = {p1, p2}
  Request = {r1, r2, r3}
  Flagged = {r1}
  OwnOrigin = {r3}
  Source <- MCSource
  OwnHh <- MCOwnHh
  Host <- MCHost
  Servers <- MCServers
  Action <- MCAction
  JobThread = {t1, t2}
  FirstHh = 2
  MaxHh = 4
  RetxMax = 1
  MayFail = {p2}
  MayRedirect = {r1}
  MaxChecks = 2
SPECIFICATION Spec
SYMMETRY Symmetry
INVARIANTS AnsweredOnce  RetransmissionsBounded
CHECK_DEADLOCK FALSE
