------------------------------ MODULE EapPeer ------------------------------
(***************************************************************************)
(* The peer of libeap: EapPeerSwitchStateMachine with one method           *)
(* (eapcore/eap_peerfsm.cxx), MD5-Challenge among them (eap_md5.cxx).      *)
(***************************************************************************)
EXTENDS EapTls

\* armed: the timer of the authorization period; poll: of the identity input.
\* allows: the one element of the policy; dec: the decision, None until one is made;
\* meth, mem, mkey: state, memory and KeyData() of the method; tx: sent in this step.
PeerInit(allows) ==
  [fsm |-> "Disabled", run |-> TRUE, q |-> <<"PortEnabled">>, ev |-> None,
   rx |-> <<>>, rxm |-> None, txm |-> None, id |-> 0, last |-> None, valid |-> FALSE,
   first |-> FALSE, allows |-> allows, cur |-> None, dec |-> None,
   mstate |-> "NONE", meth |-> None, mem |-> None, mkey |-> None, key |-> None,
   armed |-> FALSE, poll |-> FALSE, said |-> None, tx |-> <<>>]
----------------------------------------------------------------------------
PeerIdle == {
  <<"Disabled",   "PortEnabled", "Initialize", "Initialize">>,
  <<"Initialize", "UCT",         "Idle",       "StartTimer">>,
  <<"Idle",       "RxMsg",       "Received",   "ReceiveMsg">>,
  <<"Idle",       "To",          "Idle",       "CheckTimeoutCondition">>,
  <<"Idle",       "SgSuccess",   "Success",    "SendSuccess">>,
  <<"Idle",       "SgFailure",   "Failure",    "SendFailure">>}

PeerReceived == {
  <<"Received", "SgSuccess",      "Success",      "SendSuccess">>,
  <<"Received", "SgFailure",      "Failure",      "SendFailure">>,
  <<"Received", "SgRetransmit",   "Retransmit",   "Retransmit">>,
  <<"Received", "SgContMethod",   "Method",       "DoIntegrityCheck">>,
  <<"Received", "SgNewMethod",    "GetMethod",    "DoPolicyCheck">>,
  <<"Received", "RxNotification", "Notification", "ParseNotification">>,
  <<"Received", "RxIdentity",     "Identity",     "ParseIdentity">>,
  <<"Received", "Else",           "Discard",      "Discard">>}

PeerInputs == {
  <<"Identity",     "UserInputFinished", "Identity",     "BuildIdentity">>,
  <<"Identity",     "UCT",               "SendResponse", "BuildResp">>,
  <<"Identity",     "To",                "Failure",      "SendFailure">>,
  <<"Identity",     "ToCheckIdentity",   "Identity",     "CheckIdentity">>,
  <<"Notification", "NotificationOutputFinished", "Notification", "BuildNotification">>,
  <<"Notification", "UCT",               "SendResponse", "BuildResp">>,
  <<"Notification", "To",                "Failure",      "SendFailure">>,
  <<"Notification", "Else",              "Discard",      "Discard">>}

PeerMethod == {
  <<"GetMethod",    "SgEnterMethod",   "Method",       "DoIntegrityCheck">>,
  <<"GetMethod",    "SgNoEnterMethod", "SendResponse", "BuildNak">>,
  <<"Method",       "SgValidReq",      "SendResponse", "BuildResp">>,
  <<"Method",       "SgInvalidReq",    "Discard",      "Discard">>,
  <<"Method",       "SgFailure",       "Failure",      "SendFailure">>,
  <<"Method",       "To",              "Method",       "CheckTimeoutCondition">>,
  <<"Method",       "SgSuccess",       "Success",      "SendSuccess">>,
  <<"Discard",      "UCT",             "Idle",         "CheckRxQueue">>,
  <<"Retransmit",   "UCT",             "SendResponse", "nothing">>,
  <<"SendResponse", "UCT",             "Idle",         "CheckRxQueue">>}

PeerTable == Indexed(PeerIdle \cup PeerReceived \cup PeerInputs \cup PeerMethod)

\* Rows for any other event: all keep the state but one.
PeerWildcard(fsm) == IF fsm = "Notification" THEN "Identity" ELSE fsm
----------------------------------------------------------------------------
(* What the rows do.                                                       *)

SubAcSendResp(x) == [Notify(x, "UCT") EXCEPT !.tx = Append(@, x.txm)]

BuildResp(x) ==
  SubAcSendResp([x EXCEPT !.txm = [@ EXCEPT !.id = x.id], !.valid = TRUE, !.last = x.id,
                          !.key = IF x.mstate \notin {"NONE", "INIT"} /\ x.mkey # None
                                  THEN x.mkey ELSE @])

\* The Nak names the method of the policy; lastIdentifier keeps its value.
BuildNak(x) ==
  SubAcSendResp([x EXCEPT !.txm = Eap("response", x.id, "nak", x.allows), !.valid = TRUE])

\* The task's thread may answer before the first look at its result.
InputIdentity(x, ready) ==
  IF ready THEN [Notify(x, "UserInputFinished") EXCEPT !.poll = FALSE]
  ELSE [x EXCEPT !.poll = TRUE]

DoPolicyCheck(x) ==
  IF x.rxm.type = x.allows
  THEN Event([x EXCEPT !.cur = x.allows, !.mstate = "INIT", !.meth = "Initialize"], "SgEnterMethod")
  ELSE Event(x, "SgNoEnterMethod")

SubAcParseRequest(x, m) ==
  CASE m.type = "notification" -> Event([x EXCEPT !.cur = "notification"], "RxNotification")
    [] m.type = "identity" /\ x.cur = None -> Event(x, "RxIdentity")
    [] m.type \notin {"identity", "notification"} /\ x.cur = None -> Event(x, "SgNewMethod")
    [] m.type # "notification" /\ x.cur # None ->
         Event(x, IF m.type = x.cur /\ x.mstate # "DONE" THEN "SgContMethod" ELSE "Else")

\* AcReceiveMsg once dequeue_head() has returned: it blocks while rx is empty.  No
\* constructor initializes the decision: before it is made it allows what chance has.
Allows(x, dec, chance) == IF x.dec = None THEN chance ELSE x.dec = dec
PeerDequeue(x, chance) ==
  LET m == Head(x.rx)
      y == [x EXCEPT !.rx = Tail(@), !.rxm = m, !.ev = None]
  IN CASE m.code = "request" ->
            IF y.first /\ m.id = y.last THEN Event(y, IF y.valid THEN "SgRetransmit" ELSE "Else")
            ELSE SubAcParseRequest([y EXCEPT !.id = m.id, !.first = TRUE], m)
       [] m.code = "success" ->
            Event(y, IF ~Allows(y, "FAIL", chance) THEN "SgSuccess"
                     ELSE IF y.mstate # "CONT" THEN "SgFailure" ELSE "Else")
       [] m.code = "failure" ->
            Event(y, IF y.mstate # "CONT" /\ ~Allows(y, "UNCOND_SUCC", chance)
                     THEN "SgFailure" ELSE "Else")
       [] OTHER -> Event(y, "Else")

CheckRxQueue(x) == IF x.rx = <<>> THEN x ELSE Event(x, "RxMsg")

\* Success() and Failure() of the application stop the machine.
PeerSays(x, verdict) == Stop([x EXCEPT !.armed = FALSE, !.said = verdict])

PeerLeaf(x, do, ready) ==
  CASE do = "Initialize"    -> Event(x, "UCT")
    [] do = "StartTimer"    -> [x EXCEPT !.armed = TRUE]
    [] do = "ReceiveMsg"    -> Event(x, "Dequeue")
    [] do = "CheckTimeoutCondition" -> Event(x, "SgFailure")
    [] do = "SendSuccess"   -> PeerSays(x, "success")
    [] do = "SendFailure"   -> PeerSays(x, "failure")
    [] do = "Retransmit"    -> Event(SubAcSendResp(x), "UCT")
    [] do = "DoIntegrityCheck" -> Notify(x, "IntegrityCheck")
    [] do = "DoPolicyCheck" -> DoPolicyCheck(x)
    [] do = "ParseNotification" -> Event(x, "NotificationOutputFinished")
    [] do = "BuildNotification" ->
         Event([x EXCEPT !.txm = Eap("response", 0, "notification", None)], "UCT")
    [] do \in {"ParseIdentity", "CheckIdentity"} -> InputIdentity(x, ready)
    [] do = "BuildIdentity" ->
         Event([x EXCEPT !.txm = Eap("response", 0, "identity", None), !.valid = TRUE], "UCT")
    [] do = "BuildResp"     -> BuildResp(x)
    [] do = "BuildNak"      -> BuildNak(x)
    [] do = "Discard"       -> Event(x, "UCT")
    [] do = "CheckRxQueue"  -> CheckRxQueue(x)
    [] OTHER -> x

\* EapPeerMD5ChallengeStateMachine; pass is what InputPassphrase() sets, None nothing.
PeerMD5(x, pass) ==
  CASE x.meth = "Initialize" /\ pass = None -> Event(x, "SgInvalidReq")
    [] x.meth = "Initialize" /\ pass # None ->
         Event([x EXCEPT !.meth = "Success", !.dec = "UNCOND_SUCC",
                         !.txm = Eap("response", 0, "md5", pass)], "SgValidReq")
    [] OTHER -> x

PeerMethodMachine(x, pass) ==
  CASE x.cur = "archie" -> PeerArchie(x, pass)
    [] x.cur = "gpsk"   -> PeerGpsk(x, pass)
    [] x.cur = "tls"    -> PeerTls(x, pass)
    [] OTHER            -> PeerMD5(x, pass)

PeerFire(x, e, ready) ==
  IF <<x.fsm, e>> \in DOMAIN PeerTable
  THEN PeerLeaf([x EXCEPT !.fsm = PeerTable[@, e][3]], PeerTable[x.fsm, e][4], ready)
  ELSE [x EXCEPT !.fsm = PeerWildcard(@)]

\* One step of the job thread: the pending Event() or dequeue_head(), or else the
\* next event of the queue.
PeerBlocked(x) == x.ev = "Dequeue" /\ x.rx = <<>>
PeerInCall(x)  == x.ev # None /\ ~PeerBlocked(x)
PeerBusy(x)    == x.run /\ IF x.ev = None THEN x.q # <<>> ELSE ~PeerBlocked(x)
PeerAsks(x)    == x.ev = None /\ Head(x.q) = "IntegrityCheck" /\ x.meth = "Initialize"
PeerStep(x, chance, pass) ==
  IF x.ev = "Dequeue" THEN PeerDequeue(x, chance)
  ELSE IF x.ev # None THEN PeerFire([x EXCEPT !.ev = None], x.ev, chance)
  ELSE LET y == [x EXCEPT !.q = Tail(@)]
       IN IF Head(x.q) = "IntegrityCheck" THEN PeerMethodMachine(y, pass)
          ELSE PeerFire(y, Head(x.q), chance)
=============================================================================
