------------------------------ MODULE EapAuth ------------------------------
(***************************************************************************)
(* The authenticators of libeap: stand-alone, pass-through and backend     *)
(* switch state machines with the identity, notification and MD5-Challenge *)
(* methods, and the policy they walk through (eapcore/).                   *)
(*                                                                         *)
(* Records, Notify() and Event() as in EapPeer.  Tunnels are left out.     *)
(***************************************************************************)
EXTENDS EapPeer

CONSTANTS
  MaxTrial,          \* trials of the identity after the first
  MaxRetransmission  \* how often a request is sent

ASSUME EapAuthAssumption == MaxTrial \in Nat /\ MaxRetransmission \in Nat

\* EapPolicy::Update(EapTypeList&): on failure, until a listed method or the end.
UpdateNak(x, type) ==
  LET next[e \in DOMAIN Policy[x.policy]] ==
        LET n == Policy[x.policy][e][2]
        IN IF n \in {"success", "failure", type} THEN n ELSE next[n]
  IN IF Continued(x) THEN [x EXCEPT !.at = next[@]] ELSE x

AuthKind == {"standalone", "passthrough", "backend"}

\* at: the policy element; cur, mstate: CurrentMethod(), MethodState(); meth, trial,
\* done: of its machine; aaa: AAARxQueue(); cnt: RetransmissionCount().
AuthInit(kind, policy) ==
  [kind |-> kind, fsm |-> "Begin", run |-> FALSE, q |-> <<>>, ev |-> None,
   rx |-> <<>>, rxm |-> None, txm |-> NoMessage, aaa |-> <<>>, id |-> 0, cur |-> None,
   policy |-> policy, at |-> IF policy = None THEN None ELSE "identity",
   mstate |-> "PROPOSED", meth |-> None, trial |-> 0, done |-> FALSE,
   mem |-> None, mkey |-> None, key |-> None,
   cnt |-> 0, armed |-> FALSE, said |-> None, tx |-> <<>>]

\* Start(), and Start(msg) of a backend that picks up an identity.
AuthStart(x, msg) ==
  [x EXCEPT !.run = TRUE, !.rxm = msg, !.q = Append(@, "Restart"),
            !.at = IF x.policy = None THEN None ELSE "identity"]
----------------------------------------------------------------------------
(* The rows all three machines have.                                       *)

AuthStarts == {
  <<"Begin",    "Restart",     "Disabled",   "Disable">>,
  <<"Disabled", "PortEnabled", "Initialize", "Initialize">>}

AuthSelects == {
  <<"SelectAction", "PolicySat",            "Success",       "SendSuccess">>,
  <<"SelectAction", "PolicyNotSat_EndSess", "Failure",       "SendFailure">>,
  <<"SelectAction", "Else",                 "ProposeMethod", "ProposeMethod">>,
  <<"ProposeMethod", "ValidResp",           "MethodRequest", "BuildRequest">>,
  <<"MethodRequest", "UCT",                 "SendRequest",   "SendRequest">>}

AuthMethods == {
  <<"IntegrityCheck", "ValidResp",   "MethodResponse", "MethodResponse">>,
  <<"IntegrityCheck", "InvalidResp", "Discard",        "Discard">>,
  <<"IntegrityCheck", "RxMsg",       "IntegrityCheck", "Discard2">>,
  <<"MethodResponse", "EndMethod",   "SelectAction",   "DoPolicyCheck">>,
  <<"MethodResponse", "Else",        "MethodRequest",  "BuildRequest">>,
  <<"SendRequest",    "UCT",         "Idle",           "nothing">>}

\* Mutation: a discarded message is taken from the queue again.
AuthWaitsTwice == {
  <<"Idle",       "To",                "Retransmit",     "Retransmit">>,
  <<"Idle",       "RxMsg",             "Received",       "ReceiveMsg">>,
  <<"Received",   "RxMethodResp",      "IntegrityCheck", "DoIntegrityCheck">>,
  <<"Received",   "RxNak",             "Nak",            "ResetMethod">>,
  <<"Received",   "Else",              "Discard",        "Discard2">>,
  <<"Retransmit", "MaxRetransmission", "TimeoutFailure", "nothing">>,
  <<"Retransmit", "Else",              "Idle",           "nothing">>,
  <<"Nak",        "UCT",               "SelectAction",   "DoPolicyCheck">>,
  <<"Discard",    "UCT",               "Idle",           "nothing">>,
  <<"Success",    "RxMsg",             "Success",        "Discard2">>,
  <<"Failure",    "RxMsg",             "Failure",        "Discard2">>}

AuthWaits == {
  <<"Idle",       "To",                "Retransmit",     "Retransmit">>,
  <<"Idle",       "RxMsg",             "Received",       "ReceiveMsg">>,
  <<"Received",   "RxMethodResp",      "IntegrityCheck", "DoIntegrityCheck">>,
  <<"Received",   "RxNak",             "Nak",            "ResetMethod">>,
  <<"Received",   "Else",              "Discard",        "Discard">>,
  <<"Retransmit", "MaxRetransmission", "TimeoutFailure", "nothing">>,
  <<"Retransmit", "Else",              "Idle",           "nothing">>,
  <<"Nak",        "UCT",               "SelectAction",   "DoPolicyCheck">>,
  <<"Discard",    "UCT",               "Idle",           "nothing">>,
  <<"Success",    "RxMsg",             "Success",        "Discard2">>,
  <<"Failure",    "RxMsg",             "Failure",        "Discard2">>}

AuthRows == AuthStarts \cup AuthSelects \cup AuthMethods \cup AuthWaits

StandAloneTable == AuthRows \cup {<<"Initialize", "UCT", "SelectAction", "DoPolicyCheck">>}

BackendTable == AuthRows \cup {
  <<"Initialize",   "RxNonResp", "SelectAction",   "DoPolicyCheck">>,
  <<"Initialize",   "Else",      "PickUpMethod",   "PickUpMethod">>,
  <<"Initialize",   "RxNak",     "Nak",            "ResetMethod">>,
  <<"PickUpMethod", "NoMethod",  "SelectAction",   "DoPolicyCheck">>,
  <<"PickUpMethod", "Else",      "IntegrityCheck", "DoIntegrityCheck">>}

PassThroughAaa == {
  <<"SelectAction", "PassThrough",    "InitializePassThrough", "PickUpInitCheck">>,
  <<"InitializePassThrough", "PickUpInit",   "AaaRequest", "AaaRequest">>,
  <<"InitializePassThrough", "NoPickUpInit", "AaaIdle",    "DoIntegrityCheck2">>,
  <<"AaaRequest", "UCT",          "AaaIdle",     "DoIntegrityCheck2">>,
  <<"AaaIdle",    "RxAaaEapReq",  "AaaResponse", "PrepareRequest">>,
  <<"AaaIdle",    "SgAaaSuccess", "Success2",    "CompletePassThroughWithSuccess">>,
  <<"AaaIdle",    "SgAaaFailure", "Failure2",    "CompletePassThroughWithFailure">>,
  <<"AaaIdle",    "AaaContinue",  "AaaIdle",     "AaaContinue">>,
  <<"AaaIdle",    "AaaSuccess",   "AaaIdle",     "AaaSuccess">>,
  <<"AaaIdle",    "AaaFailure",   "AaaIdle",     "AaaFailure">>,
  <<"AaaIdle",    "SgDiscard",    "Discard2",    "Discard3">>}

PassThroughWaits == {
  <<"Discard2",     "UCT",          "Idle2",        "nothing">>,
  <<"Received2",    "RxMethodResp", "AaaRequest",   "AaaRequest">>,
  <<"Received2",    "Else",         "Discard2",     "Discard">>,
  <<"Idle2",        "RxMsg",        "Received2",    "ReceiveMsg2">>,
  <<"Idle2",        "AaaContinue",  "Idle2",        "Discard3">>,
  <<"Idle2",        "To",           "Retransmit2",  "Retransmit">>,
  <<"AaaResponse",  "UCT",          "SendRequest2", "SendRequest">>,
  <<"SendRequest2", "UCT",          "Idle2",        "nothing">>,
  <<"Success2",     "AaaContinue",  "Success2",     "Discard3">>,
  <<"Failure2",     "AaaContinue",  "Failure2",     "Discard3">>,
  <<"Retransmit2",  "MaxRetransmission", "TimeoutFailure2", "nothing">>,
  <<"Retransmit2",  "Else",         "Idle2",        "nothing">>}

PassThroughTable ==
  AuthRows \cup {<<"Initialize", "UCT", "SelectAction", "DoPolicyCheck">>}
  \cup PassThroughAaa \cup PassThroughWaits

AuthTable == [standalone |-> Indexed(StandAloneTable), backend |-> Indexed(BackendTable),
              passthrough |-> Indexed(PassThroughTable)]
----------------------------------------------------------------------------
(* What the rows do.                                                       *)

Passthrough(x) == x.kind = "passthrough" /\ ~Continued(x)

DoPolicyCheck2(x) ==
  Event(x, CASE Passthrough(x) -> "PassThrough"
             [] x.kind # "passthrough" /\ x.at = "success"   -> "PolicySat"
             [] x.kind # "passthrough" /\ ~Continued(x) /\ x.at # "success" ->
                  "PolicyNotSat_EndSess"
             [] OTHER -> "Else")

\* A backend starts from the identity that its pass-through has collected.
BackendInitialize(x) ==
  LET y == [x EXCEPT !.id = 0]
      m == x.rxm
  IN IF m = None THEN Event(y, "Else")
     ELSE IF m.code # "response" THEN Event(y, "RxNonResp")
     ELSE IF m.type # y.at THEN Event([y EXCEPT !.id = m.id], "RxNonResp")
     ELSE Event([y EXCEPT !.id = m.id, !.cur = m.type],
                IF m.type = "nak" THEN "RxNak" ELSE "Else")
AuthInitialize(x) ==
  IF x.kind = "backend" THEN BackendInitialize(x) ELSE Event([x EXCEPT !.id = 0], "UCT")

NewMethod(x, type) ==
  [x EXCEPT !.cur = type, !.meth = "Initialize", !.trial = 0, !.done = FALSE,
            !.mem = None, !.mkey = None]

PickUpMethod(x) ==
  IF x.at = "identity" THEN Event(NewMethod(x, "identity"), "Else") ELSE Event(x, "NoMethod")

\* The stand-alone machine has notifications among the methods that a Nak refuses.
ProposeMethod(x) ==
  Notify([NewMethod(x, x.at) EXCEPT
            !.mstate = IF x.at = "identity" \/ (x.at = "notification" /\ x.kind # "standalone")
                       THEN "CONT" ELSE "PROPOSED"], "IntegrityCheck")

\* The header that AcBuildRequest writes over the message of the method.
BuildRequest(x) ==
  LET id == (x.id + 1) % 256
  IN Event([x EXCEPT !.id = id, !.txm = Eap("request", id, @.type, @.data)], "UCT")

\* A backend has no retransmission interval.  Send() follows the Notify().
SendRequest(x) ==
  [Notify(x, "UCT") EXCEPT !.cnt = 1, !.armed = x.kind # "backend", !.tx = Append(@, x.txm)]

Retransmit(x) ==
  IF x.cnt < MaxRetransmission
  THEN [Notify(x, "Else") EXCEPT !.cnt = @ + 1, !.tx = Append(@, x.txm)]
  ELSE Event([x EXCEPT !.armed = FALSE], "MaxRetransmission")

\* Only the stand-alone machine asks whether the method has a key.
MethodResponse(x) ==
  IF x.done
  THEN Event([x EXCEPT !.mstate = "END",
                       !.key = IF x.mkey # None \/ x.kind # "standalone" THEN x.mkey ELSE @],
             "EndMethod")
  ELSE Event([x EXCEPT !.mstate = "CONT"], "Else")

\* AcReceiveMsg and AcReceiveMsg2 once dequeue_head() has returned.  A message
\* that is no answer to the request is put aside by a Notify().
AuthTakes(x) == [x EXCEPT !.rx = Tail(@), !.rxm = Head(x.rx), !.ev = None]
Answers(x, m) == m.code = "response" /\ m.id = x.id
PutAside(x)   == [x EXCEPT !.rxm = None]

\* Mutation: any response is for the request that waits.
AuthDequeueAny(x) ==
  LET m == Head(x.rx)
      y == AuthTakes(x)
  IN IF x.fsm = "Received2" THEN Event(y, "RxMethodResp")
     ELSE IF m.type = "nak" THEN
       IF y.mstate = "PROPOSED" THEN Event(y, "RxNak") ELSE Event(PutAside(y), "Else")
     ELSE IF m.type # y.cur THEN Event(PutAside(y), "Else")
     ELSE Event(y, "RxMethodResp")

AuthDequeue(x) ==
  LET m == Head(x.rx)
      y == AuthTakes(x)
  IN IF ~Answers(x, m) THEN Notify(PutAside(y), "Else")
     ELSE IF x.fsm = "Received2" THEN Event(y, "RxMethodResp")
     ELSE IF m.type = "nak" /\ ~Passthrough(y) THEN
       IF y.mstate = "PROPOSED" THEN Event(y, "RxNak") ELSE Event(PutAside(y), "Else")
     ELSE IF m.type # y.cur /\ ~Passthrough(y) THEN Event(PutAside(y), "Else")
     ELSE Event(y, "RxMethodResp")

ResetMethod(x) == Event(UpdateNak(PutAside(x), x.rxm.data), "UCT")

\* Mutation: what the server sent with its code is not looked at.
AaaTakesUnread(x, code, e) ==
  Event([x EXCEPT !.aaa = Tail(@), !.id = Head(x.aaa).id, !.txm = Head(x.aaa)],
        IF Head(x.aaa).code = "request" THEN "RxAaaEapReq" ELSE "SgAaaSuccess")

\* AcAaaContinue, AcAaaSuccess and AcAaaFailure, when the server sent EAP: another
\* code than theirs is discarded.
AaaTakes(x, code, e) ==
  LET m == Head(x.aaa)
      y == [x EXCEPT !.aaa = Tail(@)]
  IN IF m.code # code THEN Event(y, "SgDiscard")
     ELSE Event([y EXCEPT !.id = m.id, !.txm = m], e)

\* Success() and Failure() of the application send the message and stop.
AuthSays(x, m, verdict) ==
  Stop([x EXCEPT !.armed = FALSE, !.cnt = 0, !.said = verdict, !.tx = Append(@, m)])

AuthLeafOwn(x, do) ==
  CASE do = "Disable"        -> Event(x, "PortEnabled")
    [] do = "Initialize"     -> AuthInitialize(x)
    [] do = "PickUpMethod"   -> PickUpMethod(x)
    [] do = "DoPolicyCheck"  -> DoPolicyCheck2(x)
    [] do = "ProposeMethod"  -> ProposeMethod(x)
    [] do = "BuildRequest"   -> BuildRequest(x)
    [] do = "SendRequest"    -> SendRequest(x)
    [] do = "MethodResponse" -> MethodResponse(x)
    [] do = "DoIntegrityCheck" -> Notify(x, "IntegrityCheck")
    [] do = "Discard"        -> Event(x, "UCT")
    [] do = "Discard2"       -> Event(x, "Discard2")
    [] do = "Retransmit"     -> Retransmit(x)
    [] do = "ReceiveMsg"     -> Event(x, "Dequeue")
    [] do = "ResetMethod"    -> ResetMethod(x)
    [] do = "SendSuccess"    -> AuthSays(x, Eap("success", x.id, None, None), "success")
    [] do = "SendFailure"    -> AuthSays(x, Eap("failure", x.id, None, None), "failure")

PassThroughLeaf(x, do) ==
  CASE do = "PickUpInitCheck" -> Event(x, IF x.rxm = None THEN "NoPickUpInit" ELSE "PickUpInit")
    [] do = "AaaRequest"     -> Event(x, "UCT")
    [] do = "DoIntegrityCheck2" -> [x EXCEPT !.tx = Append(@, x.rxm)]
    [] do = "AaaContinue"    -> AaaTakes(x, "request", "RxAaaEapReq")
    [] do = "AaaSuccess"     -> AaaTakes(x, "success", "SgAaaSuccess")
    [] do = "AaaFailure"     -> AaaTakes(x, "failure", "SgAaaFailure")
    [] do = "PrepareRequest" -> Event(x, "UCT")
    [] do = "ReceiveMsg2"    -> Event(x, "Dequeue")
    [] do = "Discard3"       -> Event(x, "Discard3")
    [] do = "CompletePassThroughWithSuccess" -> AuthSays(x, x.txm, "success")
    [] do = "CompletePassThroughWithFailure" -> AuthSays(x, x.txm, "failure")

LeavesOwn == {r[4] : r \in BackendTable}

AuthLeaf(x, do) ==
  IF do = "nothing" THEN x
  ELSE IF do \in LeavesOwn THEN AuthLeafOwn(x, do)
  ELSE PassThroughLeaf(x, do)
----------------------------------------------------------------------------
(* The methods' machines: what EvSgIntegrityCheck makes them do.           *)

\* EapAuthIdentityStateMachine: known is what ProcessIdentity() answers; a backend
\* that picks up an identity takes the message it was started with.
AuthIdentity(x, known, pickup) ==
  LET processes == x.meth = "WaitResponse"
                   \/ (x.meth = "Initialize" /\ x.kind = "backend" /\ pickup)
  IN CASE processes /\ known -> MethodEnds(Succeed(x), "Success", "ValidResp")
       [] processes /\ ~known /\ x.trial < MaxTrial ->
            Asks([x EXCEPT !.trial = @ + 1], "WaitResponse", None)
       [] processes /\ ~known /\ x.trial >= MaxTrial ->
            MethodEnds(Fail([x EXCEPT !.trial = @ + 1]), "Failure", "InvalidResp")
       [] ~processes /\ x.meth = "Initialize" -> Asks(x, "WaitResponse", None)
       [] OTHER -> x

\* EapAuthMD5ChallengeStateMachine: the digest is over the current identifier.
AuthMD5(x) ==
  CASE x.meth = "Initialize" -> Asks(x, "WaitResponse", None)
    [] x.meth = "WaitResponse" /\ x.rxm.id = x.id /\ x.rxm.data = "right" ->
         MethodEnds(Succeed(x), "Success", "ValidResp")
    [] x.meth = "WaitResponse" /\ ~(x.rxm.id = x.id /\ x.rxm.data = "right") ->
         MethodEnds(Fail(x), "Failure", "ValidResp")
    [] OTHER -> x

AuthNotification(x) ==
  CASE x.meth = "Initialize"   -> Asks(x, "WaitResponse", None)
    [] x.meth = "WaitResponse" ->
         MethodEnds(Succeed([x EXCEPT !.txm = NoMessage]), "Success", "ValidResp")
    [] OTHER -> x

AuthMethod(x, known, pickup) ==
  CASE x.cur = "identity"     -> AuthIdentity(x, known, pickup)
    [] x.cur = "notification" -> AuthNotification(x)
    [] x.cur = "archie"       -> AuthArchie(x)
    [] x.cur = "gpsk"         -> AuthGpsk(x)
    [] x.cur = "tls"          -> AuthTls(x)
    [] OTHER                  -> AuthMD5(x)
----------------------------------------------------------------------------
AuthFire(x, e) ==
  IF <<x.fsm, e>> \in DOMAIN AuthTable[x.kind]
  THEN AuthLeaf([x EXCEPT !.fsm = AuthTable[x.kind][@, e][3]], AuthTable[x.kind][x.fsm, e][4])
  ELSE x

AuthBlocked(x) == \/ x.ev \in {"Dequeue", "Discard2"} /\ x.rx = <<>>
                  \/ x.ev = "Discard3" /\ x.aaa = <<>>
AuthInCall(x)  == x.ev # None /\ ~AuthBlocked(x)
AuthBusy(x)    == x.run /\ IF x.ev = None THEN x.q # <<>> ELSE ~AuthBlocked(x)

\* One step of the job thread.  The pass-through's AcDiscard2 ends with an Event().
AuthStep(x, known, pickup) ==
  CASE x.ev = "Dequeue"  -> AuthDequeue(x)
    [] x.ev = "Discard2" -> [x EXCEPT !.rx = Tail(@),
                                      !.ev = IF x.kind = "passthrough" THEN "UCT" ELSE None]
    [] x.ev = "Discard3" -> [x EXCEPT !.aaa = Tail(@), !.ev = None]
    [] x.ev = None -> LET y == [x EXCEPT !.q = Tail(@)]
                      IN IF Head(x.q) = "IntegrityCheck" THEN AuthMethod(y, known, pickup)
                         ELSE AuthFire(y, Head(x.q))
    [] OTHER -> AuthFire([x EXCEPT !.ev = None], x.ev)
=============================================================================
