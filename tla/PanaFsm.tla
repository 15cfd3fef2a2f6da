------------------------------ MODULE PanaFsm ------------------------------
(***************************************************************************)
(* The two session machines of libpana: PANA_PacSession of the client and  *)
(* PANA_PaaSession of the authentication agent.                            *)
(*                                                                         *)
(* A session is a record that each step transforms.  Serve() holds one     *)
(* lock: it hands one message to the filter of its type, which validates   *)
(* it, puts it in the queue rxm and notifies an event; then it takes one   *)
(* event, whose action takes the head of rxm, whatever message that is.    *)
(***************************************************************************)
EXTENDS Integers, Sequences

CONSTANTS
  None,
  MRC        \* PANA_CFG_GENERAL().m_RT.m_MRC: transmissions of a request

ASSUME PanaFsmAssumption == MRC \in Nat \ {0}

\* Message types: the request and the answer of a type share its number.
MsgType == {"PCI", "PA", "PN", "PT"}

\* A message: r the request bit, f the flag, n the sequence number, s the session,
\* eap the payload, rc the result code of a complete request.
Msg(t, r, f, n, s, eap, rc) == [t |-> t, r |-> r, f |-> f, n |-> n, s |-> s, eap |-> eap, rc |-> rc]

Indexed(rows) == [k \in {<<r[1], r[2]>> : r \in rows} |->
                    CHOOSE r \in rows : k = <<r[1], r[2]>>]

\* q: events; rxm: validated messages; eap: EAP messages to send; ask: what the EAP
\* method was given and has not answered; req, ans: the last request and answer sent;
\* retry, sess, resp: the three timers; seen: the last conversation whose result came;
\* auth: the conversation of the last Authorize(); told: Disconnect() was called;
\* bad: why the session was stopped by an error; out: sent in this step.
Session(sid, ltx) ==
  [st |-> "Initial", run |-> TRUE, q |-> <<>>, rxm |-> <<>>, eap |-> <<>>, ask |-> None,
   sid |-> sid, ltx |-> ltx, lrx |-> 0, req |-> None, ans |-> None, cnt |-> 0,
   retry |-> FALSE, sess |-> FALSE, resp |-> FALSE,
   seen |-> 0, auth |-> 0, told |-> FALSE, bad |-> None, out |-> <<>>]

Notify(x, e) == IF x.run THEN [x EXCEPT !.q = Append(@, e)] ELSE x
\* An exception in an action ends in Stop().
Stopped(x, why) == [x EXCEPT !.run = FALSE, !.q = <<>>, !.bad = why,
                             !.retry = FALSE, !.sess = FALSE, !.resp = FALSE]

SendReqMsg(x, m) == [x EXCEPT !.out = Append(@, m), !.req = m, !.retry = TRUE, !.cnt = 1]
SendAnsMsg(x, m) == [x EXCEPT !.out = Append(@, m), !.ans = m]
CancelTxRetry(x) == [x EXCEPT !.retry = FALSE]
\* Dequeue() of an empty list: what an action takes was cleared by a Disconnect().
Starved(x, do, msgs, eaps) ==
  (do \in msgs /\ x.rxm = <<>>) \/ (do \in eaps /\ x.eap = <<>>)
Dequeued(x)      == [x EXCEPT !.rxm = Tail(@)]

\* Reset() forgets the session, but not the cached answer and the last request.
Disconnect(x) ==
  [x EXCEPT !.retry = FALSE, !.sess = FALSE, !.resp = FALSE, !.told = TRUE,
            !.rxm = <<>>, !.eap = <<>>, !.ask = None, !.sid = 0, !.lrx = 0]

\* Mutation: a retransmission that gives up silently.
RetransmissionSilent(x) ==
  IF x.cnt >= MRC THEN CancelTxRetry(x)
  ELSE [x EXCEPT !.cnt = @ + 1, !.retry = TRUE, !.out = Append(@, x.req)]

\* TxLastReqMsg with ReScheduleTxRetry, and what the action does when it gives up.
Retransmission(x) ==
  IF x.cnt >= MRC THEN Notify(CancelTxRetry(x), "RetryTimeout")
  ELSE [x EXCEPT !.cnt = @ + 1, !.retry = TRUE, !.out = Append(@, x.req)]
----------------------------------------------------------------------------
(* Reception.                                                              *)

\* RxValidateMsg: a request is new, a repetition of the last one, or thrown away; an
\* answer has the number of the last request.
Repeats(x, m) == m.r /\ x.lrx # 0 /\ m.n = x.lrx
Valid(x, m) ==
  /\ m.t # "PCI" => m.s = x.sid
  /\ IF m.r THEN x.lrx = 0 \/ m.n = x.lrx + 1 ELSE m.n = x.ltx

\* CachedAnsMsg() is dereferenced before an answer was cached.
RxRepeated(x, m) ==
  IF x.ans = None THEN Stopped(x, "null")
  ELSE IF x.ans.t = m.t THEN [x EXCEPT !.out = Append(@, x.ans)] ELSE x

\* The first request of a session sets the number, whoever it belongs to.
Rx(x, m, ev) ==
  LET y == IF m.r /\ x.lrx = 0 THEN [x EXCEPT !.lrx = m.n] ELSE x
  IN IF Repeats(x, m) THEN RxRepeated(x, m)
     ELSE IF ~Valid(x, m) THEN y
     ELSE Notify([y EXCEPT !.lrx = IF m.r THEN m.n ELSE @, !.rxm = Append(@, m)], ev)

\* The events that the filters make of a message.
PacPaEvent(m) ==
  CASE m.f = "S"          -> IF m.eap = None THEN "PAR.S" ELSE "PAR.SE"
    [] m.f = "C"          -> IF m.rc = "ok" THEN "PAR.Cok" ELSE "PAR.Cfail"
    [] m.f = None /\ m.r  -> "PAR"
    [] m.f = None /\ ~m.r -> "PAN"
\* S, C: the flag; O: the optimized handshake; E: the payload, in an answer of any kind.
PaaPaEvent(m, opt) ==
  CASE m.f = "S" /\ opt  -> IF m.eap = None THEN "PAN.SO" ELSE "PAN.SOE"
    [] m.f = "S" /\ ~opt -> IF m.eap = None THEN "PAN.S" ELSE "PAN.SE"
    [] m.f = "C"         -> IF m.eap = None THEN "PAN.C" ELSE "PAN.CE"
    [] m.f = None /\ m.r -> "PAR"
    [] m.f = None /\ ~m.r -> IF m.eap = None THEN "PAN" ELSE "PAN.E"
PnEvent(m) == CASE m.r /\ m.f = "P" -> "PNR.P" [] m.r /\ m.f = "A" -> "PNR.A"
                [] ~m.r /\ m.f = "P" -> "PNA.P" [] ~m.r /\ m.f = "A" -> "PNA.A"
PtEvent(m) == IF m.r THEN "PTR" ELSE "PTA"

\* A start request gives the session its id before it is validated.
PacRxPA(x, m) ==
  IF x.st \notin {"Initial", "WaitPan", "WaitPar", "Open"} THEN x
  ELSE Rx(IF m.f = "S" THEN [x EXCEPT !.sid = m.s] ELSE x, m, PacPaEvent(m))
PacRxPN(x, m) == IF x.st \in {"Open", "WaitPna"} THEN Rx(x, m, PnEvent(m)) ELSE x
PacRxPT(x, m) == IF x.st \in {"Open", "SessTerm"} THEN Rx(x, m, PtEvent(m)) ELSE x
PacRx(x, m)   == CASE m.t = "PA" -> PacRxPA(x, m)
                   [] m.t = "PN" -> PacRxPN(x, m)
                   [] m.t = "PT" -> PacRxPT(x, m)

PaaRxPA(x, m, opt) ==
  IF x.st \in {"Initial", "WaitPanOrPar", "WaitSuccPan", "WaitFailPan", "Open"}
  THEN Rx(x, m, PaaPaEvent(m, opt)) ELSE x
PaaRxPN(x, m) == IF x.st \in {"Open", "WaitPna"} THEN Rx(x, m, PnEvent(m)) ELSE x
PaaRxPT(x, m) == IF x.st \in {"Open", "SessTerm"} THEN Rx(x, m, PtEvent(m)) ELSE x
PaaRx(x, m, opt) == CASE m.t = "PA" -> PaaRxPA(x, m, opt)
                      [] m.t = "PN" -> PaaRxPN(x, m)
                      [] m.t = "PT" -> PaaRxPT(x, m)
----------------------------------------------------------------------------
(* The client.  pig: the piggyback option, part of some of its events.     *)

PacInitial == {
  <<"Initial", "AuthUser",       "Initial",    "TxPCI">>,
  <<"Initial", "PAR.S",          "WaitPar",    "RxPARStart">>,
  <<"Initial", "Response",       "WaitPar",    "TxPANStart">>,
  <<"Initial", "RespTimeout",    "Initial",    "Disconnect">>,
  <<"Initial", "ReTransmission", "Initial",    "Retransmission">>,
  <<"Initial", "RetryTimeout",   "Closed",     "Disconnect">>,
  <<"Initial", "SessTimeout",    "Closed",     "Disconnect">>}

PacWaitPan == {
  <<"WaitPan", "PAN",            "WaitPar", "RxPAN">>,
  <<"WaitPan", "ReTransmission", "WaitPan", "Retransmission">>,
  <<"WaitPan", "RetryTimeout",   "Closed",  "Disconnect">>,
  <<"WaitPan", "SessTimeout",    "Closed",  "Disconnect">>}

PacWaitPar == {
  <<"WaitPar", "PAR",            "WaitEapMsg",         "RxPAR">>,
  <<"WaitPar", "PAR.Cok",        "WaitEapResult",      "RxPARComplete">>,
  <<"WaitPar", "PAR.Cfail",      "WaitEapResultClose", "RxPARComplete">>,
  <<"WaitPar", "ReTransmission", "WaitPar",            "Retransmission">>,
  <<"WaitPar", "RetryTimeout",   "Closed",             "Disconnect">>,
  <<"WaitPar", "SessTimeout",    "Closed",             "Disconnect">>}

PacWaitEap == {
  <<"WaitEapMsg",         "EapInvalid", "Closed", "Disconnect">>,
  <<"WaitEapMsg",         "EapFailure", "Closed", "Disconnect">>,
  <<"WaitEapResult",      "EapSuccess", "Open",   "Opens">>,
  <<"WaitEapResult",      "EapFailure", "Closed", "Closes">>,
  <<"WaitEapResultClose", "EapSuccess", "Closed", "Closes">>,
  <<"WaitEapResultClose", "EapFailure", "Closed", "Closes">>}

PacOpen == {
  <<"Open", "PNR.P",       "Open",       "RxPNRPing">>,
  <<"Open", "Ping",        "WaitPna",    "TxPNRPing">>,
  <<"Open", "ReAuth",      "WaitPna",    "TxPNRAuth">>,
  <<"Open", "PAR",         "WaitEapMsg", "RestartRxPAR">>,
  <<"Open", "PTR",         "Closed",     "RxPTR">>,
  <<"Open", "Terminate",   "SessTerm",   "TxPTR">>,
  <<"Open", "SessTimeout", "Closed",     "Disconnect">>}

PacWaitPna == {
  <<"WaitPna", "PNA.A",          "WaitPar", "RxPNAAuth">>,
  <<"WaitPna", "PNA.P",          "Open",    "RxPNAPing">>,
  <<"WaitPna", "SessTimeout",    "Closed",  "Disconnect">>,
  <<"WaitPna", "ReTransmission", "WaitPna", "Retransmission">>,
  <<"WaitPna", "RetryTimeout",   "Closed",  "Retransmission">>}

PacSessTerm == {
  <<"SessTerm", "PTA",            "Closed",   "RxPTA">>,
  <<"SessTerm", "SessTimeout",    "Closed",   "Disconnect">>,
  <<"SessTerm", "RetryTimeout",   "Closed",   "Disconnect">>,
  <<"SessTerm", "ReTransmission", "SessTerm", "Retransmission">>}

PacPiggyback == {
  <<"Initial",    "PAR.SE",      "Initial", "RxPARStart">>,
  <<"WaitEapMsg", "Response",    "WaitPar", "TxPANEap">>,
  <<"WaitEapMsg", "RespTimeout", "WaitPar", "TxPANTout">>}
PacPlain == {
  <<"Initial",    "PAR.SE",   "WaitEapMsg", "RxPARStart">>,
  <<"WaitEapMsg", "Response", "WaitPan",    "TxPAR">>}

PacRows  == PacInitial \cup PacWaitPan \cup PacWaitPar \cup PacWaitEap \cup PacOpen
            \cup PacWaitPna \cup PacSessTerm
PacTable == [pig \in BOOLEAN |-> Indexed(PacRows \cup IF pig THEN PacPiggyback ELSE PacPlain)]

NotifyEapRestart(x)       == [x EXCEPT !.sess = FALSE, !.ask = None]
NotifyScheduleLifetime(x) == [x EXCEPT !.sess = TRUE]
NotifyEapRequest(x, eap)  == [x EXCEPT !.ask = eap]

Request(x, t, f) == Msg(t, TRUE, f, x.ltx + 1, x.sid, None, None)
Answer(x, t, f)  == Msg(t, FALSE, f, x.lrx, x.sid, None, None)
SendRequest(x, m) == SendReqMsg([x EXCEPT !.ltx = m.n], m)

WithEap(x, m)  == [m EXCEPT !.eap = Head(x.eap)]
EapTaken(x)    == [x EXCEPT !.eap = Tail(@)]

TxPANStart(x, eap) ==
  IF eap THEN SendAnsMsg(EapTaken(x), WithEap(x, Answer(x, "PA", "S")))
  ELSE SendAnsMsg(x, Answer(x, "PA", "S"))

RxPARStart(x, pig) ==
  LET m == Head(x.rxm)
      y == NotifyScheduleLifetime(NotifyEapRestart(CancelTxRetry(Dequeued(x))))
  IN IF m.eap = None THEN TxPANStart(y, FALSE)
     ELSE LET z == [NotifyEapRequest(y, m.eap) EXCEPT !.resp = TRUE]
          IN IF pig THEN z ELSE TxPANStart(z, FALSE)

PacTxPAN(x, eap) ==
  IF eap THEN SendAnsMsg([EapTaken(x) EXCEPT !.resp = FALSE], WithEap(x, Answer(x, "PA", None)))
  ELSE SendAnsMsg(x, Answer(x, "PA", None))

PacRxPAR(x, pig) ==
  LET m == Head(x.rxm)
      y == CancelTxRetry(Dequeued(x))
      z == IF pig THEN y ELSE PacTxPAN(y, FALSE)
  IN IF m.eap = None THEN Stopped(z, "payload")
     ELSE [NotifyEapRequest(z, m.eap) EXCEPT !.resp = TRUE]

\* The result goes to the EAP method, which answers with a verdict; EapAltReject() of
\* the applications does nothing.
RxPARComplete(x) ==
  LET m == Head(x.rxm)
      y == Dequeued(x)
  IN IF m.rc = None \/ (m.eap = None /\ m.rc = "ok") THEN Stopped(y, "payload")
     ELSE IF m.eap = None THEN y
     ELSE [NotifyEapRequest(y, m.eap) EXCEPT !.seen = m.eap[2]]

TxPTR(x) == SendRequest([x EXCEPT !.sess = FALSE], Request(x, "PT", None))
RxPTR(x) == Disconnect(SendAnsMsg(Dequeued(x), Answer(x, "PT", None)))
RxPNRPing(x) == SendAnsMsg(Dequeued(x), Answer(x, "PN", "P"))

\* What both tables name alike.
Common(x, do) ==
  CASE do = "Disconnect"     -> Disconnect(x)
    [] do = "Retransmission" -> Retransmission(x)
    [] do = "TxPNRPing"      -> SendRequest(x, Request(x, "PN", "P"))
    [] do = "RxPNRPing"      -> RxPNRPing(x)
    [] do = "RxPNAPing"      -> CancelTxRetry(Dequeued(x))
    [] do = "TxPTR"          -> TxPTR(x)
    [] do = "RxPTR"          -> RxPTR(x)
    [] do = "RxPTA"          -> Disconnect(x)
CommonNames == {"Disconnect", "Retransmission", "TxPNRPing", "RxPNRPing", "RxPNAPing",
                "TxPTR", "RxPTR", "RxPTA"}

PacTakesMsg == {"RxPARStart", "RxPAN", "RxPAR", "RestartRxPAR", "RxPARComplete", "RxPNAAuth",
                "RxPNRPing", "RxPNAPing", "RxPTR"}
PacTakesEap == {"TxPANStart", "TxPAR", "TxPANEap"}
PacDo(x, do, pig) ==
  IF Starved(x, do, PacTakesMsg, PacTakesEap) THEN Stopped(x, "empty") ELSE
  CASE do = "TxPCI"         -> SendReqMsg([x EXCEPT !.sid = 0], Msg("PCI", FALSE, None, 0, 0, None, None))
    [] do = "RxPARStart"    -> RxPARStart(x, pig)
    [] do = "TxPANStart"    -> TxPANStart(x, TRUE)
    [] do = "RxPAN"         -> CancelTxRetry(Dequeued(x))
    [] do = "RxPAR"         -> PacRxPAR(x, pig)
    [] do = "RestartRxPAR"  -> PacRxPAR(NotifyScheduleLifetime(NotifyEapRestart(x)), pig)
    [] do = "RxPARComplete" -> RxPARComplete(x)
    [] do = "TxPAR"         -> SendRequest([EapTaken(x) EXCEPT !.resp = FALSE], WithEap(x, Request(x, "PA", None)))
    [] do = "TxPANEap"      -> PacTxPAN(x, TRUE)
    [] do = "TxPANTout"     -> [PacTxPAN(x, FALSE) EXCEPT !.resp = FALSE]
    [] do = "Opens"         -> [SendAnsMsg(x, Answer(x, "PA", "C")) EXCEPT !.auth = x.seen, !.sess = TRUE]
    [] do = "Closes"        -> Disconnect(SendAnsMsg(x, Answer(x, "PA", "C")))
    [] do = "TxPNRAuth"     -> SendRequest([x EXCEPT !.sess = FALSE], Request(x, "PN", "A"))
    [] do = "RxPNAAuth"     -> NotifyEapRestart(CancelTxRetry(Dequeued(x)))
    [] do \in CommonNames   -> Common(x, do)

\* Event(): the state changes before the action; without a row nothing happens, be
\* it by a wildcard or without one.
PacEvent(x, e, pig) ==
  LET k == <<x.st, e>>
  IN IF k \in DOMAIN PacTable[pig]
     THEN PacDo([x EXCEPT !.st = PacTable[pig][k][3]], PacTable[pig][k][4], pig) ELSE x
----------------------------------------------------------------------------
(* The agent.                                                              *)

PaaInitial == {
  <<"Initial", "PacFound",       "Initial",      "EapRestart">>,
  <<"Initial", "EapRequest",     "Initial",      "TxPARStart">>,
  <<"Initial", "EapTimeout",     "Initial",      "Disconnect">>,
  <<"Initial", "EapFailure",     "Initial",      "Disconnect">>,
  <<"Initial", "PAN.S",          "WaitEapMsg",   "RxPANStart">>,
  <<"Initial", "PAN.SOE",        "WaitEapMsg",   "RxPANStart">>,
  <<"Initial", "PAN.SO",         "WaitPanOrPar", "RxPANStart">>,
  <<"Initial", "RetryTimeout",   "Closed",       "Disconnect">>,
  <<"Initial", "ReTransmission", "Initial",      "Retransmission">>}

\* The row of an unauthorized user with the action of the authorized one.
PaaWaitEapAll == {
  <<"WaitEapMsg", "EapRequest", "WaitPanOrPar", "TxPAR">>,
  <<"WaitEapMsg", "EapFailure", "WaitFailPan",  "TxPARRejected">>,
  <<"WaitEapMsg", "EapSuccess", "WaitSuccPan",  "TxPARSuccess">>,
  <<"WaitEapMsg", "EapUnauth",  "WaitFailPan",  "TxPARSuccess">>,
  <<"WaitEapMsg", "EapTimeout", "Closed",       "Disconnect">>,
  <<"WaitEapMsg", "EapInvalid", "Closed",       "Disconnect">>}
PaaWaitEap == {
  <<"WaitEapMsg", "EapRequest", "WaitPanOrPar", "TxPAR">>,
  <<"WaitEapMsg", "EapFailure", "WaitFailPan",  "TxPARRejected">>,
  <<"WaitEapMsg", "EapSuccess", "WaitSuccPan",  "TxPARSuccess">>,
  <<"WaitEapMsg", "EapUnauth",  "WaitFailPan",  "TxPARUnauth">>,
  <<"WaitEapMsg", "EapTimeout", "Closed",       "Disconnect">>,
  <<"WaitEapMsg", "EapInvalid", "Closed",       "Disconnect">>}

PaaWaitResult == {
  <<"WaitSuccPan", "PAN.C",          "Open",        "Opens">>,
  <<"WaitSuccPan", "RetryTimeout",   "Closed",      "Disconnect">>,
  <<"WaitSuccPan", "ReTransmission", "WaitSuccPan", "Retransmission">>,
  <<"WaitFailPan", "PAN.C",          "Closed",      "Closes">>,
  <<"WaitFailPan", "RetryTimeout",   "Closed",      "Disconnect">>,
  <<"WaitFailPan", "ReTransmission", "WaitFailPan", "Retransmission">>}

PaaOpen == {
  <<"Open", "PNR.A",       "WaitEapMsg", "RxPNRAuth">>,
  <<"Open", "ReAuth",      "WaitEapMsg", "EapReAuth">>,
  <<"Open", "SessTimeout", "WaitEapMsg", "EapReAuth">>,
  <<"Open", "Ping",        "WaitPna",    "TxPNRPing">>,
  <<"Open", "PNR.P",       "Open",       "RxPNRPing">>,
  <<"Open", "Terminate",   "SessTerm",   "TxPTR">>,
  <<"Open", "PTR",         "Closed",     "RxPTR">>}

PaaWaitPna == {
  <<"WaitPna", "PNA.P",          "Open",    "RxPNAPing">>,
  <<"WaitPna", "RetryTimeout",   "Closed",  "Disconnect">>,
  <<"WaitPna", "ReTransmission", "WaitPna", "Retransmission">>}

PaaWaitPanOrPar == {
  <<"WaitPanOrPar", "PAR",            "WaitEapMsg",   "RxPAR">>,
  <<"WaitPanOrPar", "PAN.E",          "WaitEapMsg",   "RxPAN">>,
  <<"WaitPanOrPar", "PAN",            "WaitPanOrPar", "RxPAN">>,
  <<"WaitPanOrPar", "EapRequest",     "WaitPanOrPar", "TxPAR">>,
  <<"WaitPanOrPar", "EapTimeout",     "Closed",       "Disconnect">>,
  <<"WaitPanOrPar", "RetryTimeout",   "Closed",       "Disconnect">>,
  <<"WaitPanOrPar", "ReTransmission", "WaitPanOrPar", "Retransmission">>}

PaaSessTerm == {
  <<"SessTerm", "PTA",            "Closed",   "RxPTA">>,
  <<"SessTerm", "RetryTimeout",   "Closed",   "Disconnect">>,
  <<"SessTerm", "ReTransmission", "SessTerm", "Retransmission">>}

PaaTable == Indexed(PaaInitial \cup PaaWaitEap \cup PaaWaitResult \cup PaaOpen \cup PaaWaitPna
                    \cup PaaWaitPanOrPar \cup PaaSessTerm)

\* EapStart() makes the EAP method of the application begin a conversation.
EapStart(x)  == [x EXCEPT !.ask = <<"start", 0>>]
EapReAuth(x) == [EapStart(x) EXCEPT !.sess = FALSE]

TxPARStart(x, opt) ==
  IF opt /\ x.eap = <<>> THEN Stopped([x EXCEPT !.ltx = @ + 1], "payload")
  ELSE IF opt THEN SendRequest(EapTaken(x), WithEap(x, Request(x, "PA", "S")))
  ELSE SendRequest(x, Request(x, "PA", "S"))

RxPANStart(x, opt) ==
  LET m == Head(x.rxm)
      y == Dequeued(x)
  IN IF m.eap # None THEN NotifyEapRequest(y, m.eap)
     ELSE IF ~opt THEN [EapStart(y) EXCEPT !.sess = FALSE] ELSE y

TxPAR(x) ==
  IF x.eap = <<>> THEN Stopped([x EXCEPT !.ltx = @ + 1], "payload")
  ELSE SendRequest(EapTaken(x), WithEap(x, Request(x, "PA", None)))
TxPARComplete(x, rc) ==
  SendRequest(EapTaken(x), [WithEap(x, Request(x, "PA", "C")) EXCEPT !.rc = rc])

\* RxPAR without its answer.
PaaRxPARSilent(x) ==
  LET m == Head(x.rxm)
      y == Dequeued(x)
  IN CancelTxRetry(IF m.eap = None THEN y ELSE NotifyEapRequest(y, m.eap))
PaaRxPAR(x) ==
  LET m == Head(x.rxm)
      y == Dequeued(x)
      z == IF m.eap = None THEN y ELSE NotifyEapRequest(y, m.eap)
  IN SendAnsMsg(CancelTxRetry(z), Answer(z, "PA", None))
PaaRxPAN(x) ==
  LET m == Head(x.rxm)
      y == CancelTxRetry(Dequeued(x))
  IN IF m.eap = None THEN y ELSE NotifyEapRequest(y, m.eap)

PaaTakesMsg == {"RxPANStart", "Opens", "Closes", "RxPAR", "RxPAN", "RxPNRAuth",
                "RxPNRPing", "RxPNAPing", "RxPTR"}
PaaTakesEap == {"TxPARSuccess", "TxPARRejected", "TxPARUnauth"}
PaaDo(x, do, opt) ==
  IF Starved(x, do, PaaTakesMsg, PaaTakesEap) THEN Stopped(x, "empty") ELSE
  CASE do = "EapRestart"    -> [EapStart(x) EXCEPT !.sess = FALSE]
    [] do = "TxPARStart"    -> TxPARStart(x, opt)
    [] do = "RxPANStart"    -> RxPANStart(x, opt)
    [] do = "TxPAR"         -> TxPAR(x)
    [] do = "TxPARSuccess"  -> TxPARComplete(x, "ok")
    [] do \in {"TxPARRejected", "TxPARUnauth"} -> TxPARComplete(x, "rejected")
    [] do = "Opens"         -> [CancelTxRetry(Dequeued(x)) EXCEPT !.sess = TRUE, !.auth = x.seen]
    [] do = "Closes"        -> Disconnect(CancelTxRetry(Dequeued(x)))
    [] do = "RxPAR"         -> PaaRxPAR(x)
    [] do = "RxPAN"         -> PaaRxPAN(x)
    [] do = "RxPNRAuth"     -> SendAnsMsg(EapReAuth(Dequeued(x)), Answer(x, "PN", "A"))
    [] do = "EapReAuth"     -> EapReAuth(x)
    [] do \in CommonNames   -> Common(x, do)

PaaStep(x, e, opt) ==
  LET k == <<x.st, e>>
  IN IF k \in DOMAIN PaaTable THEN PaaDo([x EXCEPT !.st = PaaTable[k][3]], PaaTable[k][4], opt) ELSE x
=============================================================================
