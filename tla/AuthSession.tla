---------------------------- MODULE AuthSession ----------------------------
(***************************************************************************)
(* An authorization session: DiameterClientAuthSession and                 *)
(* DiameterServerAuthSession with their state machines, the message        *)
(* receiver that finds or creates the server's half, and the session       *)
(* database and garbage collector behind it (libdiameter).                 *)
(*                                                                         *)
(* One session id.  A half is a record that its operations transform; what *)
(* an operation sends gathers in tx until the end of its step.  Lifetime   *)
(* and grace are negotiated as the session timeout is, and are left out.   *)
(* Applications send after Begin(), as the ones in libdiameter/test do.    *)
(***************************************************************************)
EXTENDS Integers, Sequences

CONSTANTS
  SessionTm,    \* the session timeout in the configuration of both nodes
  Tout,         \* what an application may set instead
  MaxBegin, MaxCalls,  \* bounds: Begin(), other calls of the applications
  MaxUnrouted,         \* bound: ASRs for which there is no route
  None

TimerType == {"SESSION", "AUTH", "ASR"}
TimerEvent == {"SESSION_TOUT_ST", "SESSION_TOUT_NOST", "LIFETIME_TOUT",
               "SESSION_RECLAIM", "TX_ASR_FAIL"}

ASSUME AuthSessionAssumption ==
  /\ SessionTm \in Nat /\ Tout \subseteq Nat /\ None \notin Nat \cup BOOLEAN \cup TimerEvent
  /\ {MaxBegin, MaxCalls, MaxUnrouted} \subseteq Nat

Cmd   == {"SSAR", "SSAA", "STR", "STA", "ASR", "ASA", "RAR", "RAA"}
Res   == {"ok", "more", "fail", "unknown", None}
Value == Tout \cup {SessionTm}
Msg   == [cmd : Cmd, res : Res, st : BOOLEAN \cup {None}, tout : Value \cup {None}]
Request == {"SSAR", "STR", "ASR", "RAR"}
M(cmd, res) == [cmd |-> cmd, res |-> res, st |-> None, tout |-> None]

State == {"IDLE", "PENDING", "OPEN", "DISC"}
NoTimers == [t \in TimerType |-> None]
Timers   == {f \in [TimerType -> TimerEvent \cup {None}] :
               /\ f["AUTH"] \in {"LIFETIME_TOUT", None} /\ f["ASR"] \in {"TX_ASR_FAIL", None}
               /\ f["SESSION"] \notin {"LIFETIME_TOUT", "TX_ASR_FAIL"}}

\* st: the session state is MAINTAINED; neg, toutNeg: IsNegotiated().
\* late: timer events the reactor has taken and not delivered.
Half == [fsm : State, run : BOOLEAN, st : BOOLEAN, neg : BOOLEAN,
         tout : Value, toutNeg : BOOLEAN, sent : BOOLEAN,
         tm : Timers, late : SUBSET TimerEvent,
         reset : BOOLEAN, tx : Seq(Msg)]
New(st, run) == [fsm |-> "IDLE", run |-> run, st |-> st, neg |-> FALSE,
                 tout |-> SessionTm, toutNeg |-> FALSE, sent |-> FALSE,
                 tm |-> NoTimers, late |-> {}, reset |-> FALSE, tx |-> <<>>]

\* What the callbacks of an application answer: RequestMsg or AnswerMsg (rc, and
\* the answer it sends meanwhile), AbortSession, ReClaimSession; whether the
\* router has a route; what it sets as the session timeout.
App == [rc : {"SUCCESS", "INCOMPLETE", "NOSERVICE", "UNPROCESSED", "FAILURE"},
        reply : Res, yes : BOOLEAN, tout : Tout \cup {None}]
Plain == [rc |-> "SUCCESS", reply |-> None, yes |-> TRUE, tout |-> None]
Says(rc, reply) == [Plain EXCEPT !.rc = rc, !.reply = reply]

VARIABLES
  c, s,       \* the two halves
  registered, \* the client is in its session database
  obj,        \* the object s is: "none", "live", or "freed" by the collector
  entry,      \* what the server's database has: "none", "live" or "dead"
  toS, toC,   \* messages in flight
  fifo,       \* the network loses nothing
  config,     \* the server keeps state
  crashed,    \* freed memory has been used
  asked,      \* history: the client is in DISC because of an ASR
  begins, calls, unrouted

vars == <<c, s, registered, obj, entry, toS, toC, fifo, config, crashed, asked,
          begins, calls, unrouted>>
counters == <<begins, calls, unrouted>>

Init ==
  /\ fifo \in BOOLEAN /\ config \in BOOLEAN
  /\ \E st \in BOOLEAN : c = New(st, FALSE)
  /\ s = New(FALSE, FALSE)
  /\ registered = FALSE /\ obj = "none" /\ entry = "none"
  /\ toS = <<>> /\ toC = <<>>
  /\ crashed = FALSE /\ asked = FALSE
  /\ begins = 0 /\ calls = 0 /\ unrouted = 0
----------------------------------------------------------------------------
(* AAA_StateMachineWithTimer: the next state is entered before the action; *)
(* an event without a row changes nothing, nor does one when stopped.      *)

Indexed(rows) == [k \in {<<r[1], r[2]>> : r \in rows} |->
                    CHOOSE r \in rows : k = <<r[1], r[2]>>]
Has(table, x, ev)   == x.run /\ <<x.fsm, ev>> \in DOMAIN table
Do(table, x, ev)    == table[x.fsm, ev][4]
Enter(table, x, ev) == [x EXCEPT !.fsm = table[@, ev][3]]

Schedule(x, t, ev) == [x EXCEPT !.tm[t] = ev]
Cancel(x, t)       == [x EXCEPT !.tm[t] = None]
CancelAll(x)       == [x EXCEPT !.tm = NoTimers]
Tx(x, m)           == [x EXCEPT !.tx = Append(@, m)]
----------------------------------------------------------------------------
(* The client's table.  A wildcard row keeps the state and does nothing.   *)

ClientIdle == {
  <<"IDLE", "REQUEST_ACCESS", "PENDING", "nothing">>,
  <<"IDLE", "TX_SSAR", "IDLE", "nothing">>,
  <<"IDLE", "RX_SSAA", "IDLE", "nothing">>}

ClientPending == {
  <<"PENDING", "SSAA_OK",    "OPEN",    "GrantAccess">>,
  <<"PENDING", "SSAA_NOSVC", "DISC",    "TxSTR">>,
  <<"PENDING", "SSAA_ERROR", "DISC",    "TxSTR">>,
  <<"PENDING", "SSAA_FAIL",  "IDLE",    "Cleanup">>,
  <<"PENDING", "TX_SSAR",    "PENDING", "TxSSAR">>,
  <<"PENDING", "RX_SSAA",    "PENDING", "RxSSA">>,
  <<"PENDING", "STOP",       "IDLE",    "Disconnect">>}

ClientOpen == {
  <<"OPEN", "REQUEST_ACCESS", "OPEN", "nothing">>,
  <<"OPEN", "RX_RAR",    "OPEN", "RxRAR">>,
  <<"OPEN", "SSAA_OK",   "OPEN", "GrantAccess">>,
  <<"OPEN", "RX_SSAR",   "OPEN", "RxSSA">>,
  <<"OPEN", "SSAR_OK",   "OPEN", "nothing">>,
  <<"OPEN", "SSAR_FAIL", "IDLE", "Disconnect">>,
  <<"OPEN", "SSAA_FAIL", "IDLE", "Disconnect">>}

ClientOpenEnds == {
  <<"OPEN", "SESSION_TOUT_ST",   "DISC", "SessionTimeoutState">>,
  <<"OPEN", "SESSION_TOUT_NOST", "IDLE", "SessionTimeout">>,
  <<"OPEN", "RX_ASR_OK",         "DISC", "TxASA_TxSTR">>,
  <<"OPEN", "RX_ASR_RETRY",      "OPEN", "TxASA_Fail">>,
  <<"OPEN", "LIFETIME_TOUT",     "DISC", "SessionTimeoutState">>,
  <<"OPEN", "STOP",              "IDLE", "Disconnect">>,
  <<"OPEN", "ABORT",             "DISC", "SessionTimeoutState">>,
  <<"OPEN", "TX_SSAR",           "OPEN", "TxSSAR">>,
  <<"OPEN", "RX_SSAA",           "OPEN", "RxSSA">>}

\* Mutation: DISC waits for the STA only.
ClientDiscUntimed == {<<"DISC", "RX_STA", "IDLE", "Disconnect">>}

ClientDisc == {
  <<"DISC", "RX_STA",          "IDLE", "Disconnect">>,
  <<"DISC", "SESSION_TOUT_ST", "IDLE", "Disconnect">>,
  <<"DISC", "LIFETIME_TOUT",   "IDLE", "Disconnect">>,
  <<"DISC", "TX_SSAR",         "DISC", "nothing">>,
  <<"DISC", "RX_SSAA",         "DISC", "nothing">>}

ClientTable == Indexed(ClientIdle \cup ClientPending \cup ClientOpen \cup ClientOpenEnds
               \cup ClientDisc)

STR      == M("STR", None)
ASA(res) == M("ASA", res)
RAA      == M("RAA", "ok")

\* SESSION ends a session without state; AUTH is for one with state only.
ClientGrants(x) ==
  LET y == CancelAll(x) IN
  IF x.st THEN Schedule(Schedule(y, "SESSION", "SESSION_TOUT_ST"), "AUTH", "LIFETIME_TOUT")
  ELSE IF x.tout > 0 THEN Schedule(y, "SESSION", "SESSION_TOUT_NOST")
  ELSE y

\* DiameterClientAuthSession::Reset(): stops the machine, and leaves the database.
ClientReset(x) == [CancelAll(x) EXCEPT !.run = FALSE, !.neg = FALSE, !.reset = TRUE]

ClientLeaf(x, do, m) ==
  CASE do = "TxSSAR"      -> Tx(x, m)
    [] do = "GrantAccess" -> ClientGrants(x)
    [] do = "RxRAR"       -> Tx(x, RAA)
    [] do = "TxSTR"       -> Tx(x, STR)
    [] do = "SessionTimeoutState" -> Tx(CancelAll(x), STR)
    [] do = "TxASA_TxSTR" -> Tx(Tx(x, ASA("ok")), STR)
    [] do = "TxASA_Fail"  -> Tx(x, ASA("fail"))
    [] do \in {"Disconnect", "Cleanup", "SessionTimeout"} -> ClientReset(x)
    [] OTHER -> x

ClientFire(x, ev, m) ==
  IF Has(ClientTable, x, ev)
  THEN ClientLeaf(Enter(ClientTable, x, ev), Do(ClientTable, x, ev), m) ELSE x

\* Send(): the hint of the session state is for IDLE only, where TX_SSAR discards it.
ClientSend(x, m, a) ==
  LET tout == IF a.tout # None /\ a.tout < x.tout THEN a.tout ELSE x.tout
      y == IF x.toutNeg THEN x ELSE [x EXCEPT !.tout = tout]
  IN IF ~x.run THEN x
     ELSE ClientFire(y, "TX_SSAR",
            [m EXCEPT !.st = IF x.fsm = "IDLE" /\ ~x.neg THEN x.st ELSE None,
                      !.tout = IF x.toutNeg THEN None ELSE tout])

\* RxDelivery(): RxHandlerAry; an application may answer a request meanwhile.
ClientVerdict(x, m, rc) ==
  IF m.cmd \in Request
  THEN CASE rc = "SUCCESS" -> "SSAR_OK" [] rc = "FAILURE" -> "SSAR_FAIL" [] OTHER -> "none"
  ELSE CASE rc = "SUCCESS" -> "SSAA_OK" [] rc = "FAILURE" -> "SSAA_FAIL"
         [] rc = "NOSERVICE" /\ x.st -> "SSAA_NOSVC"
         [] rc = "UNPROCESSED" /\ x.st -> "SSAA_ERROR"
         [] OTHER -> "none"
ClientRxDelivery(x, m, a) ==
  LET y == IF m.cmd = "SSAR" THEN ClientSend(x, M("SSAA", a.reply), a) ELSE x
  IN ClientFire(y, ClientVerdict(y, m, a.rc), m)

ClientNotify(x, ev, m, a) ==
  IF Has(ClientTable, x, ev) /\ Do(ClientTable, x, ev) = "RxSSA"
  THEN ClientRxDelivery(Enter(ClientTable, x, ev), m, a)
  ELSE ClientFire(x, ev, m)

ClientRxRequest(x, m, a) ==
  CASE m.cmd = "ASR" /\ x.st -> ClientNotify(x, IF a.yes THEN "RX_ASR_OK" ELSE "RX_ASR_RETRY", m, a)
    [] m.cmd = "STR" -> x
    [] m.cmd = "RAR" -> ClientNotify(x, "RX_RAR", m, a)
    [] OTHER         -> ClientNotify(x, "RX_SSAR", m, a)

\* What the server dictates is taken once.
ClientRxAnswer(x, m, a) ==
  CASE m.cmd = "STA" -> IF x.st THEN ClientNotify(x, "RX_STA", m, a) ELSE x
    [] m.cmd = "ASA" -> x
    [] OTHER ->
       LET y == IF x.neg \/ m.st = None THEN x ELSE [x EXCEPT !.st = m.st, !.neg = TRUE]
           z == IF x.toutNeg \/ m.tout = None THEN y
                ELSE [y EXCEPT !.tout = m.tout, !.toutNeg = TRUE]
       IN ClientNotify(z, "RX_SSAA", m, a)
----------------------------------------------------------------------------
(* The server's table, and what its rows do.                               *)

ServerIdle == {
  <<"IDLE", "SSAR_OK",   "OPEN", "GrantAccess">>,
  <<"IDLE", "SSAR_FAIL", "IDLE", "Cleanup">>,
  <<"IDLE", "RX_STR",    "IDLE", "TxSTACleanup">>,
  <<"IDLE", "TX_SSAA",   "IDLE", "TxSSA">>,
  <<"IDLE", "RX_SSAR",   "IDLE", "RxSSA">>,
  <<"IDLE", "SESSION_TOUT_NOST", "IDLE", "Cleanup">>,
  <<"IDLE", "SESSION_RECLAIM",   "IDLE", "SessionReclaim">>,
  <<"IDLE", "ABORT",     "IDLE", "Cleanup">>}

ServerOpen == {
  <<"OPEN", "SSAR_OK",   "OPEN", "GrantAccess">>,
  <<"OPEN", "SSAR_FAIL", "IDLE", "Cleanup">>,
  <<"OPEN", "TX_SSAR",   "OPEN", "TxSSA">>,
  <<"OPEN", "RX_SSAA",   "OPEN", "RxSSA">>,
  <<"OPEN", "SSAA_OK",   "OPEN", "nothing">>,
  <<"OPEN", "SSAA_FAIL", "IDLE", "Cleanup">>}

ServerOpenEnds == {
  <<"OPEN", "ABORT",           "DISC", "TxASR">>,
  <<"OPEN", "LIFETIME_TOUT",   "IDLE", "Cleanup">>,
  <<"OPEN", "SESSION_TOUT_ST", "IDLE", "Cleanup">>,
  <<"OPEN", "RX_STR",          "IDLE", "TxSTACleanup">>,
  <<"OPEN", "TX_SSAA",         "OPEN", "TxSSA">>,
  <<"OPEN", "RX_SSAR",         "OPEN", "RxSSA">>,
  <<"OPEN", "REAUTH",          "OPEN", "TxRAR">>,
  <<"OPEN", "RX_RAA",          "OPEN", "nothing">>}

\* Mutation: DISC waits for the ASA only.
ServerDiscUnended == {
  <<"DISC", "TX_ASR_FAIL",     "DISC", "TxASR">>,
  <<"DISC", "RX_ASA_OK",       "DISC", "RxASA">>,
  <<"DISC", "RX_ASA_FAIL",     "IDLE", "Cleanup">>}

ServerDisc == {
  <<"DISC", "TX_ASR_FAIL",     "DISC", "TxASR">>,
  <<"DISC", "RX_ASA_OK",       "DISC", "RxASA">>,
  <<"DISC", "RX_ASA_FAIL",     "IDLE", "Cleanup">>,
  <<"DISC", "RX_STR",          "IDLE", "TxSTACleanup">>,
  <<"DISC", "LIFETIME_TOUT",   "IDLE", "Cleanup">>,
  <<"DISC", "SESSION_TOUT_ST", "IDLE", "Cleanup">>,
  <<"DISC", "TX_SSAA",         "DISC", "nothing">>,
  <<"DISC", "RX_SSAR",         "DISC", "nothing">>}

ServerTable == Indexed(ServerIdle \cup ServerOpen \cup ServerOpenEnds \cup ServerDisc)

STA == M("STA", "ok")
ASR == M("ASR", None)
RAR == M("RAR", None)

\* TxDelivery(): the server dictates the state in every message, its timeout once.
ServerTx(x, m) ==
  [Tx(x, [m EXCEPT !.st = x.st, !.tout = IF x.toutNeg THEN None ELSE x.tout])
     EXCEPT !.toutNeg = TRUE]

\* Mutations: the timer whether or not state is kept; no reclamation.
ServerTxSSAAlways(x, m) ==
  LET y == ServerTx(x, m)
  IN Schedule(CancelAll(y), "SESSION",
              IF y.tout > 0 THEN "SESSION_TOUT_NOST" ELSE "SESSION_RECLAIM")
ServerTxSSAUnclaimed(x, m) ==
  LET y == ServerTx(x, m) IN
  IF y.st THEN y
  ELSE IF y.tout > 0 THEN Schedule(CancelAll(y), "SESSION", "SESSION_TOUT_NOST")
  ELSE CancelAll(y)

\* Without state, each message starts the timer of the session, or a reclamation.
ServerTxSSA(x, m) ==
  LET y == ServerTx(x, m) IN
  IF y.st THEN y
  ELSE Schedule(CancelAll(y), "SESSION",
                IF y.tout > 0 THEN "SESSION_TOUT_NOST" ELSE "SESSION_RECLAIM")

ServerGrants(x) ==
  Schedule(Schedule(CancelAll(x), "SESSION", "SESSION_TOUT_ST"), "AUTH", "LIFETIME_TOUT")

ServerTxASR(x, a) ==
  LET y == CancelAll(x) IN
  IF a.yes THEN [ServerTx(y, ASR) EXCEPT !.sent = TRUE]
  ELSE [Schedule(y, "ASR", "TX_ASR_FAIL") EXCEPT !.toutNeg = TRUE]

\* DiameterServerAuthSession::Reset(): leaves the database, stops, is to be deleted.
ServerReset(x) == [CancelAll(x) EXCEPT !.sent = FALSE, !.neg = FALSE, !.run = FALSE,
                                       !.reset = TRUE]

ServerLeaf(x, do, m, a) ==
  CASE do = "TxSSA"          -> ServerTxSSA(x, m)
    [] do = "GrantAccess"    -> ServerGrants(x)
    [] do = "TxASR"          -> ServerTxASR(x, a)
    [] do = "TxRAR"          -> ServerTx(x, RAR)
    [] do = "RxASA"          -> Cancel(x, "ASR")
    [] do = "TxSTACleanup"   -> ServerReset(ServerTx(x, STA))
    [] do = "Cleanup"        -> ServerReset(x)
    [] do = "SessionReclaim" -> IF a.yes THEN ServerReset(x)
                                ELSE Schedule(CancelAll(x), "SESSION", "SESSION_RECLAIM")
    [] OTHER -> x

ServerFire(x, ev, m, a) ==
  IF Has(ServerTable, x, ev)
  THEN ServerLeaf(Enter(ServerTable, x, ev), Do(ServerTable, x, ev), m, a) ELSE x

\* RxDelivery(): the verdict counts only when state is kept; INCOMPLETE is event 0.
ServerVerdict(m, rc) ==
  CASE rc = "INCOMPLETE" -> "REQUEST_ACCESS"
    [] rc = "SUCCESS" -> IF m.cmd \in Request THEN "SSAR_OK" ELSE "SSAA_OK"
    [] OTHER          -> IF m.cmd \in Request THEN "SSAR_FAIL" ELSE "SSAA_FAIL"
ServerRxDelivery(x, m, a) ==
  LET y == IF m.cmd = "SSAR" THEN ServerFire(x, "TX_SSAA", M("SSAA", a.reply), a) ELSE x
  IN IF y.st THEN ServerFire(y, ServerVerdict(m, a.rc), m, a) ELSE y

ServerNotify(x, ev, m, a) ==
  IF Has(ServerTable, x, ev) /\ Do(ServerTable, x, ev) = "RxSSA"
  THEN ServerRxDelivery(Enter(ServerTable, x, ev), m, a)
  ELSE ServerFire(x, ev, m, a)

\* A hint can only take state away; our timeout is the least of ours and the hint.
Negotiated(x, m, a) ==
  LET ours == IF a.tout = None THEN x.tout ELSE a.tout
      tout == IF m.tout # None /\ m.tout < ours THEN m.tout ELSE ours
      y    == IF x.neg THEN x
              ELSE [x EXCEPT !.st = IF m.st = None THEN config ELSE @ /\ m.st, !.neg = TRUE]
  IN IF x.toutNeg THEN y ELSE [y EXCEPT !.tout = tout]

ServerRxRequest(x, m, a) ==
  CASE m.cmd = "STR" /\ x.st -> ServerNotify(x, "RX_STR", m, a)
    [] m.cmd = "ASR"         -> x
    [] OTHER                 -> ServerNotify(Negotiated(x, m, a), "RX_SSAR", m, a)

ServerRxAnswer(x, m, a) ==
  CASE m.cmd = "ASA" /\ x.st ->
         IF x.sent THEN ServerNotify(x, IF m.res = "ok" THEN "RX_ASA_OK" ELSE "RX_ASA_FAIL", m, a)
         ELSE x
    [] m.cmd = "STA" -> x
    [] m.cmd = "RAA" -> ServerNotify(x, "RX_RAA", m, a)
    [] OTHER         -> ServerNotify(x, "RX_SSAA", m, a)
----------------------------------------------------------------------------
(* The steps.                                                              *)

Up == ~crashed
Rest(q) == SubSeq(q, 2, Len(q))
Settled(x) == [x EXCEPT !.tx = <<>>, !.reset = FALSE]

ClientStep(x, inbox) ==
  /\ c' = Settled(x)
  /\ toS' = toS \o x.tx /\ toC' = inbox
  /\ registered' = (registered /\ ~x.reset)
  /\ asked' = (x.fsm = "DISC" /\ (asked \/ ASA("ok") \in {x.tx[i] : i \in DOMAIN x.tx}))
  /\ UNCHANGED <<s, obj, entry, fifo, config, crashed>>

\* Reset() took the session out of the database, if it was in it.
ServerStep(x, inbox) ==
  /\ s' = Settled(x)
  /\ toC' = toC \o x.tx /\ toS' = inbox
  /\ obj' = IF x.reset THEN "dead" ELSE "live"
  /\ entry' = IF x.reset THEN "none" ELSE entry
  /\ UNCHANGED <<c, registered, fifo, config, crashed, asked>>

\* What an application says to a message, and the answer it sends with it.
Verdicts(m, roles) ==
  CASE m.cmd = "SSAR" -> {Says("SUCCESS", "ok"), Says("FAILURE", "fail")} \cup roles
    [] m.cmd = "SSAA" /\ m.res = "fail" -> {Says("FAILURE", None)}
    [] m.cmd = "SSAA" /\ m.res = "more" -> {Says("INCOMPLETE", None)}
    [] m.cmd = "ASR"  -> {Plain, [Plain EXCEPT !.yes = FALSE]}
    [] m.cmd = "STR"  -> {Says("FAILURE", None)}
    [] OTHER -> {Plain}
ClientSays(m) == Verdicts(m, {}) \cup
  IF m.cmd = "SSAA" /\ m.res = "ok" THEN {Says("NOSERVICE", None), Says("UNPROCESSED", None)}
  ELSE {}
ServerSays(m) ==
  {[v EXCEPT !.tout = t] : v \in Verdicts(m, {Says("INCOMPLETE", "more")}),
                           t \in IF m.cmd = "SSAR" THEN Tout \cup {None} ELSE {None}}

\* Begin(): again in any state.  A failed ReStart() stops the machine only.
Begin ==
  /\ Up /\ begins < MaxBegin
  /\ \E restarts \in BOOLEAN, t \in Tout \cup {None}, st \in BOOLEAN :
       LET y == [c EXCEPT !.toutNeg = FALSE, !.tout = IF t = None THEN @ ELSE t]
           z == IF c.run THEN y ELSE [y EXCEPT !.run = TRUE, !.st = st, !.fsm = "IDLE"]
           f == IF restarts THEN ClientFire(z, "REQUEST_ACCESS", None)
                ELSE [z EXCEPT !.run = FALSE]
       IN /\ c' = f
          /\ asked' = (asked /\ f.run)
  /\ registered' = TRUE /\ begins' = begins + 1
  /\ UNCHANGED <<s, obj, entry, toS, toC, fifo, config, crashed, calls, unrouted>>

Call == Up /\ calls < MaxCalls /\ calls' = calls + 1 /\ UNCHANGED <<begins, unrouted>>

ClientSends ==
  /\ Call /\ c.run
  /\ \E t \in Tout \cup {None} :
       ClientStep(ClientSend(c, M("SSAR", None), [Plain EXCEPT !.tout = t]), toC)

ClientEnds ==
  /\ Call /\ c.run
  /\ ClientStep(ClientFire(c, IF c.st THEN "ABORT" ELSE "STOP", None), toC)

ServerEnds ==
  /\ Up /\ obj = "live" /\ calls < MaxCalls /\ calls' = calls + 1 /\ UNCHANGED begins
  /\ \E routed \in BOOLEAN :
       /\ ~routed => unrouted < MaxUnrouted
       /\ unrouted' = IF routed THEN unrouted ELSE unrouted + 1
       /\ ServerStep(ServerFire(s, "ABORT", None, [Plain EXCEPT !.yes = routed]), toS)

ServerReAuths ==
  Call /\ obj = "live" /\ ServerStep(ServerFire(s, "REAUTH", None, Plain), toS)

ServerSends ==
  Call /\ obj = "live" /\ ServerStep(ServerFire(s, "TX_SSAR", M("SSAR", None), Plain), toS)

\* RxLocalMsgHandler of the client: it has no factories, so RxUnknownSession().
ClientReceives ==
  /\ Up /\ toC # <<>>
  /\ LET m == Head(toC) IN
     IF ~registered
     THEN ClientStep(IF m.cmd = "ASR" THEN Tx(c, ASA("unknown")) ELSE c, Rest(toC))
     ELSE \E a \in ClientSays(m) :
            ClientStep(IF m.cmd \in Request THEN ClientRxRequest(c, m, a)
                       ELSE ClientRxAnswer(c, m, a), Rest(toC))
  /\ UNCHANGED counters

\* Lookup() finds the session.
ServerReceives ==
  /\ Up /\ toS # <<>> /\ entry = "live"
  /\ LET m == Head(toS) IN
     \E a \in ServerSays(m) :
       ServerStep(IF m.cmd \in Request THEN ServerRxRequest(s, m, a)
                  ELSE ServerRxAnswer(s, m, a), Rest(toS))
  /\ UNCHANGED counters

\* It finds nothing: the request is given to a new session, which is added
\* afterwards even if it has reset itself.
ServerCreates ==
  /\ Up /\ toS # <<>> /\ entry = "none" /\ Head(toS).cmd \in Request
  /\ LET m == Head(toS) IN
     \E a \in ServerSays(m) :
       LET x == ServerRxRequest(New(config, TRUE), m, a) IN
       /\ s' = Settled(x)
       /\ toC' = toC \o x.tx /\ toS' = Rest(toS)
       /\ obj' = IF x.reset THEN "dead" ELSE "live"
       /\ entry' = IF x.reset THEN "dead" ELSE "live"
  /\ UNCHANGED <<c, registered, fifo, config, crashed, asked, counters>>

\* An answer without a session; a message to a stopped one, or to freed memory.
ServerDiscards ==
  /\ Up /\ toS # <<>>
  /\ entry = "dead" \/ (entry = "none" /\ Head(toS).cmd \notin Request)
  /\ toS' = Rest(toS)
  /\ crashed' = (entry = "dead" /\ obj = "freed")
  /\ UNCHANGED <<c, s, registered, obj, entry, toC, fifo, config, asked, counters>>

Collect ==
  /\ Up /\ obj = "dead"
  /\ obj' = "freed"
  /\ UNCHANGED <<c, s, registered, entry, toS, toC, fifo, config, crashed, asked, counters>>

Lose ==
  /\ Up /\ ~fifo
  /\ \/ toS # <<>> /\ toS' = Rest(toS) /\ UNCHANGED toC
     \/ toC # <<>> /\ toC' = Rest(toC) /\ UNCHANGED toS
  /\ UNCHANGED <<c, s, registered, obj, entry, fifo, config, crashed, asked, counters>>

\* The reactor takes a timer's event; the timer is armed again until cancelled.
ClientExpires ==
  /\ Up
  /\ \E t \in TimerType : c.tm[t] # None /\ c' = [c EXCEPT !.late = @ \cup {c.tm[t]}]
  /\ UNCHANGED <<s, registered, obj, entry, toS, toC, fifo, config, crashed, asked, counters>>

ServerExpires ==
  /\ Up /\ obj = "live"
  /\ \E t \in TimerType : s.tm[t] # None /\ s' = [s EXCEPT !.late = @ \cup {s.tm[t]}]
  /\ UNCHANGED <<c, registered, obj, entry, toS, toC, fifo, config, crashed, asked, counters>>

ClientTimeout ==
  /\ Up
  /\ \E ev \in c.late : ClientStep(ClientFire([c EXCEPT !.late = @ \ {ev}], ev, None), toC)
  /\ UNCHANGED counters

ServerTimeout ==
  /\ Up /\ obj = "live"
  /\ \E ev \in s.late, yes \in BOOLEAN :
       /\ ev = "TX_ASR_FAIL" /\ ~yes => unrouted < MaxUnrouted
       /\ unrouted' = IF ev = "TX_ASR_FAIL" /\ ~yes THEN unrouted + 1 ELSE unrouted
       /\ ServerStep(ServerFire([s EXCEPT !.late = @ \ {ev}], ev, None,
                                [Plain EXCEPT !.yes = yes]), toS)
  /\ UNCHANGED <<begins, calls>>

Next == \/ Begin \/ ClientSends \/ ClientEnds \/ ServerEnds \/ ServerReAuths \/ ServerSends
        \/ ClientReceives \/ ServerReceives \/ ServerCreates \/ ServerDiscards \/ Collect
        \/ Lose \/ ClientExpires \/ ServerExpires \/ ClientTimeout \/ ServerTimeout

\* Messages are delivered and timers run; applications and the router owe nothing.
Fairness ==
  /\ WF_vars(ClientReceives) /\ WF_vars(ServerReceives \/ ServerCreates \/ ServerDiscards)
  /\ WF_vars(ClientExpires) /\ WF_vars(ClientTimeout)
  /\ WF_vars(ServerExpires) /\ WF_vars(ServerTimeout)

Spec == Init /\ [][Next]_vars /\ Fairness
----------------------------------------------------------------------------
EndTimers(x) == x.tm["SESSION"] = "SESSION_TOUT_ST" /\ x.tm["AUTH"] = "LIFETIME_TOUT"

\* Access that was granted with state always ends: at both ends the two timers
\* run as long as the session is open, whatever Begin(), answers, requests of the
\* other end and late timer events do.
OpenExpires ==
  /\ c.fsm = "OPEN" /\ c.run /\ c.st => EndTimers(c)
  /\ s.fsm = "OPEN" => EndTimers(s)

\* Without state the server's session is always waited for by a timer once it
\* has answered: nothing else would ever delete it.
StatelessExpires ==
  obj = "live" /\ ~s.st /\ s.toutNeg => s.tm["SESSION"] \in {"SESSION_TOUT_NOST", "SESSION_RECLAIM"}

\* A server that aborts a session is done with it in the end, if nothing is lost
\* and the client does not ignore its ASR: in the middle of its authorization, or
\* stopped by a failed ReStart() and still in its database.
IgnoresASR == c.fsm = "PENDING" \/ (registered /\ ~c.run)
AbortEnds ==
  (fifo /\ s.fsm = "DISC") ~> (s.fsm # "DISC" \/ crashed \/ IgnoresASR)

\* A client that accepts an ASR ends its session even if its STR or the STA is
\* lost: it keeps the timers of the session.
AbortedEnds == asked ~> (~asked \/ crashed)
=============================================================================
