---------------------------- MODULE AcctSession ----------------------------
(***************************************************************************)
(* An accounting session: DiameterClientAcctSubSession and                 *)
(* DiameterServerAcctSession with their state machines, and the records    *)
(* that pass between them (libdiameter).                                   *)
(*                                                                         *)
(* A record is its type and number.  End() and the receiver change the     *)
(* session's attributes before they enter the machine, which alone is      *)
(* locked: each of these is a step.  The application's storage is whether  *)
(* it holds a last record; the interim interval is not zero.               *)
(***************************************************************************)
EXTENDS Integers, FiniteSets

CONSTANTS
  MaxRec, MaxBegin,   \* bounds: records of the client, its Begin()s
  MaxFaults           \* bound: messages lost, sends refused, timeouts of the server

ASSUME AcctSessionAssumption == {MaxRec, MaxBegin, MaxFaults} \subseteq Nat

RecType  == {"EVENT", "START", "INTERIM", "STOP"}
Realtime == {"DELIVER_AND_GRANT", "GRANT_AND_STORE", "GRANT_AND_LOSE"}
Msg == [cmd : {"ACR", "ACA"}, type : RecType, num : 1..MaxRec, ok : BOOLEAN, rt : Realtime]

State   == {"IDLE", "OPEN", "PENDING_S", "PENDING_I", "PENDING_E", "PENDING_B", "PENDING_L"}
Pending == State \ {"IDLE", "OPEN"}
Answer  == {"RX_ACA_OK", "RX_ACA_FAIL", "RX_ACA_FAIL_AND_GAL", "RX_ACA_FAIL_NOT_GAL"}

\* timer: INT_EXPIRE, or SESSION_TOUT, which has no row; late: INT_EXPIRE has been
\* taken by the reactor and not delivered.  slot: the application stores a last
\* record.  failed, acked: how often Failed() was called, the records of Success().
Client == [fsm : State, type : RecType, num : 0..MaxRec, rt : Realtime,
           timer : {"none", "INT_EXPIRE", "SESSION_TOUT"}, late : BOOLEAN, slot : BOOLEAN,
           tx : SUBSET Msg, failed : Nat, acked : SUBSET (1..MaxRec)]

\* obj: no session in the database, one, a reset one, or the process has crashed.
\* open: in OPEN, where the session's timer runs; late: it has been taken.
Server == [obj : {"none", "live", "dead", "crashed"}, open : BOOLEAN, late : BOOLEAN]
NoSession == [obj |-> "none", open |-> FALSE, late |-> FALSE]

VARIABLES
  c, s,
  net,        \* messages in flight
  stored,     \* records in the server's storage
  stateful,   \* how the server's sessions are made
  serverRt,   \* what they answer as Acct-Realtime-Required
  ending,     \* End() has set the record type and not yet notified
  rx,         \* the receiver: "none", what it will notify, or "failed"
  ended,      \* history: how the session was ended: "no", "yes" or "late"
  excuse,     \* history: a fault occurred, or the storage was full
  begins, faults

vars == <<c, s, net, stored, stateful, serverRt, ending, rx, ended, excuse, begins, faults>>

Init ==
  /\ \E slot \in BOOLEAN, rt \in Realtime :
       c = [fsm |-> "IDLE", type |-> "EVENT", num |-> 0, rt |-> rt, timer |-> "none",
            late |-> FALSE, slot |-> slot, tx |-> {}, failed |-> 0, acked |-> {}]
  /\ s = NoSession /\ net = {} /\ stored = {}
  /\ stateful \in BOOLEAN
  /\ serverRt \in IF stateful THEN {"DELIVER_AND_GRANT"} ELSE Realtime
  /\ ending = FALSE /\ rx = "none" /\ ended = "no" /\ excuse = FALSE
  /\ begins = 0 /\ faults = 0
----------------------------------------------------------------------------
(* The client's table.  A wildcard row keeps the state and does nothing.   *)

ClientIdle == {
  <<"IDLE", "REQUEST_ACCESS",         "PENDING_S", "TxACR">>,
  <<"IDLE", "REQUEST_ONETIME_ACCESS", "PENDING_E", "TxACR">>,
  <<"IDLE", "REC_IN_STORAGE",         "PENDING_B", "TxACR">>}

ClientPendingS == {
  <<"PENDING_S", "RX_ACA_OK",           "OPEN", "RxACASuccess">>,
  <<"PENDING_S", "FTS_NOT_DAG",         "OPEN", "StoreRecord">>,
  <<"PENDING_S", "FTS_AND_GAL",         "OPEN", "StartIntTimer">>,
  <<"PENDING_S", "FTS_NOT_GAL",         "IDLE", "Disconnect">>,
  <<"PENDING_S", "RX_ACA_FAIL_AND_GAL", "OPEN", "StartIntTimer">>,
  <<"PENDING_S", "RX_ACA_FAIL_NOT_GAL", "IDLE", "Disconnect">>,
  <<"PENDING_S", "STOP",                "PENDING_S", "StoreStopRecord">>}

ClientOpen == {
  <<"OPEN", "INT_EXPIRE", "PENDING_I", "InterimTimeout">>,
  <<"OPEN", "STOP",       "PENDING_L", "TxACR">>}

ClientPendingI == {
  <<"PENDING_I", "RX_ACA_OK",           "OPEN", "RxACASuccess">>,
  <<"PENDING_I", "FTS_NOT_DAG",         "OPEN", "StoreRecord">>,
  <<"PENDING_I", "FTS_AND_GAL",         "OPEN", "StartIntTimer">>,
  <<"PENDING_I", "FTS_NOT_GAL",         "IDLE", "Disconnect">>,
  <<"PENDING_I", "RX_ACA_FAIL_AND_GAL", "OPEN", "StartIntTimer">>,
  <<"PENDING_I", "RX_ACA_FAIL_NOT_GAL", "IDLE", "Disconnect">>,
  <<"PENDING_I", "STOP",                "PENDING_I", "StoreStopRecord">>}

ClientPendingEBL == {
  <<"PENDING_E", "RX_ACA_OK",   "IDLE", "RxACASuccess">>,
  <<"PENDING_E", "FTS_BUF",     "IDLE", "StoreEventRecord">>,
  <<"PENDING_E", "FTS_NO_BUF",  "IDLE", "nothing">>,
  <<"PENDING_E", "RX_ACA_FAIL", "IDLE", "nothing">>,
  <<"PENDING_B", "RX_ACA_OK",   "IDLE", "RxACASuccess">>,
  <<"PENDING_B", "FTS",         "IDLE", "nothing">>,
  <<"PENDING_B", "RX_ACA_FAIL", "IDLE", "DeleteRecord">>,
  <<"PENDING_L", "RX_ACA_OK",   "IDLE", "RxACASuccess">>,
  <<"PENDING_L", "FTS_BUF",     "IDLE", "StoreStopRecord">>,
  <<"PENDING_L", "FTS_NO_BUF",  "IDLE", "nothing">>,
  <<"PENDING_L", "RX_ACA_FAIL", "IDLE", "nothing">>}

ClientRows == ClientIdle \cup ClientPendingS \cup ClientOpen \cup ClientPendingI
              \cup ClientPendingEBL
ClientTable == [k \in {<<r[1], r[2]>> : r \in ClientRows} |->
                  CHOOSE r \in ClientRows : k = <<r[1], r[2]>>]

\* A success with a last record in storage deletes that record, whichever it is.
RxACASuccess(x) ==
  [x EXCEPT !.acked = @ \cup {x.num}, !.slot = FALSE,
            !.timer = IF ~x.slot /\ x.type \in {"START", "INTERIM"} THEN "INT_EXPIRE" ELSE @]

\* The actions that send nothing.
ClientLeaf(x, do) ==
  CASE do = "RxACASuccess"    -> RxACASuccess(x)
    [] do = "StoreRecord"     -> [x EXCEPT !.slot = TRUE, !.timer = "INT_EXPIRE"]
    [] do \in {"StoreStopRecord", "StoreEventRecord"} -> [x EXCEPT !.slot = TRUE, !.timer = "none"]
    [] do = "StartIntTimer"   -> [x EXCEPT !.timer = "SESSION_TOUT"]
    [] do = "Disconnect"      -> [x EXCEPT !.timer = "none"]
    [] do = "DeleteRecord"    -> [x EXCEPT !.slot = FALSE]
    [] OTHER -> x

\* What TxACR() notifies, from inside the machine, when TxDelivery() fails.
FailedToSend(x, room) ==
  LET last == x.type \in {"EVENT", "STOP"} IN
  CASE x.slot -> "FTS"
    [] ~x.slot /\ last /\ room  -> "FTS_BUF"
    [] ~x.slot /\ last /\ ~room -> "FTS_NO_BUF"
    [] ~x.slot /\ ~last /\ room /\ x.rt # "DELIVER_AND_GRANT" -> "FTS_NOT_DAG"
    [] ~x.slot /\ ~last /\ ~room /\ x.rt = "GRANT_AND_LOSE"   -> "FTS_AND_GAL"
    [] OTHER -> "FTS_NOT_GAL"

Nested(x, ev) ==
  IF <<x.fsm, ev>> \in DOMAIN ClientTable
  THEN LET r == ClientTable[x.fsm, ev] IN ClientLeaf([x EXCEPT !.fsm = r[3]], r[4])
  ELSE x

Record(x) == [cmd |-> "ACR", type |-> x.type, num |-> x.num, ok |-> TRUE, rt |-> x.rt]

\* Mutation: Failed() is called only when no row took the event.
TxACRSilent(x, sent, room) ==
  LET y == [x EXCEPT !.num = @ + 1, !.timer = "none"]
      z == Nested(y, FailedToSend(y, room))
  IN IF sent THEN [y EXCEPT !.tx = {Record(y)}]
     ELSE IF z # y THEN z ELSE [z EXCEPT !.failed = @ + 1]

TxACR(x, sent, room) ==
  LET y == [x EXCEPT !.num = @ + 1, !.timer = "none"]
      z == Nested(y, FailedToSend(y, room))
  IN IF sent THEN [y EXCEPT !.tx = {Record(y)}] ELSE [z EXCEPT !.failed = @ + 1]

\* Event(): the next state is entered before the action.
Fire(x, ev, sent, room, type) ==
  IF <<x.fsm, ev>> \notin DOMAIN ClientTable THEN x
  ELSE LET r == ClientTable[x.fsm, ev]
           y == [x EXCEPT !.fsm = r[3]]
       IN CASE r[4] = "TxACR"          -> TxACR(y, sent, room)
            [] r[4] = "InterimTimeout" -> TxACR([y EXCEPT !.type = type], sent, room)
            [] OTHER                   -> ClientLeaf(y, r[4])

Sends(x, ev) == /\ <<x.fsm, ev>> \in DOMAIN ClientTable
                /\ ClientTable[x.fsm, ev][4] \in {"TxACR", "InterimTimeout"}

\* A step of the machine.  What it sends is routed or refused, and then the
\* application has room for it or not.  End() may set the type of an interim
\* record that is about to be sent.
Notify(x, ev) ==
  \E sent \in BOOLEAN, room \in BOOLEAN, type \in {"INTERIM", x.type} :
    /\ type = "INTERIM" \/ (ending /\ ev = "INT_EXPIRE")
    /\ Sends(x, ev) => x.num < MaxRec
    /\ sent \/ (Sends(x, ev) /\ faults < MaxFaults)
    /\ sent => room
    /\ LET y == Fire(x, ev, sent, room, type)
       IN c' = [y EXCEPT !.tx = {}] /\ net' = net \cup y.tx
    /\ faults' = IF sent THEN faults ELSE faults + 1
    /\ excuse' = (excuse \/ ~sent)
----------------------------------------------------------------------------
(* The client: the application, the receiver and the timer.                *)

\* Begin(): the application may set what it requires.
Begin ==
  /\ c.fsm = "IDLE" /\ ~ending /\ rx = "none" /\ begins < MaxBegin
  /\ \E oneTime \in BOOLEAN, rt \in {c.rt, "GRANT_AND_LOSE"} :
       IF c.slot THEN Notify([c EXCEPT !.rt = rt], "REC_IN_STORAGE")
       ELSE IF oneTime
       THEN Notify([c EXCEPT !.rt = rt, !.type = "EVENT"], "REQUEST_ONETIME_ACCESS")
       ELSE Notify([c EXCEPT !.rt = rt, !.type = "START"], "REQUEST_ACCESS")
  /\ ended' = "no" /\ begins' = begins + 1
  /\ UNCHANGED <<s, stored, stateful, serverRt, ending, rx>>

\* End(), as far as the attributes.
End ==
  /\ begins > 0 /\ ended = "no" /\ ~ending
  /\ c' = [c EXCEPT !.type = "STOP", !.timer = "none"]
  /\ ending' = TRUE
  /\ UNCHANGED <<s, net, stored, stateful, serverRt, rx, ended, excuse, begins, faults>>

\* The rest.  It is in time if the session is open, the type still STOP, and no
\* record was sent in between.
EndNotifies ==
  /\ ending
  /\ Notify(c, "STOP")
  /\ ending' = FALSE
  /\ ended' = IF c.fsm = "OPEN" /\ c.type = "STOP" /\ ended = "no" THEN "yes" ELSE "late"
  /\ UNCHANGED <<s, stored, stateful, serverRt, rx, begins>>

\* What RxAnswer() notifies, after it has taken the attributes of the answer.
Notification(x, m) ==
  CASE m.ok -> "RX_ACA_OK"
    [] ~m.ok /\ (x.slot \/ x.type \in {"STOP", "EVENT"}) -> "RX_ACA_FAIL"
    [] OTHER -> IF x.rt = "DELIVER_AND_GRANT" THEN "RX_ACA_FAIL_AND_GAL"
                ELSE "RX_ACA_FAIL_NOT_GAL"

RxAnswer ==
  /\ rx = "none"
  /\ \E m \in net :
       /\ m.cmd = "ACA"
       /\ c' = [c EXCEPT !.type = m.type, !.rt = m.rt]
       /\ rx' = Notification(c', m)
       /\ net' = net \ {m}
  /\ UNCHANGED <<s, stored, stateful, serverRt, ending, ended, excuse, begins, faults>>

RxNotifies ==
  /\ rx \in Answer
  /\ Notify(c, rx)
  /\ rx' = IF rx = "RX_ACA_OK" THEN "none" ELSE "failed"
  /\ UNCHANGED <<s, stored, stateful, serverRt, ending, ended, begins>>

\* Failed(), outside the machine: the number is the one of the moment.
RxReports ==
  /\ rx = "failed" /\ rx' = "none"
  /\ c' = [c EXCEPT !.failed = @ + 1]
  /\ UNCHANGED <<s, net, stored, stateful, serverRt, ending, ended, excuse, begins, faults>>

\* The reactor takes a timer, which is periodic, and then delivers it.
IntervalExpires ==
  /\ c.timer = "INT_EXPIRE" /\ ~c.late
  /\ c' = [c EXCEPT !.late = TRUE]
  /\ UNCHANGED <<s, net, stored, stateful, serverRt, ending, rx, ended, excuse, begins, faults>>

InterimTimeout ==
  /\ c.late
  /\ Notify([c EXCEPT !.late = FALSE], "INT_EXPIRE")
  /\ ended' = IF ending THEN "late" ELSE ended
  /\ UNCHANGED <<s, stored, stateful, serverRt, ending, rx, begins>>
----------------------------------------------------------------------------
(* The server: its receiver, its table and its timer.                      *)

Answered(m, ok) == (net \ {m}) \cup {[m EXCEPT !.cmd = "ACA", !.ok = ok, !.rt = serverRt]}
Stores(m)       == stored \cup {<<m.type, m.num>>}

\* DiameterServerAcctSession::Reset() leaves the database; the receiver then adds
\* a session it has just created, whatever became of it.
Reset == IF s.obj = "none" THEN [NoSession EXCEPT !.obj = "dead"] ELSE NoSession

\* A first record opens the session, another restarts its timer.
Opens == [s EXCEPT !.obj = "live", !.open = TRUE]

\* Mutation: the answer is a success.
OutOfSpaceAnswered(m) == s' = Reset /\ net' = Answered(m, TRUE) /\ stored' = stored

\* No space left on the device.  An idle session is reset as an open one is.
OutOfSpace(m) == s' = Reset /\ net' = Answered(m, FALSE) /\ stored' = stored

\* Mutation: a STOP leaves the session open.
TakesStays(m) ==
  LET ignored == ~s.open /\ m.type \in {"INTERIM", "STOP"} IN
  /\ s' = IF ignored \/ m.type = "EVENT" THEN [s EXCEPT !.obj = "live"] ELSE Opens
  /\ stored' = IF ignored THEN stored ELSE Stores(m)
  /\ net' = IF ignored THEN net \ {m} ELSE Answered(m, TRUE)

\* The rows of IDLE and OPEN: INTERIM and STOP of an idle session are ignored.
Takes(m) ==
  LET ignored == ~s.open /\ m.type \in {"INTERIM", "STOP"} IN
  /\ s' = CASE ignored                      -> [s EXCEPT !.obj = "live"]
            [] ~ignored /\ m.type = "EVENT" -> [s EXCEPT !.obj = "live"]
            [] ~ignored /\ m.type = "STOP"  -> Reset
            [] OTHER                        -> Opens
  /\ stored' = IF ignored THEN stored ELSE Stores(m)
  /\ net' = IF ignored THEN net \ {m} ELSE Answered(m, TRUE)

\* Without state: the record is stored, and then the device asked for more space.
Passes(m, spare, more) ==
  /\ s' = [NoSession EXCEPT !.obj = "live"]
  /\ stored' = IF spare THEN Stores(m) ELSE stored
  /\ net' = Answered(m, more)

\* spare: there is space for the record; more: and for another one.
RxRequest ==
  /\ s.obj \in {"none", "live"}
  /\ \E m \in net, spare \in BOOLEAN, more \in BOOLEAN :
       /\ m.cmd = "ACR" /\ (more => spare)
       /\ CASE stateful /\ spare  -> Takes(m)
            [] stateful /\ ~spare -> OutOfSpace(m)
            [] OTHER              -> Passes(m, spare, more)
       /\ excuse' = (excuse \/ ~more)
  /\ UNCHANGED <<c, stateful, serverRt, ending, rx, ended, begins, faults>>

\* The session of the database has been reset: its machine is stopped, or the
\* garbage collector has freed it.
RxRequestDead ==
  /\ s.obj = "dead"
  /\ \E m \in net, obj \in {"dead", "crashed"} :
       m.cmd = "ACR" /\ net' = net \ {m} /\ s' = [s EXCEPT !.obj = obj]
  /\ UNCHANGED <<c, stored, stateful, serverRt, ending, rx, ended, excuse, begins, faults>>

SessionExpires ==
  /\ s.open /\ ~s.late /\ faults < MaxFaults
  /\ s' = [s EXCEPT !.late = TRUE]
  /\ faults' = faults + 1
  /\ UNCHANGED <<c, net, stored, stateful, serverRt, ending, rx, ended, excuse, begins>>

SessionTimeout ==
  /\ s.late
  /\ s' = IF s.open THEN NoSession ELSE [s EXCEPT !.late = FALSE]
  /\ excuse' = (excuse \/ s.open)
  /\ UNCHANGED <<c, net, stored, stateful, serverRt, ending, rx, ended, begins, faults>>

Lose ==
  /\ faults < MaxFaults
  /\ \E m \in net : net' = net \ {m}
  /\ faults' = faults + 1 /\ excuse' = TRUE
  /\ UNCHANGED <<c, s, stored, stateful, serverRt, ending, rx, ended, begins>>

Next ==
  \/ Begin \/ End \/ EndNotifies \/ RxAnswer \/ RxNotifies \/ RxReports
  \/ IntervalExpires \/ InterimTimeout
  \/ RxRequest \/ RxRequestDead \/ SessionExpires \/ SessionTimeout \/ Lose

Spec == Init /\ [][Next]_vars
----------------------------------------------------------------------------
(* Properties.                                                             *)

\* The halves, the messages and the storage have their types.
TypeOK ==
  /\ c \in Client /\ c.tx = {} /\ s \in Server /\ net \subseteq Msg
  /\ stored \subseteq RecType \X (1..MaxRec)
  /\ stateful \in BOOLEAN /\ serverRt \in Realtime
  /\ ending \in BOOLEAN /\ rx \in Answer \cup {"none", "failed"}
  /\ ended \in {"no", "yes", "late"} /\ excuse \in BOOLEAN
  /\ begins \in 0..MaxBegin /\ faults \in 0..MaxFaults

IsStored(n) == \E type \in RecType : <<type, n>> \in stored

\* The application is told of every record: of those the client is no longer
\* waiting for, as many are reported by Failed() as the server has not stored.
Accounted ==
  LET missing == {n \in 1..c.num : ~IsStored(n) /\ ~(n = c.num /\ c.fsm \in Pending)}
  IN Cardinality(missing) <= c.failed + (IF rx = "failed" THEN 1 ELSE 0)

\* Success() is called for records that the server has stored, and one record
\* at a time is under way, so that the answers need no number.
Honest ==
  /\ \A n \in c.acked : IsStored(n)
  /\ Cardinality(net) + (IF rx \in Answer THEN 1 ELSE 0) <= 1

Quiet == net = {} /\ ~ending /\ rx = "none" /\ ~c.late

\* An open session that was ended, without a fault and without an answer or a
\* record in between, is over at both ends when nothing is left to do.
Concludes ==
  ended = "yes" /\ ~excuse /\ Quiet => c.fsm = "IDLE" /\ ~s.open
============================================================================
