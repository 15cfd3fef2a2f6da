------------------------ MODULE AuthSessionProofs ------------------------
(***************************************************************************)
(* Theorems of AuthSession: an open session always has the timers that end *)
(* it, at both ends, and a session of a server without state always has    *)
(* the timer that deletes it.  They hold for every bound, every timeout,   *)
(* and whatever is lost, late or asked for.                                *)
(***************************************************************************)
EXTENDS AuthSession, SequenceTheorems, TLAPS

\* What the server sends carries its session state.
FromServer == {m \in Msg : m.st \in BOOLEAN}

\* The fields that an operation on the timers leaves alone.
Timed(x, y) == /\ y \in Half
               /\ y.fsm = x.fsm /\ y.run = x.run /\ y.st = x.st /\ y.neg = x.neg
               /\ y.tout = x.tout /\ y.toutNeg = x.toutNeg /\ y.reset = x.reset /\ y.tx = x.tx

\* The events that a timer may have.
Fits(t, ev) ==
  \/ ev = None
  \/ t = "SESSION" /\ ev \in {"SESSION_TOUT_ST", "SESSION_TOUT_NOST", "SESSION_RECLAIM"}
  \/ t = "AUTH" /\ ev = "LIFETIME_TOUT"
  \/ t = "ASR" /\ ev = "TX_ASR_FAIL"

\* None is not the event of a timer.
LEMMA NoneIsNoEvent ==
  /\ None # "LIFETIME_TOUT" /\ None # "TX_ASR_FAIL"
  /\ None # "SESSION_TOUT_ST" /\ None # "SESSION_TOUT_NOST" /\ None # "SESSION_RECLAIM"
BY AuthSessionAssumption DEF TimerEvent
----------------------------------------------------------------------------
(* Timers and transmission.                                                *)


\* Scheduling a timer sets it and nothing else.
LEMMA Schedules ==
  ASSUME NEW x \in Half, NEW t \in TimerType, NEW ev, Fits(t, ev)
  PROVE  /\ Timed(x, Schedule(x, t, ev))
         /\ Schedule(x, t, ev).tm = [x.tm EXCEPT ![t] = ev]
<1> DEFINE f == [x.tm EXCEPT ![t] = ev]
<1>1. x.tm \in Timers
  BY DEF Half
<1>2. f \in Timers
  <2>1. \A u \in TimerType : f[u] = IF u = t THEN ev ELSE x.tm[u]
    BY <1>1 DEF Timers
  <2>2. ev \in TimerEvent \cup {None}
    BY DEF Fits, TimerEvent
  <2>3. f \in [TimerType -> TimerEvent \cup {None}]
    BY <1>1, <2>2 DEF Timers
  <2> HIDE DEF f
  <2>4. /\ f["AUTH"] \in {"LIFETIME_TOUT", None} /\ f["ASR"] \in {"TX_ASR_FAIL", None}
        /\ f["SESSION"] \notin {"LIFETIME_TOUT", "TX_ASR_FAIL"}
    BY <1>1, <2>1, NoneIsNoEvent DEF Timers, Fits, TimerType
  <2> QED BY <2>3, <2>4 DEF Timers
<1>3. Schedule(x, t, ev) = [x EXCEPT !.tm = f]
  BY DEF Schedule, Half
<1> HIDE DEF f
<1> DEFINE y == [x EXCEPT !.tm = f]
<1>4. y \in Half /\ y.tm = f
  BY <1>2 DEF Half
<1>5. Timed(x, y)
  BY <1>4 DEF Timed, Half
<1> QED BY <1>3, <1>4, <1>5 DEF f

\* Cancelling all timers leaves none.
LEMMA CancelsAll ==
  ASSUME NEW x \in Half
  PROVE  Timed(x, CancelAll(x)) /\ CancelAll(x).tm = NoTimers
<1>1. NoTimers \in Timers
  BY NoneIsNoEvent DEF NoTimers, Timers, TimerType
<1> HIDE DEF NoTimers
<1> QED BY <1>1 DEF CancelAll, Timed, Half

\* What does not move a session keeps its state, and its timers.
Still(x, y) == /\ y \in Half
               /\ y.fsm = x.fsm /\ y.run = x.run /\ y.st = x.st /\ y.neg = x.neg /\ y.tm = x.tm

\* Sending a message moves nothing.
LEMMA TxStill ==
  ASSUME NEW x \in Half, NEW m \in Msg
  PROVE  /\ Still(x, Tx(x, m)) /\ Tx(x, m).tx = Append(x.tx, m)
         /\ Tx(x, m).toutNeg = x.toutNeg /\ Tx(x, m).reset = x.reset /\ Tx(x, m).tout = x.tout
<1>1. Append(x.tx, m) \in Seq(Msg)
  BY DEF Half
<1>2. Tx(x, m) = [x EXCEPT !.tx = Append(x.tx, m)]
  BY DEF Tx, Half
<1> QED BY <1>1, <1>2 DEF Still, Half

\* What the applications send is a message.
LEMMA Messages ==
  ASSUME NEW cmd \in Cmd, NEW res \in Res
  PROVE  M(cmd, res) \in Msg
BY DEF M, Msg, Value

\* The messages of the machines.
LEMMA MachineMessages ==
  /\ STR \in Msg /\ \A res \in {"ok", "fail", "unknown"} : ASA(res) \in Msg
  /\ RAA \in Msg /\ STA \in Msg /\ ASR \in Msg /\ RAR \in Msg
BY Messages DEF STR, ASA, RAA, STA, ASR, RAR, Cmd, Res
----------------------------------------------------------------------------
(* The tables.                                                             *)

\* A table holds a row at its own state and event.
LEMMA IndexedRow ==
  ASSUME NEW rows, NEW st, NEW ev, <<st, ev>> \in DOMAIN Indexed(rows)
  PROVE  /\ Indexed(rows)[st, ev] \in rows
         /\ Indexed(rows)[st, ev][1] = st /\ Indexed(rows)[st, ev][2] = ev
<1> DEFINE P(r) == <<st, ev>> = <<r[1], r[2]>>
<1>1. <<st, ev>> \in {<<r[1], r[2]>> : r \in rows}
  BY DEF Indexed
<1>2. PICK q \in rows : P(q)
  BY <1>1
<1>3. Indexed(rows)[st, ev] = CHOOSE r \in rows : P(r)
  BY <1>1 DEF Indexed
<1> HIDE DEF P
<1>4. Indexed(rows)[st, ev] \in rows /\ P(Indexed(rows)[st, ev])
  BY <1>2, <1>3
<1> QED BY <1>4 DEF P

ClientRows == ClientIdle \cup ClientPending \cup ClientOpen \cup ClientOpenEnds \cup ClientDisc
ServerRows == ServerIdle \cup ServerOpen \cup ServerOpenEnds \cup ServerDisc

RowAt(r, rows, st, ev) == r \in rows /\ r[1] = st /\ r[2] = ev

\* So do the two tables.
LEMMA ClientTableRow ==
  ASSUME NEW st, NEW ev, <<st, ev>> \in DOMAIN ClientTable
  PROVE  RowAt(ClientTable[st, ev], ClientRows, st, ev)
BY IndexedRow DEF ClientTable, ClientRows, RowAt

\* The same for the table of the server.
LEMMA ServerTableRow ==
  ASSUME NEW st, NEW ev, <<st, ev>> \in DOMAIN ServerTable
  PROVE  RowAt(ServerTable[st, ev], ServerRows, st, ev)
BY IndexedRow DEF ServerTable, ServerRows, RowAt

Ends == {"Disconnect", "Cleanup", "SessionTimeout"}

\* Of the rows of the client: the session is opened by GrantAccess, on a successful
\* answer, and no row that cancels the timers stays in OPEN.
LEMMA ClientRow ==
  ASSUME NEW r \in ClientRows
  PROVE  /\ r[3] \in State
         /\ r[3] = "OPEN" => r[1] = "OPEN" \/ r[4] = "GrantAccess"
         /\ r[4] = "GrantAccess" => r[2] = "SSAA_OK"
         /\ r[4] \in Ends \cup {"SessionTimeoutState"} => r[3] # "OPEN"
         /\ r[4] = "TxSSAR" => r[2] = "TX_SSAR"
         /\ r[4] = "RxSSA" => r[2] \in {"RX_SSAA", "RX_SSAR"} /\ r[3] = r[1]
         /\ r[2] = "RX_SSAR" => r[1] = "OPEN"
<1> USE DEF State, Ends
<1>1. CASE r \in ClientIdle      BY <1>1 DEF ClientIdle
<1>2. CASE r \in ClientPending   BY <1>2 DEF ClientPending
<1>3. CASE r \in ClientOpen      BY <1>3 DEF ClientOpen
<1>4. CASE r \in ClientOpenEnds  BY <1>4 DEF ClientOpenEnds
<1>5. CASE r \in ClientDisc      BY <1>5 DEF ClientDisc
<1> QED BY <1>1, <1>2, <1>3, <1>4, <1>5 DEF ClientRows

\* Of the rows of the server: a session is opened by GrantAccess, on a verdict, and
\* only an open one is aborted; what resets a session leads to IDLE.
LEMMA ServerRow ==
  ASSUME NEW r \in ServerRows
  PROVE  /\ r[3] \in State
         /\ r[3] = "OPEN" => r[1] = "OPEN" \/ r[4] = "GrantAccess"
         /\ r[3] = "DISC" => r[1] \in {"OPEN", "DISC"}
         /\ r[4] = "GrantAccess" => r[2] = "SSAR_OK"
         /\ r[4] \in {"TxASR", "RxASA"} => r[3] = "DISC"
         /\ r[4] = "TxRAR" => r[3] = "OPEN"
         /\ r[2] = "TX_SSAA" => r[4] \in {"TxSSA", "nothing"}
         /\ r[2] = "TX_SSAR" => r[1] = "OPEN"
         /\ r[4] \in {"Cleanup", "TxSTACleanup", "SessionReclaim"} => r[3] = "IDLE"
         /\ r[4] = "TxSSA" => r[2] \in {"TX_SSAA", "TX_SSAR"}
         /\ r[4] = "RxSSA" => r[2] \in {"RX_SSAA", "RX_SSAR"} /\ r[3] = r[1]
         /\ r[4] = "RxSSA" /\ r[2] = "RX_SSAA" => r[1] = "OPEN"
<1> USE DEF State
<1>1. CASE r \in ServerIdle      BY <1>1 DEF ServerIdle
<1>2. CASE r \in ServerOpen      BY <1>2 DEF ServerOpen
<1>3. CASE r \in ServerOpenEnds  BY <1>3 DEF ServerOpenEnds
<1>4. CASE r \in ServerDisc      BY <1>4 DEF ServerDisc
<1> QED BY <1>1, <1>2, <1>3, <1>4 DEF ServerRows

----------------------------------------------------------------------------
(* The client.                                                             *)

\* An open session of the client knows what the server has dictated, and has its
\* timers if that is to keep state.
ClientGood(x) == /\ x \in Half
                 /\ x.fsm = "OPEN" /\ x.run => x.neg /\ (x.st => EndTimers(x))

\* It depends on the state and on the timers only.
LEMMA StillClientGood ==
  ASSUME NEW x, NEW y, ClientGood(x), Still(x, y)
  PROVE  ClientGood(y)
BY DEF ClientGood, Still, EndTimers

\* A half that is not open, or does not run.
LEMMA ClosedClientGood ==
  ASSUME NEW y \in Half, y.fsm # "OPEN" \/ ~y.run
  PROVE  ClientGood(y)
BY DEF ClientGood

\* GrantAccess: the two timers are set if state is kept.
LEMMA ClientGrantsGood ==
  ASSUME NEW x \in Half, x.neg
  PROVE  ClientGood(ClientGrants(x))
<1> DEFINE y == CancelAll(x)
           z == Schedule(y, "SESSION", "SESSION_TOUT_ST")
           v == Schedule(z, "AUTH", "LIFETIME_TOUT")
           w == Schedule(y, "SESSION", "SESSION_TOUT_NOST")
<1>1. Timed(x, y) /\ y \in Half
  BY CancelsAll DEF Timed
<1>2. ClientGrants(x) = IF x.st THEN v ELSE IF x.tout > 0 THEN w ELSE y
  BY <1>1 DEF ClientGrants, Timed
<1> HIDE DEF y
<1>3. /\ Timed(y, z) /\ z \in Half /\ z.tm = [y.tm EXCEPT !["SESSION"] = "SESSION_TOUT_ST"]
      /\ Timed(y, w) /\ w \in Half
  <2>1. /\ "SESSION" \in TimerType
        /\ Fits("SESSION", "SESSION_TOUT_ST") /\ Fits("SESSION", "SESSION_TOUT_NOST")
    BY DEF Fits, TimerType
  <2>2. Timed(y, z) /\ z.tm = [y.tm EXCEPT !["SESSION"] = "SESSION_TOUT_ST"]
    BY <1>1, <2>1, Schedules
  <2>3. Timed(y, w)
    BY <1>1, <2>1, Schedules
  <2> QED BY <2>2, <2>3 DEF Timed
<1> HIDE DEF z, w
<1>4. Timed(z, v) /\ v.tm = [z.tm EXCEPT !["AUTH"] = "LIFETIME_TOUT"]
  BY <1>3, Schedules DEF Fits, TimerType
<1> HIDE DEF v
<1>5. y.tm \in [TimerType -> TimerEvent \cup {None}]
  BY <1>1 DEF Half, Timers
<1>6. EndTimers(v)
  BY <1>3, <1>4, <1>5 DEF EndTimers, TimerType
<1>7. CASE x.st
  BY <1>1, <1>2, <1>3, <1>4, <1>6, <1>7 DEF Timed, ClientGood
<1>8. CASE ~x.st
  <2>1. ClientGrants(x) \in {w, y}
    BY <1>2, <1>8
  <2> QED BY <1>1, <1>3, <1>8, <2>1 DEF Timed, ClientGood
<1> QED BY <1>7, <1>8

\* Reset() stops the machine.
LEMMA ClientResets ==
  ASSUME NEW x \in Half
  PROVE  ClientReset(x) \in Half /\ ClientReset(x).run = FALSE /\ ClientReset(x).fsm = x.fsm
<1> DEFINE y == CancelAll(x)
<1>1. y \in Half /\ y.fsm = x.fsm
  BY CancelsAll DEF Timed
<1>2. ClientReset(x) = [y EXCEPT !.run = FALSE, !.neg = FALSE, !.reset = TRUE]
  BY DEF ClientReset
<1> HIDE DEF y
<1> QED BY <1>1, <1>2 DEF Half

\* An action of the client, of a row that leads to the state the half is in.
LEMMA ClientLeafGood ==
  ASSUME NEW x \in Half, NEW do, NEW m,
         do # "GrantAccess" => ClientGood(x), do = "GrantAccess" => x.neg,
         do \in Ends \cup {"SessionTimeoutState"} => x.fsm # "OPEN",
         do = "TxSSAR" => m \in Msg
  PROVE  ClientGood(ClientLeaf(x, do, m))
<1>1. CASE do = "TxSSAR"
  <2>1. ClientLeaf(x, do, m) = Tx(x, m)
    BY <1>1 DEF ClientLeaf
  <2> QED BY <1>1, <2>1, TxStill, StillClientGood
<1>2. CASE do = "GrantAccess"
  BY <1>2, ClientGrantsGood DEF ClientLeaf
<1>3. CASE do = "RxRAR"
  <2>1. ClientLeaf(x, do, m) = Tx(x, RAA)
    BY <1>3 DEF ClientLeaf
  <2> QED BY <1>3, <2>1, TxStill, StillClientGood, MachineMessages
<1>4. CASE do = "TxSTR"
  <2>1. ClientLeaf(x, do, m) = Tx(x, STR)
    BY <1>4 DEF ClientLeaf
  <2> QED BY <1>4, <2>1, TxStill, StillClientGood, MachineMessages
<1>5. CASE do = "SessionTimeoutState"
  <2> DEFINE y == CancelAll(x)
  <2>1. y \in Half /\ y.fsm # "OPEN"
    BY <1>5, CancelsAll DEF Timed
  <2>2. ClientLeaf(x, do, m) = Tx(y, STR)
    BY <1>5 DEF ClientLeaf
  <2> HIDE DEF y
  <2> QED BY <2>1, <2>2, TxStill, StillClientGood, ClosedClientGood, MachineMessages
<1>6. CASE do = "TxASA_TxSTR"
  <2> DEFINE y == Tx(x, ASA("ok"))
  <2>1. y \in Half /\ ClientGood(y)
    BY <1>6, TxStill, StillClientGood, MachineMessages DEF Still
  <2>2. ClientLeaf(x, do, m) = Tx(y, STR)
    BY <1>6 DEF ClientLeaf
  <2> HIDE DEF y
  <2> QED BY <2>1, <2>2, TxStill, StillClientGood, MachineMessages
<1>7. CASE do = "TxASA_Fail"
  <2>1. ClientLeaf(x, do, m) = Tx(x, ASA("fail"))
    BY <1>7 DEF ClientLeaf
  <2> QED BY <1>7, <2>1, TxStill, StillClientGood, MachineMessages
<1>8. CASE do \in Ends
  <2>1. ClientLeaf(x, do, m) = ClientReset(x)
    BY <1>8 DEF ClientLeaf, Ends
  <2> QED BY <2>1, ClientResets, ClosedClientGood
<1>9. CASE do \notin {"TxSSAR", "GrantAccess", "RxRAR", "TxSTR", "SessionTimeoutState",
                      "TxASA_TxSTR", "TxASA_Fail"} \cup Ends
  <2>1. ClientLeaf(x, do, m) = x
    BY <1>9 DEF ClientLeaf, Ends
  <2> QED BY <1>9, <2>1
<1> QED BY <1>1, <1>2, <1>3, <1>4, <1>5, <1>6, <1>7, <1>8, <1>9

\* One event of the client's machine.
LEMMA ClientFireGood ==
  ASSUME NEW x, ClientGood(x), NEW ev, NEW m,
         ev = "TX_SSAR" => m \in Msg, ev = "SSAA_OK" => x.neg
  PROVE  ClientGood(ClientFire(x, ev, m))
<1>1. CASE ~Has(ClientTable, x, ev)
  BY <1>1 DEF ClientFire
<1>2. CASE Has(ClientTable, x, ev)
  <2>0. x \in Half
    BY DEF ClientGood
  <2>1. PICK st : st = x.fsm
    OBVIOUS
  <2>2. PICK r : r = ClientTable[st, ev]
    OBVIOUS
  <2>3. <<st, ev>> \in DOMAIN ClientTable /\ x.run
    BY <1>2, <2>1 DEF Has
  <2>4. r \in ClientRows /\ r[1] = st /\ r[2] = ev
    <3>1. RowAt(ClientTable[st, ev], ClientRows, st, ev)
      BY <2>3, ClientTableRow
    <3> QED BY <2>2, <3>1 DEF RowAt
  <2>5. PICK y : y = [x EXCEPT !.fsm = r[3]]
    OBVIOUS
  <2>6. ClientFire(x, ev, m) = ClientLeaf(y, r[4], m)
    BY <1>2, <2>0, <2>1, <2>2, <2>5 DEF ClientFire, Enter, Do, Half
  <2>7. PICK do, to : do = r[4] /\ to = r[3]
    OBVIOUS
  <2>8. /\ to \in State
        /\ to = "OPEN" => st = "OPEN" \/ do = "GrantAccess"
        /\ do = "GrantAccess" => ev = "SSAA_OK"
        /\ do \in Ends \cup {"SessionTimeoutState"} => to # "OPEN"
        /\ do = "TxSSAR" => ev = "TX_SSAR"
    BY <2>4, <2>7, ClientRow
  <2>9. y \in Half /\ y.fsm = to /\ y.run = x.run /\ y.st = x.st /\ y.neg = x.neg /\ y.tm = x.tm
    BY <2>0, <2>5, <2>7, <2>8 DEF Half
  <2>10. do # "GrantAccess" => ClientGood(y)
    BY <2>1, <2>8, <2>9 DEF ClientGood, EndTimers
  <2>11. ClientGood(ClientLeaf(y, do, m))
    BY <2>8, <2>9, <2>10, ClientLeafGood
  <2> QED BY <2>6, <2>7, <2>11
<1> QED BY <1>1, <1>2

\* Send(): an application's message, with the timeout it may have lowered.
LEMMA ClientSendGood ==
  ASSUME NEW x, ClientGood(x), NEW m \in Msg, NEW a \in App
  PROVE  ClientGood(ClientSend(x, m, a))
<1>0. x \in Half
  BY DEF ClientGood
<1>1. PICK tout \in Value : tout = IF a.tout # None /\ a.tout < x.tout THEN a.tout ELSE x.tout
  <2>1. a.tout \in Tout \cup {None} /\ x.tout \in Value
    BY <1>0 DEF App, Half
  <2> QED BY <2>1 DEF Value
<1>2. PICK y : y = IF x.toutNeg THEN x ELSE [x EXCEPT !.tout = tout]
  OBVIOUS
<1>3. PICK st \in BOOLEAN \cup {None} : st = IF x.fsm = "IDLE" /\ ~x.neg THEN x.st ELSE None
  BY <1>0 DEF Half
<1>4. PICK to \in Value \cup {None} : to = IF x.toutNeg THEN None ELSE tout
  OBVIOUS
<1>5. PICK n : n = [m EXCEPT !.st = st, !.tout = to]
  OBVIOUS
<1>6. n \in Msg
  BY <1>5 DEF Msg
<1>7. ClientGood(y)
  <2>1. Still(x, y)
    BY <1>0, <1>2 DEF Still, Half
  <2> QED BY <2>1, StillClientGood
<1>8. ClientSend(x, m, a) = IF ~x.run THEN x ELSE ClientFire(y, "TX_SSAR", n)
  BY <1>1, <1>2, <1>3, <1>4, <1>5 DEF ClientSend
<1>9. ClientGood(ClientFire(y, "TX_SSAR", n))
  BY <1>6, <1>7, ClientFireGood
<1> QED BY <1>8, <1>9

\* RxDelivery(): the verdict of the application opens a session on an answer only.
LEMMA ClientRxDeliveryGood ==
  ASSUME NEW x, ClientGood(x), NEW m \in Msg, NEW a \in App, m.cmd \in Request \/ x.neg
  PROVE  ClientGood(ClientRxDelivery(x, m, a))
<1>1. PICK y : y = IF m.cmd = "SSAR" THEN ClientSend(x, M("SSAA", a.reply), a) ELSE x
  OBVIOUS
<1>2. PICK ev : ev = ClientVerdict(y, m, a.rc)
  OBVIOUS
<1>3. M("SSAA", a.reply) \in Msg
  BY Messages DEF App, Cmd
<1>4. ClientGood(y)
  BY <1>1, <1>3, ClientSendGood
<1>5. ev # "TX_SSAR" /\ (ev = "SSAA_OK" => m.cmd \notin Request)
  <2>1. CASE m.cmd \in Request
    BY <1>2, <2>1 DEF ClientVerdict
  <2>2. CASE m.cmd \notin Request
    BY <1>2, <2>2 DEF ClientVerdict
  <2> QED BY <2>1, <2>2
<1>6. ev = "SSAA_OK" => y.neg
  BY <1>1, <1>5 DEF Request
<1>7. ClientGood(ClientFire(y, ev, m))
  BY <1>4, <1>5, <1>6, ClientFireGood
<1> QED BY <1>1, <1>2, <1>7 DEF ClientRxDelivery

\* A message given to the machine.
LEMMA ClientNotifyGood ==
  ASSUME NEW x, ClientGood(x), NEW ev, NEW m \in Msg, NEW a \in App, ev # "SSAA_OK",
         ev \in {"RX_SSAA", "RX_SSAR"} => m.cmd \in Request \/ x.neg
  PROVE  ClientGood(ClientNotify(x, ev, m, a))
<1>1. CASE Has(ClientTable, x, ev) /\ Do(ClientTable, x, ev) = "RxSSA"
  <2>0. x \in Half
    BY DEF ClientGood
  <2>1. PICK st : st = x.fsm
    OBVIOUS
  <2>2. PICK r : r = ClientTable[st, ev]
    OBVIOUS
  <2>3. <<st, ev>> \in DOMAIN ClientTable
    BY <1>1, <2>1 DEF Has
  <2>4. r \in ClientRows /\ r[1] = st /\ r[2] = ev
    <3>1. RowAt(ClientTable[st, ev], ClientRows, st, ev)
      BY <2>3, ClientTableRow
    <3> QED BY <2>2, <3>1 DEF RowAt
  <2>5. r[4] = "RxSSA"
    BY <1>1, <2>1, <2>2 DEF Do
  <2>6. r[3] = st /\ ev \in {"RX_SSAA", "RX_SSAR"}
    BY <2>4, <2>5, ClientRow
  <2>7. Enter(ClientTable, x, ev) = x
    BY <2>0, <2>1, <2>2, <2>6 DEF Enter, Half
  <2>8. ClientGood(ClientRxDelivery(x, m, a))
    BY <2>6, ClientRxDeliveryGood
  <2> QED BY <1>1, <2>7, <2>8 DEF ClientNotify
<1>2. CASE ~(Has(ClientTable, x, ev) /\ Do(ClientTable, x, ev) = "RxSSA")
  <2>1. ClientGood(ClientFire(x, ev, m))
    BY ClientFireGood
  <2> QED BY <1>2, <2>1 DEF ClientNotify
<1> QED BY <1>1, <1>2

\* A request of the server.
LEMMA ClientRxRequestGood ==
  ASSUME NEW x, ClientGood(x), NEW m \in Msg, NEW a \in App, m.cmd \in Request
  PROVE  ClientGood(ClientRxRequest(x, m, a))
<1>1. \A ev : ev # "SSAA_OK" => ClientGood(ClientNotify(x, ev, m, a))
  BY ClientNotifyGood
<1>2. PICK ev : /\ ev = IF a.yes THEN "RX_ASR_OK" ELSE "RX_ASR_RETRY"
                /\ ev # "SSAA_OK"
  OBVIOUS
<1>3. /\ ClientGood(ClientNotify(x, ev, m, a))
      /\ ClientGood(ClientNotify(x, "RX_RAR", m, a))
      /\ ClientGood(ClientNotify(x, "RX_SSAR", m, a))
  BY <1>1, <1>2
<1>4. CASE m.cmd = "ASR" /\ x.st
  BY <1>2, <1>3, <1>4 DEF ClientRxRequest
<1>5. CASE ~(m.cmd = "ASR" /\ x.st)
  BY <1>3, <1>5 DEF ClientRxRequest
<1> QED BY <1>4, <1>5

\* An answer of the server, which dictates the state of the session.
LEMMA ClientRxAnswerGood ==
  ASSUME NEW x, ClientGood(x), NEW m \in FromServer, NEW a \in App
  PROVE  ClientGood(ClientRxAnswer(x, m, a))
<1>0. x \in Half /\ m \in Msg /\ m.st \in BOOLEAN /\ m.tout \in Value \cup {None}
  BY DEF ClientGood, FromServer, Msg
<1>1. PICK y : y = IF x.neg \/ m.st = None THEN x ELSE [x EXCEPT !.st = m.st, !.neg = TRUE]
  OBVIOUS
<1>2. PICK z : z = IF x.toutNeg \/ m.tout = None THEN y
                   ELSE [y EXCEPT !.tout = m.tout, !.toutNeg = TRUE]
  OBVIOUS
<1>3. m.st # None
  BY <1>0, AuthSessionAssumption
<1>4. y \in Half /\ y.neg /\ ClientGood(y)
  BY <1>0, <1>1, <1>3 DEF ClientGood, Half
<1>5. Still(y, z)
  BY <1>0, <1>2, <1>4 DEF Still, Half
<1>6. ClientGood(z) /\ z.neg
  BY <1>4, <1>5, StillClientGood DEF Still
<1>7. ClientGood(ClientNotify(z, "RX_SSAA", m, a))
  BY <1>0, <1>6, ClientNotifyGood
<1>8. ClientGood(ClientNotify(x, "RX_STA", m, a))
  BY <1>0, ClientNotifyGood
<1>9. \/ ClientRxAnswer(x, m, a) = ClientNotify(x, "RX_STA", m, a)
      \/ ClientRxAnswer(x, m, a) = x
      \/ ClientRxAnswer(x, m, a) = ClientNotify(z, "RX_SSAA", m, a)
  BY <1>1, <1>2 DEF ClientRxAnswer
<1> QED BY <1>7, <1>8, <1>9

----------------------------------------------------------------------------
(* The server.                                                             *)

Reclaimable(x) == x.tm["SESSION"] \in {"SESSION_TOUT_NOST", "SESSION_RECLAIM"}

\* A session of the server is open or aborted only with state, and open only with
\* its timers; what it has dictated was negotiated, and without state has started
\* the timer that deletes it.  In the middle of an operation it runs, or was reset.
ServerGood(x) == /\ x \in Half
                 /\ x.fsm \in {"OPEN", "DISC"} => x.st /\ x.neg
                 /\ x.fsm = "OPEN" => EndTimers(x)
                 /\ x.run => (x.toutNeg => x.neg) /\ (~x.st /\ x.toutNeg => Reclaimable(x))
                 /\ ~x.run => x.fsm = "IDLE"
                 /\ x.run <=> ~x.reset
                 /\ x.tx \in Seq(FromServer)

\* A message of the server: it dictates the state, and the timeout once.
LEMMA ServerTxSets ==
  ASSUME NEW x \in Half, x.tx \in Seq(FromServer), NEW m \in Msg
  PROVE  /\ Still(x, ServerTx(x, m)) /\ ServerTx(x, m).tx \in Seq(FromServer)
         /\ ServerTx(x, m).toutNeg = TRUE /\ ServerTx(x, m).reset = x.reset
<1>1. PICK to \in Value \cup {None} : to = IF x.toutNeg THEN None ELSE x.tout
  BY DEF Half
<1>2. PICK n : n = [m EXCEPT !.st = x.st, !.tout = to]
  OBVIOUS
<1>3. n \in Msg /\ n.st = x.st
  BY <1>2 DEF Msg, Half
<1>4. n \in FromServer
  BY <1>3 DEF FromServer, Half
<1>5. PICK y : y = Tx(x, n)
  OBVIOUS
<1>6. Still(x, y) /\ y.tx = Append(x.tx, n) /\ y.reset = x.reset
  BY <1>3, <1>5, TxStill
<1>7. y.tx \in Seq(FromServer)
  BY <1>4, <1>6
<1>8. PICK w : w = [y EXCEPT !.toutNeg = TRUE]
  OBVIOUS
<1>9. Still(y, w) /\ w.tx = y.tx /\ w.toutNeg = TRUE /\ w.reset = y.reset
  BY <1>6, <1>8 DEF Still, Half
<1>10. ServerTx(x, m) = w
  BY <1>1, <1>2, <1>5, <1>8 DEF ServerTx
<1> QED BY <1>6, <1>7, <1>9, <1>10 DEF Still

\* A message with which no session is left without its timer.
LEMMA ServerTxGood ==
  ASSUME NEW x, ServerGood(x), NEW m \in Msg, x.run => x.st /\ x.neg
  PROVE  ServerGood(ServerTx(x, m))
<1>1. PICK y : y = ServerTx(x, m)
  OBVIOUS
<1>2. Still(x, y) /\ y.tx \in Seq(FromServer) /\ y.reset = x.reset
  BY <1>1, ServerTxSets DEF ServerGood
<1>3. ServerGood(y)
  BY <1>2 DEF ServerGood, Still, EndTimers
<1> QED BY <1>1, <1>3

\* TxSSA: without state, the session has the timer that deletes it afterwards.
LEMMA ServerTxSSAGood ==
  ASSUME NEW x, ServerGood(x), NEW m \in Msg, x.run, x.neg
  PROVE  ServerGood(ServerTxSSA(x, m)) /\ ServerTxSSA(x, m).neg = TRUE
<1>1. PICK y : y = ServerTx(x, m)
  OBVIOUS
<1>2. Still(x, y) /\ y.tx \in Seq(FromServer) /\ y.toutNeg = TRUE /\ y.reset = x.reset
  BY <1>1, ServerTxSets DEF ServerGood
<1>3. y \in Half /\ y.neg = TRUE /\ y.run = TRUE /\ y.reset = FALSE
  BY <1>2 DEF Still, Half, ServerGood
<1>4. CASE y.st
  <2>1. ServerTxSSA(x, m) = y
    BY <1>1, <1>4 DEF ServerTxSSA
  <2>2. ServerGood(y)
    BY <1>2, <1>4 DEF ServerGood, Still, EndTimers
  <2> QED BY <1>3, <2>1, <2>2
<1>5. CASE ~y.st
  <2>1. PICK ev : /\ ev = IF y.tout > 0 THEN "SESSION_TOUT_NOST" ELSE "SESSION_RECLAIM"
                  /\ ev \in {"SESSION_TOUT_NOST", "SESSION_RECLAIM"}
    OBVIOUS
  <2>2. PICK w : w = CancelAll(y)
    OBVIOUS
  <2>3. Timed(y, w) /\ w \in Half
    BY <1>3, <2>2, CancelsAll DEF Timed
  <2>4. PICK v : v = Schedule(w, "SESSION", ev)
    OBVIOUS
  <2>5. "SESSION" \in TimerType /\ Fits("SESSION", ev)
    BY <2>1 DEF Fits, TimerType
  <2>6. Timed(w, v) /\ v.tm = [w.tm EXCEPT !["SESSION"] = ev]
    BY <2>3, <2>4, <2>5, Schedules
  <2>7. v.tm["SESSION"] = ev
    BY <2>3, <2>5, <2>6 DEF Half, Timers
  <2>8. ServerTxSSA(x, m) = v
    BY <1>1, <1>5, <2>1, <2>2, <2>4 DEF ServerTxSSA
  <2>9. v.fsm \notin {"OPEN", "DISC"}
    BY <1>2, <1>5, <2>3, <2>6 DEF ServerGood, Still, Timed
  <2>10. /\ v \in Half /\ v.run = TRUE /\ v.reset = FALSE /\ v.neg = TRUE /\ v.tx \in Seq(FromServer)
         /\ Reclaimable(v)
    BY <1>2, <1>3, <2>1, <2>3, <2>6, <2>7 DEF Timed, Reclaimable
  <2>11. ServerGood(v)
    BY <2>9, <2>10 DEF ServerGood
  <2> QED BY <2>8, <2>10, <2>11
<1> QED BY <1>4, <1>5

\* GrantAccess: the two timers of an open session.
LEMMA ServerGrantsGood ==
  ASSUME NEW x \in Half, x.run, ~x.reset, x.st, x.neg, x.tx \in Seq(FromServer)
  PROVE  ServerGood(ServerGrants(x))
<1>1. PICK y : y = CancelAll(x)
  OBVIOUS
<1>2. Timed(x, y) /\ y \in Half
  BY <1>1, CancelsAll DEF Timed
<1>3. /\ "SESSION" \in TimerType /\ Fits("SESSION", "SESSION_TOUT_ST")
      /\ "AUTH" \in TimerType /\ Fits("AUTH", "LIFETIME_TOUT")
  BY DEF Fits, TimerType
<1>4. PICK z : z = Schedule(y, "SESSION", "SESSION_TOUT_ST")
  OBVIOUS
<1>5. Timed(y, z) /\ z \in Half /\ z.tm = [y.tm EXCEPT !["SESSION"] = "SESSION_TOUT_ST"]
  <2>1. Timed(y, z) /\ z.tm = [y.tm EXCEPT !["SESSION"] = "SESSION_TOUT_ST"]
    BY <1>2, <1>3, <1>4, Schedules
  <2> QED BY <2>1 DEF Timed
<1>6. PICK v : v = Schedule(z, "AUTH", "LIFETIME_TOUT")
  OBVIOUS
<1>7. Timed(z, v) /\ v.tm = [z.tm EXCEPT !["AUTH"] = "LIFETIME_TOUT"]
  BY <1>3, <1>5, <1>6, Schedules
<1>8. y.tm \in [TimerType -> TimerEvent \cup {None}]
  BY <1>2 DEF Half, Timers
<1>9. EndTimers(v)
  BY <1>5, <1>7, <1>8 DEF EndTimers, TimerType
<1>10. ServerGrants(x) = v
  BY <1>1, <1>4, <1>6 DEF ServerGrants
<1> QED BY <1>2, <1>5, <1>7, <1>9, <1>10 DEF Timed, ServerGood

\* TxASR: the session waits for the ASA with the timers cancelled, or for a route.
LEMMA ServerTxASRGood ==
  ASSUME NEW x, ServerGood(x), NEW a \in App, x.fsm = "DISC"
  PROVE  ServerGood(ServerTxASR(x, a))
<1>1. PICK y : y = CancelAll(x)
  OBVIOUS
<1>2. Timed(x, y) /\ y \in Half
  BY <1>1, CancelsAll DEF Timed, ServerGood
<1>3. ServerGood(y) /\ y.fsm = "DISC" /\ y.st /\ y.neg
  BY <1>2 DEF ServerGood, Timed
<1>4. CASE a.yes
  <2>1. PICK z : z = ServerTx(y, ASR)
    OBVIOUS
  <2>2. /\ ServerGood(z) /\ Still(y, z)
    BY <1>2, <1>3, <2>1, ServerTxGood, ServerTxSets, MachineMessages DEF ServerGood
  <2>3. PICK w : w = [z EXCEPT !.sent = TRUE]
    OBVIOUS
  <2>4. ServerGood(w)
    BY <2>2, <2>3 DEF ServerGood, Half, EndTimers, Reclaimable
  <2> QED BY <1>1, <1>4, <2>1, <2>3, <2>4 DEF ServerTxASR
<1>5. CASE ~a.yes
  <2>1. PICK z : z = Schedule(y, "ASR", "TX_ASR_FAIL")
    OBVIOUS
  <2>2. "ASR" \in TimerType /\ Fits("ASR", "TX_ASR_FAIL")
    BY DEF Fits, TimerType
  <2>3. Timed(y, z) /\ z \in Half
    <3>1. Timed(y, z)
      BY <1>2, <2>1, <2>2, Schedules
    <3> QED BY <3>1 DEF Timed
  <2>4. PICK w : w = [z EXCEPT !.toutNeg = TRUE]
    OBVIOUS
  <2>5. ServerGood(w)
    BY <1>3, <2>3, <2>4 DEF ServerGood, Half, Timed
  <2> QED BY <1>1, <1>5, <2>1, <2>4, <2>5 DEF ServerTxASR
<1> QED BY <1>4, <1>5

\* Reset(): the session is IDLE, and stops.
LEMMA ServerResetGood ==
  ASSUME NEW x \in Half, x.fsm = "IDLE", x.tx \in Seq(FromServer)
  PROVE  ServerGood(ServerReset(x))
<1>1. PICK y : y = CancelAll(x)
  OBVIOUS
<1>2. Timed(x, y) /\ y \in Half
  BY <1>1, CancelsAll DEF Timed
<1>3. ServerReset(x) = [y EXCEPT !.sent = FALSE, !.neg = FALSE, !.run = FALSE, !.reset = TRUE]
  BY <1>1 DEF ServerReset
<1>4. PICK w : w = [y EXCEPT !.sent = FALSE, !.neg = FALSE, !.run = FALSE, !.reset = TRUE]
  OBVIOUS
<1>5. w \in Half /\ w.fsm = "IDLE" /\ w.run = FALSE /\ w.reset = TRUE /\ w.tx \in Seq(FromServer)
  BY <1>2, <1>4 DEF Half, Timed
<1>6. ServerGood(w)
  BY <1>5 DEF ServerGood
<1> QED BY <1>3, <1>4, <1>6

\* SessionReclaim: reset, or reclaimed later.
LEMMA ServerReclaimGood ==
  ASSUME NEW x, ServerGood(x), x.fsm = "IDLE"
  PROVE  ServerGood(Schedule(CancelAll(x), "SESSION", "SESSION_RECLAIM"))
<1>1. PICK y : y = CancelAll(x)
  OBVIOUS
<1>2. Timed(x, y) /\ y \in Half
  BY <1>1, CancelsAll DEF Timed, ServerGood
<1>3. PICK z : z = Schedule(y, "SESSION", "SESSION_RECLAIM")
  OBVIOUS
<1>4. "SESSION" \in TimerType /\ Fits("SESSION", "SESSION_RECLAIM")
  BY DEF Fits, TimerType
<1>5. Timed(y, z) /\ z.tm = [y.tm EXCEPT !["SESSION"] = "SESSION_RECLAIM"]
  BY <1>2, <1>3, <1>4, Schedules
<1>6. Reclaimable(z)
  BY <1>2, <1>4, <1>5 DEF Reclaimable, Half, Timers
<1>7. ServerGood(z)
  BY <1>2, <1>5, <1>6 DEF Timed, ServerGood
<1> QED BY <1>1, <1>3, <1>7

\* RxASA: the session no longer waits for a route.
LEMMA ServerRxASAGood ==
  ASSUME NEW x, ServerGood(x), x.fsm = "DISC"
  PROVE  ServerGood(Cancel(x, "ASR"))
<1>0. x \in Half /\ "ASR" \in TimerType /\ Fits("ASR", None)
  BY DEF ServerGood, TimerType, Fits
<1>1. PICK y : y = Schedule(x, "ASR", None)
  OBVIOUS
<1>2. Timed(x, y)
  BY <1>0, <1>1, Schedules
<1>3. Cancel(x, "ASR") = y
  BY <1>1 DEF Cancel, Schedule
<1> QED BY <1>2, <1>3 DEF Timed, ServerGood

\* An action of the server, of a row that leads to the state the half is in.
LEMMA ServerLeafGood ==
  ASSUME NEW x, NEW do, NEW m, NEW a \in App,
         x \in Half, x.run, ~x.reset, x.tx \in Seq(FromServer),
         do # "GrantAccess" => ServerGood(x), do = "GrantAccess" => x.st /\ x.neg,
         do \in {"TxASR", "RxASA"} => x.fsm = "DISC", do = "TxRAR" => x.fsm = "OPEN",
         do \in {"Cleanup", "TxSTACleanup", "SessionReclaim"} => x.fsm = "IDLE",
         do = "TxSSA" => m \in Msg /\ x.neg
  PROVE  ServerGood(ServerLeaf(x, do, m, a))
<1>1. CASE do = "TxSSA"
  BY <1>1, ServerTxSSAGood DEF ServerLeaf
<1>2. CASE do = "GrantAccess"
  BY <1>2, ServerGrantsGood DEF ServerLeaf
<1>3. CASE do = "TxASR"
  BY <1>3, ServerTxASRGood DEF ServerLeaf
<1>4. CASE do = "TxRAR"
  <2>1. ServerLeaf(x, do, m, a) = ServerTx(x, RAR)
    BY <1>4 DEF ServerLeaf
  <2>2. ServerGood(x) /\ x.st /\ x.neg
    BY <1>4 DEF ServerGood
  <2> QED BY <2>1, <2>2, ServerTxGood, MachineMessages
<1>5. CASE do = "RxASA"
  BY <1>5, ServerRxASAGood DEF ServerLeaf
<1>6. CASE do = "TxSTACleanup"
  <2>1. PICK y : y = ServerTx(x, STA)
    OBVIOUS
  <2>2. y \in Half /\ y.fsm = "IDLE" /\ y.tx \in Seq(FromServer)
    BY <1>6, <2>1, ServerTxSets, MachineMessages DEF Still
  <2>3. ServerLeaf(x, do, m, a) = ServerReset(y)
    BY <1>6, <2>1 DEF ServerLeaf
  <2> QED BY <2>2, <2>3, ServerResetGood
<1>7. CASE do = "Cleanup"
  BY <1>7, ServerResetGood DEF ServerLeaf
<1>8. CASE do = "SessionReclaim"
  <2>1. ServerGood(ServerReset(x))
    BY <1>8, ServerResetGood
  <2>2. ServerGood(Schedule(CancelAll(x), "SESSION", "SESSION_RECLAIM"))
    BY <1>8, ServerReclaimGood
  <2> QED BY <1>8, <2>1, <2>2 DEF ServerLeaf
<1>9. CASE do \notin {"TxSSA", "GrantAccess", "TxASR", "TxRAR", "RxASA", "TxSTACleanup",
                      "Cleanup", "SessionReclaim"}
  <2>1. ServerLeaf(x, do, m, a) = x
    BY <1>9 DEF ServerLeaf
  <2> QED BY <1>9, <2>1
<1> QED BY <1>1, <1>2, <1>3, <1>4, <1>5, <1>6, <1>7, <1>8, <1>9

\* One event of the server's machine: a verdict counts once state is negotiated, and
\* so does an answer that is sent.
LEMMA ServerFireGood ==
  ASSUME NEW x, ServerGood(x), NEW ev, NEW m, NEW a \in App,
         ev \in {"TX_SSAA", "TX_SSAR"} => m \in Msg,
         ev = "TX_SSAA" => x.neg, ev = "SSAR_OK" => x.st /\ x.neg
  PROVE  /\ ServerGood(ServerFire(x, ev, m, a))
         /\ ev = "TX_SSAA" => ServerFire(x, ev, m, a).neg
<1>1. CASE ~Has(ServerTable, x, ev)
  BY <1>1 DEF ServerFire
<1>2. CASE Has(ServerTable, x, ev)
  <2>0. x \in Half
    BY DEF ServerGood
  <2>1. PICK st : st = x.fsm
    OBVIOUS
  <2>2. PICK r : r = ServerTable[st, ev]
    OBVIOUS
  <2>3. <<st, ev>> \in DOMAIN ServerTable /\ x.run
    BY <1>2, <2>1 DEF Has
  <2>4. r \in ServerRows /\ r[1] = st /\ r[2] = ev
    <3>1. RowAt(ServerTable[st, ev], ServerRows, st, ev)
      BY <2>3, ServerTableRow
    <3> QED BY <2>2, <3>1 DEF RowAt
  <2>5. PICK y : y = [x EXCEPT !.fsm = r[3]]
    OBVIOUS
  <2>6. ServerFire(x, ev, m, a) = ServerLeaf(y, r[4], m, a)
    BY <1>2, <2>0, <2>1, <2>2, <2>5 DEF ServerFire, Enter, Do, Half
  <2>7. PICK do, to : do = r[4] /\ to = r[3]
    OBVIOUS
  <2>8. /\ to \in State
        /\ to = "OPEN" => st = "OPEN" \/ do = "GrantAccess"
        /\ to = "DISC" => st \in {"OPEN", "DISC"}
        /\ do = "GrantAccess" => ev = "SSAR_OK"
        /\ do \in {"TxASR", "RxASA"} => to = "DISC"
        /\ do = "TxRAR" => to = "OPEN"
        /\ do \in {"Cleanup", "TxSTACleanup", "SessionReclaim"} => to = "IDLE"
        /\ do = "TxSSA" => ev \in {"TX_SSAA", "TX_SSAR"}
        /\ ev = "TX_SSAR" => st = "OPEN"
        /\ ev = "TX_SSAA" => do \in {"TxSSA", "nothing"}
    BY <2>4, <2>7, ServerRow
  <2>9. /\ y \in Half /\ y.fsm = to /\ y.run = x.run /\ y.st = x.st /\ y.neg = x.neg
        /\ y.tm = x.tm /\ y.toutNeg = x.toutNeg /\ y.reset = x.reset /\ y.tx = x.tx
    BY <2>0, <2>5, <2>7, <2>8 DEF Half
  <2>10. do # "GrantAccess" => ServerGood(y)
    BY <2>1, <2>3, <2>8, <2>9 DEF ServerGood, EndTimers, Reclaimable
  <2>11. do = "TxSSA" => m \in Msg /\ y.neg
    BY <2>1, <2>8, <2>9 DEF ServerGood
  <2>12. ServerGood(ServerLeaf(y, do, m, a))
    <3>1. y.run /\ ~y.reset /\ y.tx \in Seq(FromServer) /\ (do = "GrantAccess" => y.st /\ y.neg)
      BY <2>3, <2>8, <2>9 DEF ServerGood
    <3> QED BY <2>8, <2>9, <2>10, <2>11, <3>1, ServerLeafGood
  <2>13. ev = "TX_SSAA" => ServerLeaf(y, do, m, a).neg
    <3>1. CASE do = "TxSSA"
      BY <2>3, <2>9, <2>10, <2>11, <3>1, ServerTxSSAGood DEF ServerLeaf
    <3>2. CASE do = "nothing"
      BY <2>9, <3>2 DEF ServerLeaf
    <3> QED BY <2>8, <3>1, <3>2
  <2> QED BY <2>6, <2>7, <2>12, <2>13
<1> QED BY <1>1, <1>2

\* RxDelivery(): the answer, then the verdict, which counts if state is kept.
LEMMA ServerRxDeliveryGood ==
  ASSUME NEW x, ServerGood(x), x.neg, NEW m \in Msg, NEW a \in App
  PROVE  ServerGood(ServerRxDelivery(x, m, a))
<1>1. PICK n \in Msg : n = M("SSAA", a.reply)
  BY Messages DEF App, Cmd
<1>2. PICK y : y = IF m.cmd = "SSAR" THEN ServerFire(x, "TX_SSAA", n, a) ELSE x
  OBVIOUS
<1>3. ServerGood(y) /\ y.neg
  BY <1>2, ServerFireGood
<1>4. PICK ev : ev = ServerVerdict(m, a.rc)
  OBVIOUS
<1>5. ev \notin {"TX_SSAA", "TX_SSAR"}
  BY <1>4 DEF ServerVerdict
<1>6. y.st => ServerGood(ServerFire(y, ev, m, a))
  BY <1>3, <1>5, ServerFireGood
<1>7. ServerRxDelivery(x, m, a) = IF y.st THEN ServerFire(y, ev, m, a) ELSE y
  BY <1>1, <1>2, <1>4 DEF ServerRxDelivery
<1> QED BY <1>3, <1>6, <1>7

\* A message given to the machine: one of the applications has negotiated the state.
LEMMA ServerNotifyGood ==
  ASSUME NEW x, ServerGood(x), NEW ev, NEW m \in Msg, NEW a \in App,
         ev \notin {"TX_SSAA", "SSAR_OK"}, ev = "RX_SSAR" => x.neg
  PROVE  ServerGood(ServerNotify(x, ev, m, a))
<1>1. CASE Has(ServerTable, x, ev) /\ Do(ServerTable, x, ev) = "RxSSA"
  <2>0. x \in Half
    BY DEF ServerGood
  <2>1. PICK st : st = x.fsm
    OBVIOUS
  <2>2. PICK r : r = ServerTable[st, ev]
    OBVIOUS
  <2>3. <<st, ev>> \in DOMAIN ServerTable
    BY <1>1, <2>1 DEF Has
  <2>4. r \in ServerRows /\ r[1] = st /\ r[2] = ev
    <3>1. RowAt(ServerTable[st, ev], ServerRows, st, ev)
      BY <2>3, ServerTableRow
    <3> QED BY <2>2, <3>1 DEF RowAt
  <2>5. r[4] = "RxSSA"
    BY <1>1, <2>1, <2>2 DEF Do
  <2>6. r[3] = st /\ ev \in {"RX_SSAA", "RX_SSAR"} /\ (ev = "RX_SSAA" => st = "OPEN")
    BY <2>4, <2>5, ServerRow
  <2>7. Enter(ServerTable, x, ev) = x
    BY <2>0, <2>1, <2>2, <2>6 DEF Enter, Half
  <2>8. x.neg
    BY <2>1, <2>6 DEF ServerGood
  <2>9. ServerGood(ServerRxDelivery(x, m, a))
    BY <2>8, ServerRxDeliveryGood
  <2> QED BY <1>1, <2>7, <2>9 DEF ServerNotify
<1>2. CASE ~(Has(ServerTable, x, ev) /\ Do(ServerTable, x, ev) = "RxSSA")
  <2>1. ServerGood(ServerFire(x, ev, m, a))
    BY ServerFireGood
  <2> QED BY <1>2, <2>1 DEF ServerNotify
<1> QED BY <1>1, <1>2

\* The negotiation of the state of a session, and of its timeout.
LEMMA NegotiatedGood ==
  ASSUME NEW x, ServerGood(x), NEW m \in Msg, NEW a \in App, config \in BOOLEAN
  PROVE  ServerGood(Negotiated(x, m, a)) /\ Negotiated(x, m, a).neg
<1>0. x \in Half
  BY DEF ServerGood
<1>1. PICK ours \in Value : ours = IF a.tout = None THEN x.tout ELSE a.tout
  <2>1. a.tout \in Tout \cup {None} /\ x.tout \in Value
    BY <1>0 DEF App, Half
  <2> QED BY <2>1 DEF Value
<1>2. PICK tout \in Value :
        tout = IF m.tout # None /\ m.tout < ours THEN m.tout ELSE ours
  <2>1. m.tout \in Value \cup {None}
    BY DEF Msg
  <2> QED BY <1>1, <2>1
<1>3. PICK st \in BOOLEAN : st = IF m.st = None THEN config ELSE x.st /\ m.st
  <2>1. m.st \in BOOLEAN \cup {None} /\ x.st \in BOOLEAN
    BY <1>0 DEF Msg, Half
  <2> QED BY <2>1
<1>4. PICK y : y = IF x.neg THEN x ELSE [x EXCEPT !.st = st, !.neg = TRUE]
  OBVIOUS
<1>5. ServerGood(y) /\ y.neg
  BY <1>0, <1>4 DEF ServerGood, Half, EndTimers, Reclaimable
<1>6. PICK z : z = IF x.toutNeg THEN y ELSE [y EXCEPT !.tout = tout]
  OBVIOUS
<1>7. ServerGood(z) /\ z.neg
  BY <1>5, <1>6 DEF ServerGood, Half, EndTimers, Reclaimable
<1>8. Negotiated(x, m, a) = z
  BY <1>0, <1>1, <1>2, <1>3, <1>4, <1>6 DEF Negotiated, Half
<1> QED BY <1>7, <1>8

\* A request of the client.
LEMMA ServerRxRequestGood ==
  ASSUME NEW x, ServerGood(x), NEW m \in Msg, NEW a \in App, config \in BOOLEAN
  PROVE  ServerGood(ServerRxRequest(x, m, a))
<1>1. ServerGood(ServerNotify(x, "RX_STR", m, a))
  BY ServerNotifyGood
<1>2. ServerGood(ServerNotify(Negotiated(x, m, a), "RX_SSAR", m, a))
  BY NegotiatedGood, ServerNotifyGood
<1> QED BY <1>1, <1>2 DEF ServerRxRequest

\* An answer of the client.
LEMMA ServerRxAnswerGood ==
  ASSUME NEW x, ServerGood(x), NEW m \in Msg, NEW a \in App
  PROVE  ServerGood(ServerRxAnswer(x, m, a))
<1>1. \A ev \in {"RX_ASA_OK", "RX_ASA_FAIL", "RX_RAA", "RX_SSAA"} :
         ServerGood(ServerNotify(x, ev, m, a))
  BY ServerNotifyGood
<1>2. PICK ev \in {"RX_ASA_OK", "RX_ASA_FAIL"} :
        ev = IF m.res = "ok" THEN "RX_ASA_OK" ELSE "RX_ASA_FAIL"
  OBVIOUS
<1>3. /\ ServerGood(ServerNotify(x, ev, m, a))
      /\ ServerGood(ServerNotify(x, "RX_RAA", m, a))
      /\ ServerGood(ServerNotify(x, "RX_SSAA", m, a))
  BY <1>1, <1>2
<1> QED BY <1>2, <1>3 DEF ServerRxAnswer

----------------------------------------------------------------------------
(* The invariant.                                                          *)

\* What a session is between two steps: the server's half is good as long as it
\* lives and closed otherwise, and the database finds a living one only.
SessionInv ==
  /\ ClientGood(c)
  /\ obj = "live" => ServerGood(s) /\ s.run
  /\ obj # "live" => s.fsm = "IDLE"
  /\ entry = "live" => obj = "live"
  /\ toS \in Seq(Msg) /\ toC \in Seq(FromServer) /\ config \in BOOLEAN

\* What the applications answer.
LEMMA SaysApp ==
  ASSUME NEW m
  PROVE  ClientSays(m) \subseteq App /\ ServerSays(m) \subseteq App /\ Plain \in App
<1>1. Plain \in App
  BY DEF Plain, App, Res
<1>2. \A rc \in {"SUCCESS", "INCOMPLETE", "NOSERVICE", "UNPROCESSED", "FAILURE"}, reply \in Res :
         Says(rc, reply) \in App
  BY <1>1 DEF Says, App
<1>3. [Plain EXCEPT !.yes = FALSE] \in App
  BY <1>1 DEF App
<1>4. /\ Says("SUCCESS", "ok") \in App /\ Says("FAILURE", "fail") \in App
      /\ Says("FAILURE", None) \in App /\ Says("INCOMPLETE", None) \in App
      /\ Says("INCOMPLETE", "more") \in App
      /\ Says("NOSERVICE", None) \in App /\ Says("UNPROCESSED", None) \in App
  BY <1>2 DEF Res
<1>5. \A roles \in SUBSET App : Verdicts(m, roles) \subseteq App
  BY <1>1, <1>3, <1>4 DEF Verdicts
<1>6. ClientSays(m) \subseteq App
  <2>1. Verdicts(m, {}) \subseteq App
    BY <1>5
  <2> QED BY <1>4, <2>1 DEF ClientSays
<1>7. ServerSays(m) \subseteq App
  <2>1. Verdicts(m, {Says("INCOMPLETE", "more")}) \subseteq App
    BY <1>4, <1>5
  <2>2. \A v \in App, t \in Tout \cup {None} : [v EXCEPT !.tout = t] \in App
    BY DEF App
  <2>3. PICK V : V = Verdicts(m, {Says("INCOMPLETE", "more")})
    OBVIOUS
  <2>4. PICK T \in SUBSET (Tout \cup {None}) :
          T = IF m.cmd = "SSAR" THEN Tout \cup {None} ELSE {None}
    OBVIOUS
  <2>5. ServerSays(m) = {[v EXCEPT !.tout = t] : v \in V, t \in T}
    BY <2>3, <2>4 DEF ServerSays
  <2>6. \A v \in V, t \in T : [v EXCEPT !.tout = t] \in App
    BY <2>1, <2>2, <2>3, <2>4
  <2> QED BY <2>5, <2>6
<1> QED BY <1>1, <1>6, <1>7

\* A new half.
LEMMA NewHalf ==
  ASSUME NEW st \in BOOLEAN, NEW run \in BOOLEAN
  PROVE  /\ New(st, run) \in Half
         /\ New(st, run).fsm = "IDLE" /\ New(st, run).run = run /\ New(st, run).reset = FALSE
         /\ New(st, run).toutNeg = FALSE /\ New(st, run).tx = <<>>
<1>1. NoTimers \in Timers
  BY NoneIsNoEvent DEF NoTimers, Timers, TimerType
<1>2. SessionTm \in Value /\ {} \in SUBSET TimerEvent /\ <<>> \in Seq(Msg) /\ "IDLE" \in State
  BY DEF Value, State
<1> HIDE DEF NoTimers
<1> QED BY <1>1, <1>2 DEF New, Half

\* A queue without its first message.
LEMMA RestType ==
  ASSUME NEW S, NEW q \in Seq(S), q # <<>>
  PROVE  Head(q) \in S /\ Rest(q) \in Seq(S)
BY DEF Rest

\* Between two steps nothing is to be sent.
LEMMA SettledHalf ==
  ASSUME NEW x \in Half
  PROVE  /\ Still(x, Settled(x)) /\ Settled(x).toutNeg = x.toutNeg
         /\ Settled(x).reset = FALSE /\ Settled(x).tx = <<>>
<1>1. <<>> \in Seq(Msg)
  OBVIOUS
<1>2. PICK e : e = <<>>
  OBVIOUS
<1>3. PICK y : y = [x EXCEPT !.tx = e, !.reset = FALSE]
  OBVIOUS
<1>4. Still(x, y) /\ y.toutNeg = x.toutNeg /\ y.reset = FALSE /\ y.tx = e
  BY <1>1, <1>2, <1>3 DEF Still, Half
<1> QED BY <1>2, <1>3, <1>4 DEF Settled

\* What is left of a step of the client.
LEMMA ClientStepInv ==
  ASSUME NEW x, NEW inbox, SessionInv, ClientStep(x, inbox), ClientGood(x),
         inbox \in Seq(FromServer)
  PROVE  SessionInv'
<1>0. Settled(x) \in Half /\ Still(x, Settled(x))
  BY SettledHalf DEF ClientGood, Still
<1>1. PICK y : y = Settled(x)
  OBVIOUS
<1>2. ClientGood(y)
  BY <1>0, <1>1, StillClientGood
<1>3. toS \o x.tx \in Seq(Msg)
  BY DEF SessionInv, ClientGood, Half
<1>4. c' = y
  BY <1>1 DEF ClientStep
<1>5. toS' \in Seq(Msg) /\ toC' \in Seq(FromServer)
  BY <1>3 DEF ClientStep
<1>6. UNCHANGED <<s, obj, entry, config>>
  BY DEF ClientStep
<1>7. /\ obj' = "live" => ServerGood(s)' /\ s'.run
      /\ obj' # "live" => s'.fsm = "IDLE"
      /\ entry' = "live" => obj' = "live"
      /\ config' \in BOOLEAN
  BY <1>6 DEF SessionInv
<1> QED BY <1>2, <1>4, <1>5, <1>7 DEF SessionInv

\* What is left of a step of the server, and of its first one.
ServerLeaves(x) ==
  /\ s' = Settled(x)
  /\ toC' = toC \o x.tx /\ toS' \in Seq(Msg)
  /\ obj' = IF x.reset THEN "dead" ELSE "live"
  /\ entry' = "live" => ~x.reset
  /\ UNCHANGED <<c, config>>

\* It keeps the invariant.
LEMMA ServerLeavesInv ==
  ASSUME NEW x, SessionInv, ServerLeaves(x), ServerGood(x)
  PROVE  SessionInv'
<1>1. PICK y : y = Settled(x)
  OBVIOUS
<1>2. x \in Half /\ x.tx \in Seq(FromServer)
  BY DEF ServerGood
<1>3. /\ y \in Half /\ y.fsm = x.fsm /\ y.run = x.run /\ y.st = x.st /\ y.neg = x.neg
      /\ y.tm = x.tm /\ y.toutNeg = x.toutNeg /\ y.reset = FALSE /\ y.tx = <<>>
  BY <1>1, <1>2, SettledHalf DEF Still
<1>4. toC' \in Seq(FromServer) /\ toS' \in Seq(Msg)
  BY <1>2 DEF ServerLeaves, SessionInv
<1>5. CASE ~x.reset
  <2>1. ServerGood(y) /\ y.run
    BY <1>3, <1>5 DEF ServerGood, EndTimers, Reclaimable
  <2>2. s' = y /\ obj' = "live" /\ c' = c /\ config' = config
    BY <1>1, <1>5 DEF ServerLeaves
  <2> QED BY <1>4, <2>1, <2>2 DEF SessionInv
<1>6. CASE x.reset
  <2>1. y.fsm = "IDLE"
    BY <1>3, <1>6 DEF ServerGood
  <2>2. s' = y /\ obj' = "dead" /\ entry' # "live" /\ c' = c /\ config' = config
    BY <1>1, <1>6 DEF ServerLeaves
  <2> QED BY <1>4, <2>1, <2>2 DEF SessionInv
<1> QED BY <1>5, <1>6

\* A step of a session that the server has.
LEMMA ServerStepInv ==
  ASSUME NEW x, NEW inbox, SessionInv, ServerStep(x, inbox), ServerGood(x), obj = "live",
         inbox \in Seq(Msg)
  PROVE  SessionInv'
<1>1. ServerLeaves(x)
  BY DEF ServerStep, ServerLeaves, SessionInv
<1> QED BY <1>1, ServerLeavesInv

\* A half that only a timer event has changed.
LEMMA LateStill ==
  ASSUME NEW x \in Half, NEW late \in SUBSET TimerEvent
  PROVE  /\ Still(x, [x EXCEPT !.late = late])
         /\ [x EXCEPT !.late = late].tx = x.tx /\ [x EXCEPT !.late = late].reset = x.reset
         /\ [x EXCEPT !.late = late].toutNeg = x.toutNeg
BY DEF Still, Half

\* It is as good as before.
LEMMA LateGood ==
  ASSUME NEW x, NEW late \in SUBSET TimerEvent
  PROVE  /\ ClientGood(x) => ClientGood([x EXCEPT !.late = late])
         /\ ServerGood(x) => ServerGood([x EXCEPT !.late = late])
<1>1. CASE x \in Half
  <2>1. PICK y : y = [x EXCEPT !.late = late]
    OBVIOUS
  <2>2. Still(x, y) /\ y.tx = x.tx /\ y.reset = x.reset /\ y.toutNeg = x.toutNeg
    BY <1>1, <2>1, LateStill
  <2>3. ClientGood(x) => ClientGood(y)
    BY <2>2, StillClientGood
  <2>4. ServerGood(x) => ServerGood(y)
    BY <2>2 DEF ServerGood, Still, EndTimers, Reclaimable
  <2> QED BY <2>1, <2>3, <2>4
<1>2. CASE x \notin Half
  BY <1>2 DEF ClientGood, ServerGood
<1> QED BY <1>1, <1>2

----------------------------------------------------------------------------
(* The steps of the client.                                                *)

\* Begin(): again in any state.
LEMMA BeginInv ==
  ASSUME SessionInv, Begin
  PROVE  SessionInv'
<1>0. ClientGood(c) /\ c \in Half
  BY DEF SessionInv, ClientGood
<1>1. PICK restarts \in BOOLEAN, t \in Tout \cup {None}, st \in BOOLEAN :
        LET y == [c EXCEPT !.toutNeg = FALSE, !.tout = IF t = None THEN @ ELSE t]
            z == IF c.run THEN y ELSE [y EXCEPT !.run = TRUE, !.st = st, !.fsm = "IDLE"]
            f == IF restarts THEN ClientFire(z, "REQUEST_ACCESS", None)
                 ELSE [z EXCEPT !.run = FALSE]
        IN c' = f
  BY DEF Begin
<1>2. PICK tout \in Value : tout = IF t = None THEN c.tout ELSE t
  BY <1>0 DEF Value, Half
<1>3. PICK y : y = [c EXCEPT !.toutNeg = FALSE, !.tout = tout]
  OBVIOUS
<1>4. Still(c, y)
  BY <1>0, <1>3 DEF Still, Half
<1>5. PICK z : z = IF c.run THEN y ELSE [y EXCEPT !.run = TRUE, !.st = st, !.fsm = "IDLE"]
  OBVIOUS
<1>6. ClientGood(z)
  <2>1. CASE c.run
    BY <1>0, <1>4, <1>5, <2>1, StillClientGood
  <2>2. CASE ~c.run
    <3>1. z \in Half /\ z.fsm = "IDLE"
      BY <1>4, <1>5, <2>2 DEF Still, Half, State
    <3> QED BY <3>1, ClosedClientGood
  <2> QED BY <2>1, <2>2
<1>7. c' = IF restarts THEN ClientFire(z, "REQUEST_ACCESS", None) ELSE [z EXCEPT !.run = FALSE]
  BY <1>0, <1>1, <1>2, <1>3, <1>5 DEF Half
<1>8. ClientGood(ClientFire(z, "REQUEST_ACCESS", None))
  BY <1>6, ClientFireGood
<1>9. ClientGood([z EXCEPT !.run = FALSE])
  BY <1>6 DEF ClientGood, Half
<1>10. ClientGood(c')
  BY <1>7, <1>8, <1>9
<1>11. UNCHANGED <<s, obj, entry, toS, toC, config>>
  BY DEF Begin
<1> QED BY <1>10, <1>11 DEF SessionInv

\* An application of the client sends a request.
LEMMA ClientSendsInv ==
  ASSUME SessionInv, ClientSends
  PROVE  SessionInv'
<1>1. PICK t \in Tout \cup {None} :
        ClientStep(ClientSend(c, M("SSAR", None), [Plain EXCEPT !.tout = t]), toC)
  BY DEF ClientSends
<1>2. M("SSAR", None) \in Msg
  BY Messages DEF Cmd, Res
<1>3. [Plain EXCEPT !.tout = t] \in App
  BY SaysApp DEF App
<1>4. ClientGood(ClientSend(c, M("SSAR", None), [Plain EXCEPT !.tout = t]))
  BY <1>2, <1>3, ClientSendGood DEF SessionInv
<1>5. toC \in Seq(FromServer)
  BY DEF SessionInv
<1> QED BY <1>1, <1>4, <1>5, ClientStepInv

\* It ends its session.
LEMMA ClientEndsInv ==
  ASSUME SessionInv, ClientEnds
  PROVE  SessionInv'
<1>1. PICK ev \in {"ABORT", "STOP"} : ClientStep(ClientFire(c, ev, None), toC)
  BY DEF ClientEnds
<1>2. ClientGood(ClientFire(c, ev, None))
  BY ClientFireGood DEF SessionInv
<1>3. toC \in Seq(FromServer)
  BY DEF SessionInv
<1> QED BY <1>1, <1>2, <1>3, ClientStepInv

\* The client receives a message, or one that no session of its database is for.
LEMMA ClientReceivesInv ==
  ASSUME SessionInv, ClientReceives
  PROVE  SessionInv'
<1>1. PICK m : m = Head(toC)
  OBVIOUS
<1>2. m \in FromServer /\ m \in Msg /\ Rest(toC) \in Seq(FromServer)
  BY <1>1, RestType DEF ClientReceives, SessionInv, FromServer
<1>3. PICK x : ClientStep(x, Rest(toC)) /\ ClientGood(x)
  <2>1. CASE ~registered
    <3>1. PICK x : /\ x = IF m.cmd = "ASR" THEN Tx(c, ASA("unknown")) ELSE c
                   /\ ClientStep(x, Rest(toC))
      BY <1>1, <2>1 DEF ClientReceives
    <3>2. ClientGood(c) /\ c \in Half
      BY DEF SessionInv, ClientGood
    <3>3. ClientGood(Tx(c, ASA("unknown")))
      BY <3>2, TxStill, StillClientGood, MachineMessages
    <3> QED BY <3>1, <3>2, <3>3
  <2>2. CASE registered
    <3>1. PICK a \in ClientSays(m) :
            ClientStep(IF m.cmd \in Request THEN ClientRxRequest(c, m, a)
                       ELSE ClientRxAnswer(c, m, a), Rest(toC))
      BY <1>1, <2>2 DEF ClientReceives
    <3>2. PICK x : /\ x = IF m.cmd \in Request THEN ClientRxRequest(c, m, a)
                          ELSE ClientRxAnswer(c, m, a)
                   /\ ClientStep(x, Rest(toC))
      BY <3>1
    <3>3. a \in App
      BY SaysApp
    <3>4. m.cmd \in Request => ClientGood(ClientRxRequest(c, m, a))
      BY <1>2, <3>3, ClientRxRequestGood DEF SessionInv
    <3>5. ClientGood(ClientRxAnswer(c, m, a))
      BY <1>2, <3>3, ClientRxAnswerGood DEF SessionInv
    <3> QED BY <3>2, <3>4, <3>5
  <2> QED BY <2>1, <2>2
<1> QED BY <1>2, <1>3, ClientStepInv

\* A timer of the client.
LEMMA ClientTimersInv ==
  ASSUME SessionInv, ClientExpires \/ ClientTimeout
  PROVE  SessionInv'
<1>0. ClientGood(c) /\ c \in Half /\ c.late \in SUBSET TimerEvent
  BY DEF SessionInv, ClientGood, Half
<1>1. CASE ClientExpires
  <2>1. PICK t \in TimerType : c.tm[t] # None /\ c' = [c EXCEPT !.late = @ \cup {c.tm[t]}]
    BY <1>1 DEF ClientExpires
  <2>2. PICK late : late = c.late \cup {c.tm[t]}
    OBVIOUS
  <2>3. c.tm[t] \in TimerEvent
    BY <1>0, <2>1 DEF Half, Timers
  <2>4. c' = [c EXCEPT !.late = late]
    BY <1>0, <2>1, <2>2 DEF Half
  <2>5. ClientGood(c')
    BY <1>0, <2>2, <2>3, <2>4, LateGood
  <2>6. UNCHANGED <<s, obj, entry, toS, toC, config>>
    BY <1>1 DEF ClientExpires
  <2> QED BY <2>5, <2>6 DEF SessionInv
<1>2. CASE ClientTimeout
  <2>1. PICK ev \in c.late : ClientStep(ClientFire([c EXCEPT !.late = @ \ {ev}], ev, None), toC)
    BY <1>2 DEF ClientTimeout
  <2>2. PICK late \in SUBSET TimerEvent : late = c.late \ {ev}
    BY <1>0
  <2>3. PICK x : x = [c EXCEPT !.late = late]
    OBVIOUS
  <2>4. ClientStep(ClientFire(x, ev, None), toC)
    BY <1>0, <2>1, <2>2, <2>3 DEF Half
  <2>5. ClientGood(x)
    BY <1>0, <2>3, LateGood
  <2>6. ev \notin {"TX_SSAR", "SSAA_OK"}
    BY <1>0, <2>1 DEF TimerEvent
  <2>7. ClientGood(ClientFire(x, ev, None))
    BY <2>5, <2>6, ClientFireGood
  <2>8. toC \in Seq(FromServer)
    BY DEF SessionInv
  <2> QED BY <2>4, <2>7, <2>8, ClientStepInv
<1> QED BY <1>1, <1>2
----------------------------------------------------------------------------
(* The steps of the server.                                                *)

\* A call of an application of the server.
LEMMA ServerCallsInv ==
  ASSUME SessionInv, ServerEnds \/ ServerReAuths \/ ServerSends
  PROVE  SessionInv'
<1>1. obj = "live" /\ ServerGood(s) /\ toS \in Seq(Msg)
  BY DEF SessionInv, ServerEnds, ServerReAuths, ServerSends
<1>2. CASE ServerEnds
  <2>1. PICK routed \in BOOLEAN :
          ServerStep(ServerFire(s, "ABORT", None, [Plain EXCEPT !.yes = routed]), toS)
    BY <1>2 DEF ServerEnds
  <2>2. [Plain EXCEPT !.yes = routed] \in App
    BY SaysApp DEF App
  <2>3. ServerGood(ServerFire(s, "ABORT", None, [Plain EXCEPT !.yes = routed]))
    BY <1>1, <2>2, ServerFireGood
  <2> QED BY <1>1, <2>1, <2>3, ServerStepInv
<1>3. CASE ServerReAuths
  <2>1. ServerStep(ServerFire(s, "REAUTH", None, Plain), toS)
    BY <1>3 DEF ServerReAuths
  <2>2. ServerGood(ServerFire(s, "REAUTH", None, Plain))
    BY <1>1, SaysApp, ServerFireGood
  <2> QED BY <1>1, <2>1, <2>2, ServerStepInv
<1>4. CASE ServerSends
  <2>1. ServerStep(ServerFire(s, "TX_SSAR", M("SSAR", None), Plain), toS)
    BY <1>4 DEF ServerSends
  <2>2. M("SSAR", None) \in Msg
    BY Messages DEF Cmd, Res
  <2>3. ServerGood(ServerFire(s, "TX_SSAR", M("SSAR", None), Plain))
    BY <1>1, <2>2, SaysApp, ServerFireGood
  <2> QED BY <1>1, <2>1, <2>3, ServerStepInv
<1> QED BY <1>2, <1>3, <1>4

\* The server receives a message for a session it has.
LEMMA ServerReceivesInv ==
  ASSUME SessionInv, ServerReceives
  PROVE  SessionInv'
<1>1. obj = "live" /\ ServerGood(s) /\ toS \in Seq(Msg) /\ toS # <<>> /\ config \in BOOLEAN
  BY DEF SessionInv, ServerReceives
<1>2. PICK m : m = Head(toS)
  OBVIOUS
<1>3. m \in Msg /\ Rest(toS) \in Seq(Msg)
  BY <1>1, <1>2, RestType
<1>4. PICK a \in ServerSays(m) :
        ServerStep(IF m.cmd \in Request THEN ServerRxRequest(s, m, a)
                   ELSE ServerRxAnswer(s, m, a), Rest(toS))
  BY <1>2 DEF ServerReceives
<1>5. PICK x : /\ x = IF m.cmd \in Request THEN ServerRxRequest(s, m, a)
                      ELSE ServerRxAnswer(s, m, a)
               /\ ServerStep(x, Rest(toS))
  BY <1>4
<1>6. a \in App
  BY SaysApp
<1>7. ServerGood(ServerRxRequest(s, m, a)) /\ ServerGood(ServerRxAnswer(s, m, a))
  BY <1>1, <1>3, <1>6, ServerRxRequestGood, ServerRxAnswerGood
<1>8. ServerGood(x)
  BY <1>5, <1>7
<1> QED BY <1>1, <1>3, <1>5, <1>8, ServerStepInv

\* A request creates a session.
LEMMA ServerCreatesInv ==
  ASSUME SessionInv, ServerCreates
  PROVE  SessionInv'
<1>1. toS \in Seq(Msg) /\ toS # <<>> /\ config \in BOOLEAN
  BY DEF SessionInv, ServerCreates
<1>2. PICK m : m = Head(toS)
  OBVIOUS
<1>3. m \in Msg /\ Rest(toS) \in Seq(Msg)
  BY <1>1, <1>2, RestType
<1>4. PICK a \in ServerSays(m) : \E x :
        /\ x = ServerRxRequest(New(config, TRUE), m, a)
        /\ s' = Settled(x)
        /\ toC' = toC \o x.tx /\ toS' = Rest(toS)
        /\ obj' = IF x.reset THEN "dead" ELSE "live"
        /\ entry' = IF x.reset THEN "dead" ELSE "live"
  BY <1>2 DEF ServerCreates
<1>5. PICK x :
        /\ x = ServerRxRequest(New(config, TRUE), m, a)
        /\ s' = Settled(x)
        /\ toC' = toC \o x.tx /\ toS' = Rest(toS)
        /\ obj' = IF x.reset THEN "dead" ELSE "live"
        /\ entry' = IF x.reset THEN "dead" ELSE "live"
  BY <1>4
<1>6. a \in App
  BY SaysApp
<1>7. PICK n : n = New(config, TRUE)
  OBVIOUS
<1>8. /\ n \in Half /\ n.fsm = "IDLE" /\ n.run = TRUE /\ n.reset = FALSE
      /\ n.toutNeg = FALSE /\ n.tx = <<>>
  BY <1>1, <1>7, NewHalf
<1>9. n.tx \in Seq(FromServer)
  <2>1. <<>> \in Seq(FromServer)
    OBVIOUS
  <2> QED BY <1>8, <2>1
<1>10. ServerGood(n)
  BY <1>8, <1>9 DEF ServerGood
<1>11. ServerGood(x)
  BY <1>1, <1>3, <1>5, <1>6, <1>7, <1>10, ServerRxRequestGood
<1>12. UNCHANGED <<c, config>>
  BY DEF ServerCreates
<1>13. ServerLeaves(x)
  BY <1>3, <1>5, <1>12 DEF ServerLeaves
<1> QED BY <1>11, <1>13, ServerLeavesInv

\* A timer of the server.
LEMMA ServerTimersInv ==
  ASSUME SessionInv, ServerExpires \/ ServerTimeout
  PROVE  SessionInv'
<1>0. /\ obj = "live" /\ ServerGood(s) /\ s.run /\ s \in Half /\ s.late \in SUBSET TimerEvent
      /\ toS \in Seq(Msg)
  BY DEF SessionInv, ServerGood, Half, ServerExpires, ServerTimeout
<1>1. CASE ServerExpires
  <2>1. PICK t \in TimerType : s.tm[t] # None /\ s' = [s EXCEPT !.late = @ \cup {s.tm[t]}]
    BY <1>1 DEF ServerExpires
  <2>2. PICK late : late = s.late \cup {s.tm[t]}
    OBVIOUS
  <2>3. s.tm[t] \in TimerEvent
    BY <1>0, <2>1 DEF Half, Timers
  <2>4. s' = [s EXCEPT !.late = late]
    BY <1>0, <2>1, <2>2 DEF Half
  <2>5. ServerGood(s') /\ s'.run
    <3>1. late \in SUBSET TimerEvent
      BY <1>0, <2>2, <2>3
    <3>2. ServerGood([s EXCEPT !.late = late])
      BY <1>0, <3>1, LateGood
    <3>3. [s EXCEPT !.late = late].run = s.run
      BY <1>0, <3>1, LateStill DEF Still
    <3> QED BY <1>0, <2>4, <3>2, <3>3
  <2>6. UNCHANGED <<c, obj, entry, toS, toC, config>>
    BY <1>1 DEF ServerExpires
  <2> QED BY <1>0, <2>5, <2>6 DEF SessionInv
<1>2. CASE ServerTimeout
  <2>1. PICK ev \in s.late, yes \in BOOLEAN :
          ServerStep(ServerFire([s EXCEPT !.late = @ \ {ev}], ev, None,
                                [Plain EXCEPT !.yes = yes]), toS)
    BY <1>2 DEF ServerTimeout
  <2>2. PICK late \in SUBSET TimerEvent : late = s.late \ {ev}
    BY <1>0
  <2>3. PICK x : x = [s EXCEPT !.late = late]
    OBVIOUS
  <2>4. PICK a : a = [Plain EXCEPT !.yes = yes]
    OBVIOUS
  <2>5. ServerStep(ServerFire(x, ev, None, a), toS)
    BY <1>0, <2>1, <2>2, <2>3, <2>4 DEF Half
  <2>6. ServerGood(x)
    BY <1>0, <2>3, LateGood
  <2>7. a \in App
    BY <2>4, SaysApp DEF App
  <2>8. ev \notin {"TX_SSAA", "TX_SSAR", "SSAR_OK"}
    BY <1>0, <2>1 DEF TimerEvent
  <2>9. ServerGood(ServerFire(x, ev, None, a))
    BY <2>6, <2>7, <2>8, ServerFireGood
  <2> QED BY <1>0, <2>5, <2>9, ServerStepInv
<1> QED BY <1>1, <1>2

\* What the network loses, what finds no session, and the collector.
LEMMA OthersInv ==
  ASSUME SessionInv, ServerDiscards \/ Collect \/ Lose
  PROVE  SessionInv'
<1>1. toS \in Seq(Msg) /\ toC \in Seq(FromServer)
  BY DEF SessionInv
<1>2. CASE ServerDiscards
  <2>1. toS' \in Seq(Msg)
    BY <1>1, <1>2, RestType DEF ServerDiscards
  <2> QED BY <1>2, <2>1 DEF ServerDiscards, SessionInv
<1>3. CASE Collect
  BY <1>3 DEF Collect, SessionInv
<1>4. CASE Lose
  <2>1. toS' \in Seq(Msg) /\ toC' \in Seq(FromServer)
    BY <1>1, <1>4, RestType DEF Lose
  <2> QED BY <1>4, <2>1 DEF Lose, SessionInv
<1> QED BY <1>2, <1>3, <1>4

----------------------------------------------------------------------------
(* The theorems.                                                           *)

\* Nothing is open before the first Begin().
LEMMA InitInv == Init => SessionInv
<1> SUFFICES ASSUME Init PROVE SessionInv
  OBVIOUS
<1>1. PICK st \in BOOLEAN : c = New(st, FALSE)
  BY DEF Init
<1>2. c \in Half /\ c.fsm = "IDLE"
  BY <1>1, NewHalf
<1>3. s.fsm = "IDLE"
  BY NewHalf DEF Init
<1>4. toS \in Seq(Msg) /\ toC \in Seq(FromServer)
  BY DEF Init
<1> QED BY <1>2, <1>3, <1>4, ClosedClientGood DEF Init, SessionInv

\* Every step keeps the invariant.
LEMMA NextInv == SessionInv /\ [Next]_vars => SessionInv'
<1> SUFFICES ASSUME SessionInv, [Next]_vars PROVE SessionInv'
  OBVIOUS
<1>1. CASE UNCHANGED vars
  BY <1>1 DEF vars, SessionInv, ClientGood, EndTimers, ServerGood, Reclaimable
<1>2. CASE Begin          BY <1>2, BeginInv
<1>3. CASE ClientSends    BY <1>3, ClientSendsInv
<1>4. CASE ClientEnds     BY <1>4, ClientEndsInv
<1>5. CASE ServerEnds \/ ServerReAuths \/ ServerSends
  BY <1>5, ServerCallsInv
<1>6. CASE ClientReceives BY <1>6, ClientReceivesInv
<1>7. CASE ServerReceives BY <1>7, ServerReceivesInv
<1>8. CASE ServerCreates  BY <1>8, ServerCreatesInv
<1>9. CASE ServerDiscards \/ Collect \/ Lose
  BY <1>9, OthersInv
<1>10. CASE ClientExpires \/ ClientTimeout
  BY <1>10, ClientTimersInv
<1>11. CASE ServerExpires \/ ServerTimeout
  BY <1>11, ServerTimersInv
<1> QED BY <1>1, <1>2, <1>3, <1>4, <1>5, <1>6, <1>7, <1>8, <1>9, <1>10, <1>11 DEF Next

\* The invariant holds in every state.
THEOREM AlwaysSessionInv == Spec => []SessionInv
<1> QED BY InitInv, NextInv, PTL DEF Spec

\* An open session has the timers that end it, at both ends, whatever Begin(),
\* answers, requests of the other end and late timer events do.
THEOREM AlwaysOpenExpires == Spec => []OpenExpires
<1>1. SessionInv => OpenExpires
  BY DEF SessionInv, OpenExpires, ClientGood, ServerGood
<1> QED BY <1>1, AlwaysSessionInv, PTL

\* A session without state that has answered has the timer that deletes it.
THEOREM AlwaysStatelessExpires == Spec => []StatelessExpires
<1>1. SessionInv => StatelessExpires
  BY DEF SessionInv, StatelessExpires, ServerGood, Reclaimable
<1> QED BY <1>1, AlwaysSessionInv, PTL
============================================================================
