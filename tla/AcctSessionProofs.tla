------------------------ MODULE AcctSessionProofs ------------------------
(***************************************************************************)
(* Theorems of AcctSession: one record is under way at a time, a success   *)
(* that the application is told of is a record the server stores, a record *)
(* that is not stored is reported, and an open session that is ended comes *)
(* to its end.  They hold for every bound and however the faults, the      *)
(* application, the receiver and the timers interleave.                    *)
(***************************************************************************)
EXTENDS AcctSession, FiniteSetTheorems, TLAPS

Asked    == {"REQUEST_ACCESS", "REQUEST_ONETIME_ACCESS", "REC_IN_STORAGE", "STOP", "INT_EXPIRE"}
Unsent   == {"FTS", "FTS_BUF", "FTS_NO_BUF", "FTS_NOT_DAG", "FTS_AND_GAL", "FTS_NOT_GAL"}
Transmit == {"TxACR", "InterimTimeout"}

----------------------------------------------------------------------------
(* The table.                                                              *)

\* What every row of the client's table respects: a record is sent on leaving
\* IDLE or OPEN for a pending state, Success() belongs to an answer, and what the
\* application and the timer ask for otherwise keeps the state.
LEMMA RowShape ==
  ASSUME NEW r \in ClientRows
  PROVE  /\ r[3] \in State
         /\ r[4] \in Transmit => r[1] \in {"IDLE", "OPEN"} /\ r[3] \in Pending
         /\ r[4] \in Transmit => r[2] \in Asked
         /\ r[4] = "RxACASuccess" => r[2] = "RX_ACA_OK"
         /\ r[2] \in Asked /\ r[4] \notin Transmit => r[3] = r[1]
<1> USE DEF State, Pending, Transmit, Asked
<1>1. CASE r \in ClientIdle        BY <1>1 DEF ClientIdle
<1>2. CASE r \in ClientPendingS    BY <1>2 DEF ClientPendingS
<1>3. CASE r \in ClientOpen        BY <1>3 DEF ClientOpen
<1>4. CASE r \in ClientPendingI    BY <1>4 DEF ClientPendingI
<1>5. CASE r \in ClientPendingEBL  BY <1>5 DEF ClientPendingEBL
<1> QED BY <1>1, <1>2, <1>3, <1>4, <1>5 DEF ClientRows

\* The table holds a row at its own state and event.
LEMMA TableRow ==
  ASSUME NEW st, NEW ev, <<st, ev>> \in DOMAIN ClientTable
  PROVE  /\ ClientTable[st, ev] \in ClientRows
         /\ ClientTable[st, ev][1] = st /\ ClientTable[st, ev][2] = ev
<1> DEFINE P(r) == <<st, ev>> = <<r[1], r[2]>>
<1>1. <<st, ev>> \in {<<r[1], r[2]>> : r \in ClientRows}
  BY DEF ClientTable
<1>2. PICK q \in ClientRows : P(q)
  BY <1>1
<1>3. ClientTable[st, ev] = CHOOSE r \in ClientRows : P(r)
  BY <1>1 DEF ClientTable
<1> HIDE DEF P
<1>4. ClientTable[st, ev] \in ClientRows /\ P(ClientTable[st, ev])
  BY <1>2, <1>3
<1> QED BY <1>4 DEF P
----------------------------------------------------------------------------
(* The operations of the client.                                           *)

\* An action that sends nothing keeps the state, the number and what is sent;
\* only RxACASuccess acknowledges, and then the current record.
LEMMA LeafKeeps ==
  ASSUME NEW x \in Client, NEW do, do = "RxACASuccess" => x.num # 0
  PROVE  LET y == ClientLeaf(x, do) IN
         /\ y \in Client /\ y.fsm = x.fsm /\ y.num = x.num /\ y.tx = x.tx
         /\ y.failed = x.failed
         /\ y.acked = IF do = "RxACASuccess" THEN x.acked \cup {x.num} ELSE x.acked
<1>1. CASE do = "RxACASuccess"
  <2> DEFINE tm == IF ~x.slot /\ x.type \in {"START", "INTERIM"} THEN "INT_EXPIRE" ELSE x.timer
  <2>1. /\ x.num \in 1..MaxRec
        /\ tm \in {"none", "INT_EXPIRE", "SESSION_TOUT"}
    BY <1>1, AcctSessionAssumption DEF Client
  <2>2. x.acked \cup {x.num} \in SUBSET (1..MaxRec)
    BY <2>1 DEF Client
  <2>3. ClientLeaf(x, do) =
          [x EXCEPT !.acked = x.acked \cup {x.num}, !.slot = FALSE, !.timer = tm]
    BY <1>1 DEF ClientLeaf, RxACASuccess, Client
  <2> HIDE DEF tm
  <2> QED BY <1>1, <2>1, <2>2, <2>3 DEF Client
<1>2. CASE do = "StoreRecord"
  BY <1>2 DEF ClientLeaf, Client
<1>3. CASE do \in {"StoreStopRecord", "StoreEventRecord"}
  BY <1>3 DEF ClientLeaf, Client
<1>4. CASE do \in {"StartIntTimer", "Disconnect", "DeleteRecord"}
  BY <1>4 DEF ClientLeaf, Client
<1>5. CASE do \notin {"RxACASuccess", "StoreRecord", "StoreStopRecord", "StoreEventRecord",
                      "StartIntTimer", "Disconnect", "DeleteRecord"}
  BY <1>5 DEF ClientLeaf
<1> QED BY <1>1, <1>2, <1>3, <1>4, <1>5

\* The failure of a transmission is not an answer.
LEMMA FailedToSendType ==
  ASSUME NEW x, NEW room
  PROVE  FailedToSend(x, room) \in Unsent
BY DEF FailedToSend, Unsent

\* What the machine does about it changes neither the number nor Success().
LEMMA NestedKeeps ==
  ASSUME NEW x \in Client, NEW ev \in Unsent
  PROVE  LET y == Nested(x, ev) IN
         /\ y \in Client /\ y.num = x.num /\ y.tx = x.tx /\ y.acked = x.acked
         /\ y.failed = x.failed
<1>1. CASE <<x.fsm, ev>> \notin DOMAIN ClientTable
  BY <1>1 DEF Nested
<1>2. CASE <<x.fsm, ev>> \in DOMAIN ClientTable
  <2> DEFINE r == ClientTable[x.fsm, ev]
             z == [x EXCEPT !.fsm = r[3]]
  <2>1. r \in ClientRows /\ r[2] = ev
    BY <1>2, TableRow
  <2>2. r[3] \in State /\ r[4] # "RxACASuccess"
    BY <2>1, RowShape DEF Unsent
  <2>3. z \in Client /\ z.num = x.num /\ z.tx = x.tx /\ z.acked = x.acked
        /\ z.failed = x.failed
    BY <2>2 DEF Client
  <2>4. Nested(x, ev) = ClientLeaf(z, r[4])
    BY <1>2 DEF Nested
  <2> DEFINE do == r[4]
  <2>5. do # "RxACASuccess"
    BY <2>2
  <2> HIDE DEF z, do
  <2>6. LET y == ClientLeaf(z, do) IN
        y \in Client /\ y.num = z.num /\ y.tx = z.tx /\ y.acked = z.acked /\ y.failed = z.failed
    BY <2>3, <2>5, LeafKeeps
  <2> QED BY <2>3, <2>4, <2>6 DEF do
<1> QED BY <1>1, <1>2

\* TxACR(): what was sent is the one record of the new number; what was refused
\* is not sent.
LEMMA TxACRSends ==
  ASSUME NEW x \in Client, x.tx = {}, x.num < MaxRec, NEW sent \in BOOLEAN, NEW room
  PROVE  LET y == TxACR(x, sent, room) IN
         /\ y \in Client /\ y.num = x.num + 1 /\ y.acked = x.acked
         /\ sent => y.fsm = x.fsm /\ \E m \in Msg : y.tx = {m} /\ m.num = y.num /\ m.cmd = "ACR"
         /\ ~sent => y.tx = {}
         /\ y.failed = IF sent THEN x.failed ELSE x.failed + 1
<1> DEFINE z == [x EXCEPT !.num = x.num + 1, !.timer = "none"]
           m == [cmd |-> "ACR", type |-> z.type, num |-> z.num, ok |-> TRUE, rt |-> z.rt]
           w == Nested(z, FailedToSend(z, room))
<1>1. x.num + 1 \in 1..MaxRec /\ x.num + 1 \in 0..MaxRec
  BY AcctSessionAssumption DEF Client
<1>2. /\ z \in Client /\ z.num = x.num + 1 /\ z.acked = x.acked /\ z.tx = {} /\ z.fsm = x.fsm
      /\ z.failed = x.failed
      /\ z.num \in 1..MaxRec /\ z.type \in RecType /\ z.rt \in Realtime
  BY <1>1 DEF Client
<1>3. m \in Msg /\ m.num = z.num /\ m.cmd = "ACR" /\ Record(z) = m
  BY <1>2 DEF Msg, Record
<1>4. TxACR(x, sent, room) = IF sent THEN [z EXCEPT !.tx = {Record(z)}]
                             ELSE [w EXCEPT !.failed = w.failed + 1]
  BY DEF TxACR, Client
<1> HIDE DEF z, m
<1>5. CASE sent
  <2>1. TxACR(x, sent, room) = [z EXCEPT !.tx = {m}]
    BY <1>3, <1>4, <1>5
  <2>2. {m} \in SUBSET Msg
    BY <1>3
  <2> DEFINE y == [z EXCEPT !.tx = {m}]
  <2>3. y \in Client /\ y.num = z.num /\ y.acked = z.acked /\ y.fsm = z.fsm /\ y.tx = {m}
        /\ y.failed = z.failed
    BY <1>2, <2>2 DEF Client
  <2> QED BY <1>2, <1>3, <1>5, <2>1, <2>3
<1>6. CASE ~sent
  <2>1. w \in Client /\ w.num = z.num /\ w.tx = z.tx /\ w.acked = z.acked /\ w.failed = z.failed
    BY <1>2, FailedToSendType, NestedKeeps
  <2> HIDE DEF w
  <2>2. w.failed + 1 \in Nat
    BY <2>1 DEF Client
  <2> DEFINE y == [w EXCEPT !.failed = w.failed + 1]
  <2>3. y \in Client /\ y.num = w.num /\ y.acked = w.acked /\ y.tx = w.tx
        /\ y.failed = w.failed + 1
    BY <2>1, <2>2 DEF Client
  <2>4. TxACR(x, sent, room) = y
    BY <1>4, <1>6
  <2> HIDE DEF y
  <2> QED BY <1>2, <1>6, <2>1, <2>3, <2>4
<1> QED BY <1>5, <1>6

\* One event of the machine, by whether it sends.
LEMMA FireSends ==
  ASSUME NEW x \in Client, x.tx = {}, NEW ev, NEW sent \in BOOLEAN, NEW room,
         NEW type \in RecType, Sends(x, ev), x.num < MaxRec
  PROVE  LET y == Fire(x, ev, sent, room, type) IN
         /\ x.fsm \in {"IDLE", "OPEN"} /\ ev \in Asked
         /\ y \in Client /\ y.num = x.num + 1 /\ y.acked = x.acked
         /\ sent => /\ y.fsm \in Pending
                    /\ \E m \in Msg : y.tx = {m} /\ m.num = y.num /\ m.cmd = "ACR"
         /\ ~sent => y.tx = {}
         /\ y.failed = IF sent THEN x.failed ELSE x.failed + 1
<1> DEFINE r == ClientTable[x.fsm, ev]
           z == [x EXCEPT !.fsm = r[3]]
           v == [z EXCEPT !.type = type]
<1>0. <<x.fsm, ev>> \in DOMAIN ClientTable
  BY DEF Sends
<1>1. r[4] \in Transmit
  BY DEF Sends, Transmit
<1>2. r \in ClientRows /\ r[1] = x.fsm /\ r[2] = ev
  <2> DEFINE st == x.fsm
  <2>1. <<st, ev>> \in DOMAIN ClientTable
    BY <1>0
  <2> HIDE DEF st
  <2>2. ClientTable[st, ev] \in ClientRows /\ ClientTable[st, ev][1] = st /\ ClientTable[st, ev][2] = ev
    BY <2>1, TableRow
  <2> QED BY <2>2 DEF st
<1>3. r[3] \in State /\ r[3] \in Pending /\ x.fsm \in {"IDLE", "OPEN"} /\ ev \in Asked
  BY <1>1, <1>2, RowShape
<1>4. z \in Client /\ z.num = x.num /\ z.acked = x.acked /\ z.tx = {} /\ z.fsm \in Pending
      /\ z.failed = x.failed
  BY <1>3 DEF Client
<1>5. v \in Client /\ v.num = x.num /\ v.acked = x.acked /\ v.tx = {} /\ v.fsm \in Pending
      /\ v.failed = x.failed
  BY <1>4 DEF Client
<1>6. Fire(x, ev, sent, room, type) = TxACR(z, sent, room)
      \/ Fire(x, ev, sent, room, type) = TxACR(v, sent, room)
  BY <1>0, <1>1 DEF Fire, Transmit
<1> HIDE DEF z, v, r
<1>7. LET y == TxACR(z, sent, room) IN
      /\ y \in Client /\ y.num = x.num + 1 /\ y.acked = x.acked
      /\ sent => y.fsm = z.fsm /\ \E m \in Msg : y.tx = {m} /\ m.num = y.num /\ m.cmd = "ACR"
      /\ ~sent => y.tx = {}
      /\ y.failed = IF sent THEN x.failed ELSE x.failed + 1
  BY <1>4, TxACRSends
<1>8. LET y == TxACR(v, sent, room) IN
      /\ y \in Client /\ y.num = x.num + 1 /\ y.acked = x.acked
      /\ sent => y.fsm = v.fsm /\ \E m \in Msg : y.tx = {m} /\ m.num = y.num /\ m.cmd = "ACR"
      /\ ~sent => y.tx = {}
      /\ y.failed = IF sent THEN x.failed ELSE x.failed + 1
  BY <1>5, TxACRSends
<1> QED BY <1>3, <1>4, <1>5, <1>6, <1>7, <1>8

\* One event of the machine that does not send.
LEMMA FireSilent ==
  ASSUME NEW x \in Client, NEW ev, NEW sent, NEW room, NEW type,
         ~Sends(x, ev), ev = "RX_ACA_OK" => x.num # 0
  PROVE  LET y == Fire(x, ev, sent, room, type) IN
         /\ y \in Client /\ y.num = x.num /\ y.tx = x.tx /\ y.failed = x.failed
         /\ ev \in Asked => y.fsm = x.fsm
         /\ y.acked = x.acked \/ (ev = "RX_ACA_OK" /\ y.acked = x.acked \cup {x.num})
<1>1. CASE <<x.fsm, ev>> \notin DOMAIN ClientTable
  BY <1>1 DEF Fire
<1>2. CASE <<x.fsm, ev>> \in DOMAIN ClientTable
  <2> DEFINE r == ClientTable[x.fsm, ev]
             do == r[4]
             z == [x EXCEPT !.fsm = r[3]]
             y == ClientLeaf(z, do)
  <2>1. r \in ClientRows /\ r[1] = x.fsm /\ r[2] = ev /\ do \notin Transmit
    BY <1>2, TableRow DEF Sends, Transmit
  <2>2. /\ r[3] \in State
        /\ do = "RxACASuccess" => ev = "RX_ACA_OK"
        /\ ev \in Asked => r[3] = x.fsm
    BY <2>1, RowShape
  <2>3. z \in Client /\ z.num = x.num /\ z.tx = x.tx /\ z.acked = x.acked /\ z.fsm = r[3]
        /\ z.failed = x.failed
    BY <2>2 DEF Client
  <2>4. Fire(x, ev, sent, room, type) = y
    BY <1>2, <2>1 DEF Fire, Transmit
  <2> HIDE DEF z, do, r
  <2>5. /\ y \in Client /\ y.fsm = z.fsm /\ y.num = z.num /\ y.tx = z.tx /\ y.failed = z.failed
        /\ y.acked = IF do = "RxACASuccess" THEN z.acked \cup {z.num} ELSE z.acked
    BY <2>2, <2>3, LeafKeeps
  <2> HIDE DEF y
  <2> QED BY <2>2, <2>3, <2>4, <2>5
<1> QED BY <1>1, <1>2

\* A step of the machine: it sends nothing, is refused, or sends one record of a
\* new number, and the latter two from IDLE and OPEN only.
LEMMA NotifyStep ==
  ASSUME NEW x \in Client, x.tx = {}, NEW ev, ev = "RX_ACA_OK" => x.num # 0,
         net \subseteq Msg, faults \in 0..MaxFaults, excuse \in BOOLEAN, Notify(x, ev)
  PROVE  /\ c' \in Client /\ c'.tx = {} /\ net' \subseteq Msg
         /\ faults' \in 0..MaxFaults /\ excuse' \in BOOLEAN
         /\ \/ /\ net' = net /\ c'.num = x.num /\ (ev \in Asked => c'.fsm = x.fsm)
               /\ c'.failed = x.failed
            \/ /\ net' = net /\ x.fsm \in {"IDLE", "OPEN"} /\ ev \in Asked
               /\ c'.num = x.num + 1 /\ c'.failed = x.failed + 1
            \/ /\ x.fsm \in {"IDLE", "OPEN"} /\ ev \in Asked
               /\ c'.fsm \in Pending /\ c'.num # 0
               /\ c'.num = x.num + 1 /\ c'.failed = x.failed
               /\ \E m \in Msg : net' = net \cup {m} /\ m.num = c'.num /\ m.cmd = "ACR"
         /\ c'.acked = x.acked \/ (ev = "RX_ACA_OK" /\ c'.acked = x.acked \cup {x.num})
<1>1. PICK sent \in BOOLEAN, room \in BOOLEAN, type \in {"INTERIM", x.type} :
        /\ Sends(x, ev) => x.num < MaxRec
        /\ sent \/ (Sends(x, ev) /\ faults < MaxFaults)
        /\ c' = [Fire(x, ev, sent, room, type) EXCEPT !.tx = {}]
        /\ net' = net \cup Fire(x, ev, sent, room, type).tx
        /\ faults' = IF sent THEN faults ELSE faults + 1
        /\ excuse' = (excuse \/ ~sent)
  BY Zenon DEF Notify
<1> DEFINE y == Fire(x, ev, sent, room, type)
<1>2. type \in RecType
  BY DEF Client, RecType
<1>3. faults' \in 0..MaxFaults
  BY <1>1, AcctSessionAssumption
<1>4. excuse' \in BOOLEAN
  BY <1>1
<1>5. ASSUME y \in Client
      PROVE  c' \in Client /\ c'.tx = {} /\ c'.num = y.num /\ c'.fsm = y.fsm /\ c'.acked = y.acked
      /\ c'.failed = y.failed
  <2> HIDE DEF y
  <2>1. c' = [y EXCEPT !.tx = {}]
    BY <1>1 DEF y
  <2> QED BY <1>5, <2>1 DEF Client
<1>6. CASE Sends(x, ev)
  <2>1. /\ x.fsm \in {"IDLE", "OPEN"} /\ ev \in Asked
        /\ y \in Client /\ y.num = x.num + 1 /\ y.acked = x.acked
        /\ sent => /\ y.fsm \in Pending
                   /\ \E m \in Msg : y.tx = {m} /\ m.num = y.num /\ m.cmd = "ACR"
        /\ ~sent => y.tx = {}
        /\ y.failed = IF sent THEN x.failed ELSE x.failed + 1
    BY <1>1, <1>2, <1>6, FireSends
  <2>2. c' \in Client /\ c'.tx = {} /\ c'.num = y.num /\ c'.fsm = y.fsm /\ c'.acked = y.acked
      /\ c'.failed = y.failed
    BY <1>5, <2>1
  <2>3. net' = net \cup y.tx
    BY <1>1
  <2> HIDE DEF y
  <2>4. CASE sent
    <3>1. PICK m \in Msg : y.tx = {m} /\ m.num = y.num /\ m.cmd = "ACR"
      BY <2>1, <2>4
    <3>2. c'.num # 0
      BY <2>1, <2>2 DEF Client
    <3>3. net' = net \cup {m} /\ net' \subseteq Msg
      BY <2>3, <3>1
    <3> QED BY <1>3, <1>4, <2>1, <2>2, <2>4, <3>1, <3>2, <3>3
  <2>5. CASE ~sent
    <3>1. net' = net
      BY <2>1, <2>3, <2>5
    <3>2. c'.num = x.num + 1 /\ c'.failed = x.failed + 1
      BY <2>1, <2>2, <2>5
    <3> QED BY <1>3, <1>4, <2>1, <2>2, <3>1, <3>2
  <2> QED BY <2>4, <2>5
<1>7. CASE ~Sends(x, ev)
  <2>1. /\ y \in Client /\ y.num = x.num /\ y.tx = x.tx /\ y.failed = x.failed
        /\ ev \in Asked => y.fsm = x.fsm
        /\ y.acked = x.acked \/ (ev = "RX_ACA_OK" /\ y.acked = x.acked \cup {x.num})
    BY <1>7, FireSilent
  <2>2. c' \in Client /\ c'.tx = {} /\ c'.num = y.num /\ c'.fsm = y.fsm /\ c'.acked = y.acked
      /\ c'.failed = y.failed
    BY <1>5, <2>1
  <2>3. net' = net
    BY <1>1, <2>1
  <2> HIDE DEF y
  <2> QED BY <1>3, <1>4, <2>1, <2>2, <2>3
<1> QED BY <1>6, <1>7
----------------------------------------------------------------------------
(* The inductive invariant.  The client waits for one answer in a pending  *)
(* state; what it is told, on the way or at its receiver, is true.         *)

Waiting == net # {} \/ rx \in Answer
OneUnderWay == /\ \A m, k \in net : m = k
               /\ rx \in Answer => net = {}
WaitsPending == Waiting => c.fsm \in Pending /\ c.num # 0
TrueAnswers == /\ \A m \in net : /\ m.num = c.num
                                 /\ m.cmd = "ACA" /\ m.ok => IsStored(m.num)
               /\ rx = "RX_ACA_OK" => IsStored(c.num)
TrueSuccess == \A n \in c.acked : IsStored(n)

IInv == TypeOK /\ OneUnderWay /\ WaitsPending /\ TrueAnswers /\ TrueSuccess

LEMMA IInvHonest ==
  ASSUME IInv
  PROVE  Honest
<1>1. \A n \in c.acked : IsStored(n)
  BY DEF IInv, TrueSuccess
<1>2. CASE net = {}
  <2>1. Cardinality(net) = 0
    BY <1>2, FS_EmptySet
  <2> QED BY <1>1, <2>1 DEF Honest
<1>3. CASE net # {}
  <2>1. PICK m \in net : TRUE
    BY <1>3
  <2>2. net = {m}
    BY <2>1 DEF IInv, OneUnderWay
  <2>3. Cardinality(net) = 1
    BY <2>2, FS_Singleton
  <2>4. rx \notin Answer
    BY <1>3 DEF IInv, OneUnderWay
  <2> QED BY <1>1, <2>3, <2>4 DEF Honest
<1> QED BY <1>2, <1>3

LEMMA InitIInv ==
  ASSUME Init
  PROVE  IInv
<1>1. c \in Client /\ c.tx = {} /\ c.acked = {}
  <2>1. PICK slot \in BOOLEAN, rt \in Realtime :
          c = [fsm |-> "IDLE", type |-> "EVENT", num |-> 0, rt |-> rt, timer |-> "none",
               late |-> FALSE, slot |-> slot, tx |-> {}, failed |-> 0, acked |-> {}]
    BY DEF Init
  <2> QED BY <2>1, AcctSessionAssumption DEF Client, State, RecType
<1>2. s \in Server
  BY DEF Init, Server, NoSession
<1>3. serverRt \in Realtime /\ stateful \in BOOLEAN
  BY DEF Init, Realtime
<1>4. ending \in BOOLEAN /\ excuse \in BOOLEAN /\ ended \in {"no", "yes", "late"}
  BY DEF Init
<1>5. begins \in 0..MaxBegin /\ faults \in 0..MaxFaults
  BY AcctSessionAssumption DEF Init
<1>6. TypeOK
  BY <1>1, <1>2, <1>3, <1>4, <1>5 DEF Init, TypeOK
<1> QED BY <1>1, <1>6 DEF Init, IInv, OneUnderWay, WaitsPending, Waiting, TrueAnswers, TrueSuccess, Answer

\* A step of the machine under the invariant.  The receiver's notification is
\* consumed by it; the application and the timer may ask at any time.
LEMMA MachineStep ==
  ASSUME IInv, NEW x \in Client, NEW ev, Notify(x, ev),
         x.tx = {}, x.fsm = c.fsm, x.num = c.num, x.acked = c.acked,
         \/ ev \in Asked /\ rx' = rx
         \/ ev = rx /\ rx \in Answer /\ rx' \notin Answer,
         stored' = stored
  PROVE  /\ c' \in Client /\ c'.tx = {} /\ net' \subseteq Msg
         /\ faults' \in 0..MaxFaults /\ excuse' \in BOOLEAN
         /\ (OneUnderWay /\ WaitsPending /\ TrueAnswers /\ TrueSuccess)'
<1> USE DEF IInv
<1>0. ev = "RX_ACA_OK" => x.num # 0 /\ IsStored(x.num)
  BY DEF WaitsPending, Waiting, TrueAnswers, Answer, Asked
<1>1. net \subseteq Msg /\ faults \in 0..MaxFaults /\ excuse \in BOOLEAN
  BY DEF TypeOK
<1>2. /\ c' \in Client /\ c'.tx = {} /\ net' \subseteq Msg
      /\ faults' \in 0..MaxFaults /\ excuse' \in BOOLEAN
      /\ \/ net' = net /\ c'.num = x.num /\ (ev \in Asked => c'.fsm = x.fsm)
         \/ net' = net /\ x.fsm \in {"IDLE", "OPEN"} /\ ev \in Asked
         \/ /\ x.fsm \in {"IDLE", "OPEN"} /\ ev \in Asked
            /\ c'.fsm \in Pending /\ c'.num # 0
            /\ \E m \in Msg : net' = net \cup {m} /\ m.num = c'.num /\ m.cmd = "ACR"
      /\ c'.acked = x.acked \/ (ev = "RX_ACA_OK" /\ c'.acked = x.acked \cup {x.num})
  BY <1>0, <1>1, NotifyStep
<1>3. \A n : IsStored(n)' = IsStored(n)
  BY DEF IsStored
<1>4. TrueSuccess'
  BY <1>0, <1>2, <1>3 DEF TrueSuccess
<1>5. CASE net' = net /\ c'.num = x.num /\ (ev \in Asked => c'.fsm = x.fsm)
  BY <1>2, <1>3, <1>4, <1>5 DEF OneUnderWay, WaitsPending, Waiting, TrueAnswers, Answer
<1>6. CASE x.fsm \in {"IDLE", "OPEN"} /\ ev \in Asked
  <2>1. ~Waiting /\ rx' = rx
    BY <1>6 DEF WaitsPending, Pending, Asked, Answer
  <2>2. net = {} /\ rx' \notin Answer
    BY <2>1 DEF Waiting
  <2>3. CASE net' = net
    BY <1>2, <1>4, <2>2, <2>3 DEF OneUnderWay, WaitsPending, Waiting, TrueAnswers, Answer
  <2>4. ASSUME NEW m \in Msg, net' = net \cup {m}, m.num = c'.num, m.cmd = "ACR",
               c'.fsm \in Pending, c'.num # 0
        PROVE  (OneUnderWay /\ WaitsPending /\ TrueAnswers)'
    BY <2>2, <2>4 DEF OneUnderWay, WaitsPending, Waiting, TrueAnswers, Answer
  <2> QED BY <1>2, <1>4, <1>6, <2>3, <2>4, <1>5
<1> QED BY <1>2, <1>5, <1>6

\* What a step may store is a record it takes from the network; nothing is
\* removed, so that what was stored stays so.
LEMMA StillStored ==
  ASSUME stored \subseteq stored', NEW n, IsStored(n)
  PROVE  IsStored(n)'
BY DEF IsStored

\* The server answers a record by that record, and with success when it has it.
LEMMA ServerStep ==
  ASSUME IInv, RxRequest
  PROVE  /\ s' \in Server /\ net' \subseteq Msg /\ stored' \subseteq RecType \X (1..MaxRec)
         /\ stored \subseteq stored' /\ excuse' \in BOOLEAN
         /\ \E m \in net :
              \/ net' = net \ {m}
              \/ \E a \in Msg : /\ net' = (net \ {m}) \cup {a} /\ a.num = m.num
                                /\ a.cmd = "ACA" /\ a.ok => <<a.type, a.num>> \in stored'
<1> USE DEF IInv
<1>1. PICK m \in net, spare \in BOOLEAN, more \in BOOLEAN :
        /\ m.cmd = "ACR" /\ (more => spare)
        /\ CASE stateful /\ spare  -> Takes(m)
             [] stateful /\ ~spare -> OutOfSpace(m)
             [] OTHER              -> Passes(m, spare, more)
        /\ excuse' = (excuse \/ ~more)
  BY Zenon DEF RxRequest
<1> DEFINE a(ok) == [m EXCEPT !.cmd = "ACA", !.ok = ok, !.rt = serverRt]
<1>2. /\ m \in Msg /\ s \in Server /\ serverRt \in Realtime /\ stored \subseteq RecType \X (1..MaxRec)
      /\ excuse \in BOOLEAN /\ net \subseteq Msg
  BY DEF TypeOK
<1>3. excuse' \in BOOLEAN
  BY <1>1
<1>4. \A ok \in BOOLEAN : /\ a(ok) \in Msg /\ a(ok).num = m.num /\ a(ok).type = m.type
                          /\ a(ok).ok = ok
  BY <1>2 DEF Msg
<1>5. \A ok \in BOOLEAN : Answered(m, ok) = (net \ {m}) \cup {a(ok)}
  BY DEF Answered
<1>6. Stores(m) = stored \cup {<<m.type, m.num>>} /\ <<m.type, m.num>> \in RecType \X (1..MaxRec)
  BY <1>2 DEF Stores, Msg
<1> HIDE DEF a
<1>7. Reset \in Server /\ Opens \in Server /\ [s EXCEPT !.obj = "live"] \in Server
      /\ [NoSession EXCEPT !.obj = "live"] \in Server
  BY <1>2 DEF Reset, Opens, NoSession, Server
<1>8. CASE stateful /\ spare
  <2>1. Takes(m)
    BY <1>1, <1>8
  <2> DEFINE ignored == ~s.open /\ m.type \in {"INTERIM", "STOP"}
  <2>2. /\ s' \in Server
        /\ stored' = IF ignored THEN stored ELSE Stores(m)
        /\ net' = IF ignored THEN net \ {m} ELSE Answered(m, TRUE)
    BY <2>1, <1>7, <1>2 DEF Takes
  <2>3. CASE ignored
    BY <1>2, <1>3, <2>2, <2>3
  <2>4. CASE ~ignored
    <3>1. stored' = stored \cup {<<m.type, m.num>>} /\ net' = (net \ {m}) \cup {a(TRUE)}
      BY <1>5, <1>6, <2>2, <2>4
    <3> QED BY <1>2, <1>3, <1>4, <1>6, <2>2, <3>1
  <2> QED BY <2>3, <2>4
<1>9. CASE stateful /\ ~spare
  <2>1. s' = Reset /\ net' = (net \ {m}) \cup {a(FALSE)} /\ stored' = stored
    BY <1>1, <1>5, <1>9 DEF OutOfSpace
  <2> QED BY <1>2, <1>3, <1>4, <1>7, <2>1
<1>10. CASE ~stateful
  <2>1. /\ s' = [NoSession EXCEPT !.obj = "live"]
        /\ stored' = IF spare THEN Stores(m) ELSE stored
        /\ net' = (net \ {m}) \cup {a(more)}
    BY <1>1, <1>5, <1>10 DEF Passes
  <2>2. CASE spare
    <3>1. stored' = stored \cup {<<m.type, m.num>>}
      BY <1>6, <2>1, <2>2
    <3> QED BY <1>2, <1>3, <1>4, <1>6, <1>7, <2>1, <3>1
  <2>3. CASE ~spare
    <3>1. more = FALSE /\ stored' = stored
      BY <1>1, <2>1, <2>3
    <3> QED BY <1>2, <1>3, <1>4, <1>7, <2>1, <3>1
  <2> QED BY <2>2, <2>3
<1> QED BY <1>8, <1>9, <1>10
----------------------------------------------------------------------------
(* Every step keeps the invariant.                                         *)

\* A step that leaves the messages alone, or loses some, and neither sends nor
\* is told an answer.
LEMMA QuietStep ==
  ASSUME IInv, TypeOK', net' \subseteq net, stored \subseteq stored',
         c'.num = c.num, c'.fsm = c.fsm, c'.acked = c.acked,
         rx' = rx \/ rx' \notin Answer
  PROVE  IInv'
<1> USE DEF IInv
<1>1. OneUnderWay'
  BY DEF OneUnderWay
<1>2. WaitsPending'
  BY DEF WaitsPending, Waiting
<1>3. TrueAnswers'
  BY StillStored DEF TrueAnswers, Answer
<1>4. TrueSuccess'
  BY StillStored DEF TrueSuccess
<1> QED BY <1>1, <1>2, <1>3, <1>4

LEMMA StepIInv ==
  ASSUME IInv, [Next]_vars
  PROVE  IInv'
<1>1. /\ c \in Client /\ c.tx = {} /\ s \in Server /\ net \subseteq Msg
      /\ stored \subseteq RecType \X (1..MaxRec)
      /\ stateful \in BOOLEAN /\ serverRt \in Realtime
      /\ ending \in BOOLEAN /\ rx \in Answer \cup {"none", "failed"}
      /\ ended \in {"no", "yes", "late"} /\ excuse \in BOOLEAN
      /\ begins \in 0..MaxBegin /\ faults \in 0..MaxFaults
  BY DEF IInv, TypeOK
<1>2. CASE Begin
  <2>1. PICK rt \in {c.rt, "GRANT_AND_LOSE"}, type \in {c.type, "EVENT", "START"}, ev \in Asked :
          Notify([c EXCEPT !.rt = rt, !.type = type], ev)
    <3>1. PICK oneTime \in BOOLEAN, rt \in {c.rt, "GRANT_AND_LOSE"} :
            IF c.slot THEN Notify([c EXCEPT !.rt = rt], "REC_IN_STORAGE")
            ELSE IF oneTime
            THEN Notify([c EXCEPT !.rt = rt, !.type = "EVENT"], "REQUEST_ONETIME_ACCESS")
            ELSE Notify([c EXCEPT !.rt = rt, !.type = "START"], "REQUEST_ACCESS")
      BY <1>2, Zenon DEF Begin
    <3>2. [c EXCEPT !.rt = rt] = [c EXCEPT !.rt = rt, !.type = c.type]
      BY <1>1 DEF Client
    <3> QED BY <3>1, <3>2 DEF Asked
  <2> DEFINE x == [c EXCEPT !.rt = rt, !.type = type]
  <2>2. x \in Client /\ x.tx = {} /\ x.fsm = c.fsm /\ x.num = c.num /\ x.acked = c.acked
    BY <1>1 DEF Client, Realtime, RecType
  <2>3. /\ begins' = begins + 1 /\ begins < MaxBegin /\ ended' = "no"
        /\ UNCHANGED <<s, stored, stateful, serverRt, ending, rx>>
    BY <1>2 DEF Begin
  <2>4. begins' \in 0..MaxBegin
    BY <1>1, <2>3, AcctSessionAssumption
  <2> HIDE DEF x
  <2>5. /\ c' \in Client /\ c'.tx = {} /\ net' \subseteq Msg
        /\ faults' \in 0..MaxFaults /\ excuse' \in BOOLEAN
        /\ (OneUnderWay /\ WaitsPending /\ TrueAnswers /\ TrueSuccess)'
    BY <2>1, <2>2, <2>3, MachineStep DEF x
  <2> QED BY <1>1, <2>3, <2>4, <2>5 DEF IInv, TypeOK
<1>3. CASE End
  <2>1. /\ c' = [c EXCEPT !.type = "STOP", !.timer = "none"] /\ ending' = TRUE
        /\ UNCHANGED <<s, net, stored, stateful, serverRt, rx, ended, excuse, begins, faults>>
    BY <1>3 DEF End
  <2>2. c' \in Client /\ c'.tx = {} /\ c'.num = c.num /\ c'.fsm = c.fsm /\ c'.acked = c.acked
    BY <1>1, <2>1 DEF Client, RecType
  <2>3. TypeOK'
    BY <1>1, <2>1, <2>2 DEF TypeOK
  <2> QED BY <2>1, <2>2, <2>3, QuietStep
<1>4. CASE EndNotifies
  <2>1. /\ Notify(c, "STOP") /\ ending' = FALSE /\ ended' \in {"yes", "late"}
        /\ UNCHANGED <<s, stored, stateful, serverRt, rx, begins>>
    BY <1>4 DEF EndNotifies
  <2>2. /\ c' \in Client /\ c'.tx = {} /\ net' \subseteq Msg
        /\ faults' \in 0..MaxFaults /\ excuse' \in BOOLEAN
        /\ (OneUnderWay /\ WaitsPending /\ TrueAnswers /\ TrueSuccess)'
    BY <1>1, <2>1, MachineStep DEF Asked
  <2> QED BY <1>1, <2>1, <2>2 DEF IInv, TypeOK
<1>5. CASE RxAnswer
  <2>1. PICK m \in net : /\ m.cmd = "ACA" /\ rx = "none"
                         /\ c' = [c EXCEPT !.type = m.type, !.rt = m.rt]
                         /\ rx' = Notification(c', m) /\ net' = net \ {m}
    BY <1>5, Zenon DEF RxAnswer
  <2>2. UNCHANGED <<s, stored, stateful, serverRt, ending, ended, excuse, begins, faults>>
    BY <1>5 DEF RxAnswer
  <2>3. m \in Msg
    BY <1>1
  <2>4. c' \in Client /\ c'.tx = {} /\ c'.num = c.num /\ c'.fsm = c.fsm /\ c'.acked = c.acked
    BY <1>1, <2>1, <2>3 DEF Client, Msg
  <2>5. rx' \in Answer /\ (rx' = "RX_ACA_OK" => m.ok)
    BY <2>1 DEF Notification, Answer
  <2>6. TypeOK'
    BY <1>1, <2>1, <2>2, <2>4, <2>5 DEF TypeOK
  <2>7. net' = {}
    BY <2>1 DEF IInv, OneUnderWay
  <2>8. \A n : IsStored(n)' = IsStored(n)
    BY <2>2 DEF IsStored
  <2>9. OneUnderWay' /\ WaitsPending' /\ TrueSuccess'
    BY <2>1, <2>4, <2>7, <2>8 DEF IInv, OneUnderWay, WaitsPending, Waiting, TrueSuccess
  <2>10. TrueAnswers'
    BY <2>1, <2>4, <2>5, <2>7, <2>8 DEF IInv, TrueAnswers
  <2> QED BY <2>6, <2>9, <2>10 DEF IInv
<1>6. CASE RxNotifies
  <2>1. /\ rx \in Answer /\ Notify(c, rx) /\ rx' \in {"none", "failed"}
        /\ UNCHANGED <<s, stored, stateful, serverRt, ending, ended, begins>>
    BY <1>6 DEF RxNotifies
  <2>2. rx' \notin Answer
    BY <2>1 DEF Answer
  <2>3. /\ c' \in Client /\ c'.tx = {} /\ net' \subseteq Msg
        /\ faults' \in 0..MaxFaults /\ excuse' \in BOOLEAN
        /\ (OneUnderWay /\ WaitsPending /\ TrueAnswers /\ TrueSuccess)'
    BY <1>1, <2>1, <2>2, MachineStep
  <2> QED BY <1>1, <2>1, <2>3 DEF IInv, TypeOK
<1>7. CASE RxReports
  <2>1. /\ c' = [c EXCEPT !.failed = c.failed + 1] /\ rx' = "none"
        /\ UNCHANGED <<s, net, stored, stateful, serverRt, ending, ended, excuse, begins, faults>>
    BY <1>7 DEF RxReports
  <2>2. c.failed + 1 \in Nat
    BY <1>1 DEF Client
  <2>3. c' \in Client /\ c'.tx = {} /\ c'.num = c.num /\ c'.fsm = c.fsm /\ c'.acked = c.acked
    BY <1>1, <2>1, <2>2 DEF Client
  <2>4. TypeOK'
    BY <1>1, <2>1, <2>3 DEF TypeOK
  <2> QED BY <2>1, <2>3, <2>4, QuietStep DEF Answer
<1>8. CASE IntervalExpires
  <2>1. /\ c' = [c EXCEPT !.late = TRUE]
        /\ UNCHANGED <<s, net, stored, stateful, serverRt, ending, rx, ended, excuse, begins, faults>>
    BY <1>8 DEF IntervalExpires
  <2>2. c' \in Client /\ c'.tx = {} /\ c'.num = c.num /\ c'.fsm = c.fsm /\ c'.acked = c.acked
    BY <1>1, <2>1 DEF Client
  <2>3. TypeOK'
    BY <1>1, <2>1, <2>2 DEF TypeOK
  <2> QED BY <2>1, <2>2, <2>3, QuietStep
<1>9. CASE InterimTimeout
  <2> DEFINE x == [c EXCEPT !.late = FALSE]
  <2>1. /\ Notify(x, "INT_EXPIRE") /\ ended' \in {"late", ended}
        /\ UNCHANGED <<s, stored, stateful, serverRt, ending, rx, begins>>
    BY <1>9 DEF InterimTimeout
  <2>2. x \in Client /\ x.tx = {} /\ x.fsm = c.fsm /\ x.num = c.num /\ x.acked = c.acked
    BY <1>1 DEF Client
  <2> HIDE DEF x
  <2>3. /\ c' \in Client /\ c'.tx = {} /\ net' \subseteq Msg
        /\ faults' \in 0..MaxFaults /\ excuse' \in BOOLEAN
        /\ (OneUnderWay /\ WaitsPending /\ TrueAnswers /\ TrueSuccess)'
    BY <2>1, <2>2, MachineStep DEF Asked
  <2> QED BY <1>1, <2>1, <2>3 DEF IInv, TypeOK
<1>10. CASE RxRequest
  <2>1. /\ s' \in Server /\ net' \subseteq Msg /\ stored' \subseteq RecType \X (1..MaxRec)
        /\ stored \subseteq stored' /\ excuse' \in BOOLEAN
    BY <1>10, ServerStep
  <2>2. UNCHANGED <<c, stateful, serverRt, ending, rx, ended, begins, faults>>
    BY <1>10 DEF RxRequest
  <2>3. TypeOK'
    BY <1>1, <2>1, <2>2 DEF TypeOK
  <2>4. PICK m \in net :
          \/ net' = net \ {m}
          \/ \E a \in Msg : /\ net' = (net \ {m}) \cup {a} /\ a.num = m.num
                            /\ a.cmd = "ACA" /\ a.ok => <<a.type, a.num>> \in stored'
    BY <1>10, ServerStep
  <2>5. CASE net' = net \ {m}
    BY <2>1, <2>2, <2>3, <2>5, QuietStep
  <2>6. ASSUME NEW a \in Msg, net' = (net \ {m}) \cup {a}, a.num = m.num,
               a.cmd = "ACA" /\ a.ok => <<a.type, a.num>> \in stored'
        PROVE  IInv'
    <3>1. net = {m} /\ net' = {a} /\ m.num = c.num /\ rx \notin Answer
      BY <2>6 DEF IInv, OneUnderWay, TrueAnswers
    <3>2. a.cmd = "ACA" /\ a.ok => IsStored(a.num)'
      BY <2>6 DEF IsStored, Msg
    <3>3. OneUnderWay' /\ WaitsPending'
      BY <2>2, <3>1 DEF IInv, OneUnderWay, WaitsPending, Waiting
    <3>4. TrueAnswers'
      BY <2>2, <2>6, <3>1, <3>2 DEF TrueAnswers, Answer
    <3>5. TrueSuccess'
      BY <2>1, <2>2, StillStored DEF IInv, TrueSuccess
    <3> QED BY <2>3, <3>3, <3>4, <3>5 DEF IInv
  <2> QED BY <2>4, <2>5, <2>6
<1>11. CASE RxRequestDead
  <2>1. /\ net' \subseteq net /\ s' \in Server
        /\ UNCHANGED <<c, stored, stateful, serverRt, ending, rx, ended, excuse, begins, faults>>
    BY <1>1, <1>11 DEF RxRequestDead, Server
  <2>2. TypeOK'
    BY <1>1, <2>1 DEF TypeOK
  <2> QED BY <2>1, <2>2, QuietStep
<1>12. CASE SessionExpires
  <2>1. /\ s' = [s EXCEPT !.late = TRUE] /\ faults' = faults + 1 /\ faults < MaxFaults
        /\ UNCHANGED <<c, net, stored, stateful, serverRt, ending, rx, ended, excuse, begins>>
    BY <1>12 DEF SessionExpires
  <2>2. s' \in Server
    <3>1. s \in Server
      BY <1>1
    <3>2. s' = [s EXCEPT !.late = TRUE]
      BY <2>1
    <3> QED BY <3>1, <3>2 DEF Server
  <2>3. faults' \in 0..MaxFaults
    BY <1>1, <2>1, AcctSessionAssumption
  <2>4. TypeOK'
    BY <1>1, <2>1, <2>2, <2>3 DEF TypeOK
  <2> QED BY <2>1, <2>4, QuietStep
<1>13. CASE SessionTimeout
  <2>1. /\ s' = (IF s.open THEN NoSession ELSE [s EXCEPT !.late = FALSE])
        /\ excuse' = (excuse \/ s.open)
        /\ UNCHANGED <<c, net, stored, stateful, serverRt, ending, rx, ended, begins, faults>>
    BY <1>13 DEF SessionTimeout
  <2>2. s' \in Server /\ excuse' \in BOOLEAN
    BY <1>1, <2>1 DEF Server, NoSession
  <2>3. TypeOK'
    BY <1>1, <2>1, <2>2 DEF TypeOK
  <2> QED BY <2>1, <2>3, QuietStep
<1>14. CASE Lose
  <2>1. /\ net' \subseteq net /\ faults' = faults + 1 /\ faults < MaxFaults /\ excuse' = TRUE
        /\ UNCHANGED <<c, s, stored, stateful, serverRt, ending, rx, ended, begins>>
    BY <1>14 DEF Lose
  <2>2. faults' \in 0..MaxFaults
    BY <1>1, <2>1, AcctSessionAssumption
  <2>3. TypeOK'
    BY <1>1, <2>1, <2>2 DEF TypeOK
  <2> QED BY <2>1, <2>3, QuietStep
<1>15. CASE UNCHANGED vars
  <2>1. TypeOK'
    BY <1>1, <1>15 DEF vars, TypeOK
  <2> QED BY <1>15, <2>1, QuietStep DEF vars
<1> QED BY <1>2, <1>3, <1>4, <1>5, <1>6, <1>7, <1>8, <1>9, <1>10, <1>11, <1>12, <1>13, <1>14,
           <1>15 DEF Next
----------------------------------------------------------------------------
(* No record is lost without a report.                                     *)

\* The records that Accounted counts, and the reports.
Missing == {n \in 1..c.num : ~IsStored(n) /\ ~(n = c.num /\ c.fsm \in Pending)}
Told    == c.failed + (IF rx = "failed" THEN 1 ELSE 0)

\* A step reports as many records more as it may lose.
Reports == \/ Missing' \subseteq Missing /\ Told' \in {Told, Told + 1}
           \/ Told' = Told + 1 /\ \E k : Missing' \subseteq Missing \cup {k}

\* Such a step keeps what Accounted says.
LEMMA ReportsAccount ==
  ASSUME IInv, IInv', Accounted, Reports
  PROVE  Accounted'
<1>1. c.num \in Nat /\ c.failed \in Nat /\ c'.failed \in Nat /\ c'.num \in Nat
  BY AcctSessionAssumption DEF IInv, TypeOK, Client
<1>2. IsFiniteSet(1..c.num)
  <2> DEFINE n == c.num
  <2>1. n \in Int /\ 1 \in Int
    BY <1>1
  <2> HIDE DEF n
  <2>2. IsFiniteSet(1..n)
    BY <2>1, FS_Interval
  <2> QED BY <2>2 DEF n
<1>3. IsFiniteSet(Missing)
  <2>1. Missing \in SUBSET (1..c.num)
    BY DEF Missing
  <2> QED BY <1>2, <2>1, FS_Subset
<1>4. Cardinality(Missing) \in Nat /\ Cardinality(Missing) <= Told
  BY <1>3, FS_CardinalityType DEF Accounted, Missing, Told
<1>5. Told \in Nat
  BY <1>1 DEF Told
<1>6. Cardinality(Missing') <= Told' => Accounted'
  BY DEF Accounted, Missing, Told
<1> DEFINE M == Missing
           N == Missing'
           t == Told
           u == Told'
<1>7. IsFiniteSet(M) /\ Cardinality(M) \in Nat /\ Cardinality(M) <= t /\ t \in Nat
  BY <1>3, <1>4, <1>5
<1>8. CASE N \subseteq M /\ u \in {t, t + 1}
  <2> HIDE DEF M, N, t, u
  <2>1. IsFiniteSet(N) /\ Cardinality(N) <= Cardinality(M)
    BY <1>7, <1>8, FS_Subset
  <2>2. Cardinality(N) \in Nat
    BY <2>1, FS_CardinalityType
  <2>3. Cardinality(N) <= u
    BY <1>7, <1>8, <2>1, <2>2
  <2> QED BY <1>6, <2>3 DEF N, u
<1>9. ASSUME NEW k, N \subseteq M \cup {k}, u = t + 1
      PROVE  Accounted'
  <2> HIDE DEF M, N, t, u
  <2>1. IsFiniteSet(M \cup {k}) /\ Cardinality(M \cup {k}) <= Cardinality(M) + 1
    BY <1>7, FS_AddElement
  <2>2. IsFiniteSet(N) /\ Cardinality(N) <= Cardinality(M \cup {k})
    BY <1>9, <2>1, FS_Subset
  <2>3. Cardinality(N) \in Nat /\ Cardinality(M \cup {k}) \in Nat
    BY <2>1, <2>2, FS_CardinalityType
  <2>4. Cardinality(N) <= u
    BY <1>7, <1>9, <2>1, <2>2, <2>3
  <2> QED BY <1>6, <2>4 DEF N, u
<1> QED BY <1>8, <1>9 DEF Reports

\* A step that leaves the record under way, and takes back no report.
LEMMA QuietReports ==
  ASSUME c'.num = c.num, c'.fsm = c.fsm, stored \subseteq stored', Told' \in {Told, Told + 1}
  PROVE  Reports
<1>1. \A n : IsStored(n) => IsStored(n)'
  BY StillStored
<1>2. Missing' \subseteq Missing
  BY <1>1 DEF Missing
<1> QED BY <1>2 DEF Reports

\* A step of the machine: a refused record is reported by the machine, and a
\* record whose answer is a failure by the receiver.
LEMMA MachineReports ==
  ASSUME IInv, NEW x \in Client, NEW ev, Notify(x, ev),
         x.tx = {}, x.fsm = c.fsm, x.num = c.num, x.failed = c.failed,
         \/ ev \in Asked /\ rx' = rx
         \/ ev = rx /\ rx \in Answer /\ rx' = IF rx = "RX_ACA_OK" THEN "none" ELSE "failed",
         stored' = stored
  PROVE  Reports
<1> USE DEF IInv
<1>0. ev = "RX_ACA_OK" => x.num # 0 /\ IsStored(x.num)
  BY DEF WaitsPending, Waiting, TrueAnswers, Answer, Asked
<1>1. net \subseteq Msg /\ faults \in 0..MaxFaults /\ excuse \in BOOLEAN
  BY DEF TypeOK
<1>2. \/ c'.num = c.num /\ (ev \in Asked => c'.fsm = c.fsm) /\ c'.failed = c.failed
      \/ /\ c.fsm \in {"IDLE", "OPEN"} /\ ev \in Asked
         /\ c'.num = c.num + 1 /\ c'.failed = c.failed + 1
      \/ /\ c.fsm \in {"IDLE", "OPEN"} /\ ev \in Asked
         /\ c'.fsm \in Pending /\ c'.num = c.num + 1 /\ c'.failed = c.failed
  BY <1>0, <1>1, NotifyStep
<1>3. \A n : IsStored(n)' = IsStored(n)
  BY DEF IsStored
<1>4. c.num \in Nat /\ c.failed \in Nat
  BY AcctSessionAssumption DEF TypeOK, Client
<1>5. CASE ev \in Asked /\ rx' = rx /\ c'.num = c.num /\ c'.fsm = c.fsm /\ c'.failed = c.failed
  BY <1>5, QuietReports DEF Told
<1>6. CASE ev = rx /\ rx \in Answer /\ c'.num = c.num /\ c'.failed = c.failed
  <2>1. ev \notin Asked
    BY <1>6 DEF Answer, Asked
  <2>2. Missing' \subseteq Missing \cup {c.num}
    BY <1>3, <1>6 DEF Missing
  <2>3. CASE rx = "RX_ACA_OK"
    <3>1. IsStored(c.num)
      BY <1>0, <1>6, <2>3
    <3>2. Missing' \subseteq Missing
      BY <1>3, <1>6, <2>2, <3>1 DEF Missing
    <3>3. Told' = Told
      BY <1>6, <2>1, <2>3 DEF Told
    <3> QED BY <3>2, <3>3 DEF Reports
  <2>4. CASE rx # "RX_ACA_OK"
    <3>1. Told' = Told + 1
      BY <1>4, <1>6, <2>1, <2>4 DEF Told, Answer
    <3> QED BY <2>2, <3>1 DEF Reports
  <2> QED BY <2>3, <2>4
<1>7. CASE /\ c.fsm \in {"IDLE", "OPEN"} /\ ev \in Asked /\ rx' = rx
           /\ c'.num = c.num + 1 /\ c'.failed = c.failed + 1
  <2>1. Missing' \subseteq Missing \cup {c.num + 1}
    BY <1>3, <1>4, <1>7 DEF Missing, Pending
  <2>2. Told' = Told + 1
    BY <1>4, <1>7 DEF Told
  <2> QED BY <2>1, <2>2 DEF Reports
<1>8. CASE /\ c.fsm \in {"IDLE", "OPEN"} /\ ev \in Asked /\ rx' = rx
           /\ c'.fsm \in Pending /\ c'.num = c.num + 1 /\ c'.failed = c.failed
  <2>1. Missing' \subseteq Missing
    BY <1>3, <1>4, <1>8 DEF Missing, Pending
  <2>2. Told' = Told
    BY <1>8 DEF Told
  <2> QED BY <2>1, <2>2 DEF Reports
<1>9. ev \in Asked => ~(ev = rx /\ rx \in Answer)
  BY DEF Asked, Answer
<1> QED BY <1>2, <1>5, <1>6, <1>7, <1>8, <1>9

\* Every step does.
LEMMA StepReports ==
  ASSUME IInv, IInv', [Next]_vars
  PROVE  Reports
<1>1. /\ c \in Client /\ c.tx = {} /\ rx \in Answer \cup {"none", "failed"}
      /\ net \subseteq Msg /\ c.failed \in Nat
  BY DEF IInv, TypeOK, Client
<1>2. CASE Begin
  <2>1. PICK rt \in {c.rt, "GRANT_AND_LOSE"}, type \in {c.type, "EVENT", "START"}, ev \in Asked :
          Notify([c EXCEPT !.rt = rt, !.type = type], ev)
    <3>1. PICK oneTime \in BOOLEAN, rt \in {c.rt, "GRANT_AND_LOSE"} :
            IF c.slot THEN Notify([c EXCEPT !.rt = rt], "REC_IN_STORAGE")
            ELSE IF oneTime
            THEN Notify([c EXCEPT !.rt = rt, !.type = "EVENT"], "REQUEST_ONETIME_ACCESS")
            ELSE Notify([c EXCEPT !.rt = rt, !.type = "START"], "REQUEST_ACCESS")
      BY <1>2, Zenon DEF Begin
    <3>2. [c EXCEPT !.rt = rt] = [c EXCEPT !.rt = rt, !.type = c.type]
      BY <1>1 DEF Client
    <3> QED BY <3>1, <3>2 DEF Asked
  <2> DEFINE x == [c EXCEPT !.rt = rt, !.type = type]
  <2>2. x \in Client /\ x.tx = {} /\ x.fsm = c.fsm /\ x.num = c.num /\ x.failed = c.failed
    BY <1>1 DEF Client, Realtime, RecType
  <2>3. stored' = stored /\ rx' = rx
    BY <1>2 DEF Begin
  <2> HIDE DEF x
  <2> QED BY <2>1, <2>2, <2>3, MachineReports DEF x
<1>3. CASE End
  <2>1. c'.num = c.num /\ c'.fsm = c.fsm /\ c'.failed = c.failed /\ rx' = rx /\ stored' = stored
    BY <1>1, <1>3 DEF End, Client
  <2> QED BY <2>1, QuietReports DEF Told
<1>4. CASE EndNotifies
  <2>1. Notify(c, "STOP") /\ stored' = stored /\ rx' = rx
    BY <1>4 DEF EndNotifies
  <2> QED BY <1>1, <2>1, MachineReports DEF Asked
<1>5. CASE RxAnswer
  <2>1. PICK m \in net : /\ c' = [c EXCEPT !.type = m.type, !.rt = m.rt]
                         /\ rx = "none" /\ rx' = Notification(c', m) /\ stored' = stored
    BY <1>5, Zenon DEF RxAnswer
  <2>2. c'.num = c.num /\ c'.fsm = c.fsm /\ c'.failed = c.failed
    BY <1>1, <2>1 DEF Client
  <2>3. rx' # "failed"
    BY <2>1 DEF Notification
  <2>4. Told' = Told
    BY <2>1, <2>2, <2>3 DEF Told
  <2> QED BY <2>1, <2>2, <2>4, QuietReports
<1>6. CASE RxNotifies
  <2>1. /\ rx \in Answer /\ Notify(c, rx) /\ stored' = stored
        /\ rx' = IF rx = "RX_ACA_OK" THEN "none" ELSE "failed"
    BY <1>6 DEF RxNotifies
  <2> QED BY <1>1, <2>1, MachineReports
<1>7. CASE RxReports
  <2>1. /\ c' = [c EXCEPT !.failed = c.failed + 1] /\ rx = "failed" /\ rx' = "none"
        /\ stored' = stored
    BY <1>7 DEF RxReports
  <2>2. c'.num = c.num /\ c'.fsm = c.fsm /\ c'.failed = c.failed + 1
    BY <1>1, <2>1 DEF Client
  <2>3. Told' = Told
    BY <1>1, <2>1, <2>2 DEF Told
  <2> QED BY <2>1, <2>2, <2>3, QuietReports
<1>8. CASE IntervalExpires
  <2>1. c'.num = c.num /\ c'.fsm = c.fsm /\ c'.failed = c.failed /\ rx' = rx /\ stored' = stored
    BY <1>1, <1>8 DEF IntervalExpires, Client
  <2> QED BY <2>1, QuietReports DEF Told
<1>9. CASE InterimTimeout
  <2> DEFINE x == [c EXCEPT !.late = FALSE]
  <2>1. Notify(x, "INT_EXPIRE") /\ stored' = stored /\ rx' = rx
    BY <1>9 DEF InterimTimeout
  <2>2. x \in Client /\ x.tx = {} /\ x.fsm = c.fsm /\ x.num = c.num /\ x.failed = c.failed
    BY <1>1 DEF Client
  <2> HIDE DEF x
  <2> QED BY <2>1, <2>2, MachineReports DEF Asked
<1>10. CASE RxRequest
  <2>1. c' = c /\ rx' = rx
    BY <1>10 DEF RxRequest
  <2>2. stored \subseteq stored'
    BY <1>10, ServerStep
  <2> QED BY <2>1, <2>2, QuietReports DEF Told
<1>11. CASE RxRequestDead \/ SessionExpires \/ SessionTimeout \/ Lose \/ UNCHANGED vars
  <2>1. c' = c /\ rx' = rx /\ stored' = stored
    BY <1>11 DEF RxRequestDead, SessionExpires, SessionTimeout, Lose, vars
  <2> QED BY <2>1, QuietReports DEF Told
<1> QED BY <1>2, <1>3, <1>4, <1>5, <1>6, <1>7, <1>8, <1>9, <1>10, <1>11 DEF Next
----------------------------------------------------------------------------
(* A session that is ended in time concludes.  Up to the first fault the   *)
(* server's session is open when the client's is, and until the STOP.      *)

Serves    == stateful => s.open
ServerInv == /\ s.obj \in {"none", "live"}
             /\ s.open => s.obj = "live" /\ stateful
AllGood   == /\ rx \in {"none", "RX_ACA_OK"}
             /\ \A m \in net : m.cmd = "ACA" => m.ok
OpenServed    == c.fsm = "OPEN" /\ ended = "no" => Serves
StartServed   == c.fsm = "PENDING_S" => /\ \A m \in net : m.type = "START"
                                        /\ \A m \in net : m.cmd = "ACA" => Serves
                                        /\ rx \in Answer => Serves
InterimServed == c.fsm = "PENDING_I" /\ ended = "no" =>
                   /\ Serves
                   /\ \A m \in net : m.type = "INTERIM"
StopServed ==
  ended = "yes" =>
    /\ ~ending
    /\ c.fsm = "IDLE" => ~s.open
    /\ c.fsm # "IDLE" => /\ c.fsm = "PENDING_L" /\ Waiting
                         /\ \A m \in net : m.type = "STOP"
                         /\ \A m \in net : m.cmd = "ACR" => Serves
                         /\ \A m \in net : m.cmd = "ACA" => ~s.open
                         /\ rx \in Answer => ~s.open

NoFaultInv == /\ ServerInv /\ AllGood
              /\ OpenServed /\ StartServed /\ InterimServed /\ StopServed
EndInv == ~excuse => NoFaultInv

Moves == {<<"IDLE", "REQUEST_ACCESS", "PENDING_S">>, <<"IDLE", "REQUEST_ONETIME_ACCESS", "PENDING_E">>,
          <<"IDLE", "REC_IN_STORAGE", "PENDING_B">>, <<"OPEN", "INT_EXPIRE", "PENDING_I">>,
          <<"OPEN", "STOP", "PENDING_L">>}

\* Where the rows lead that send a record, or take a successful answer.
LEMMA RowMoves ==
  ASSUME NEW r \in ClientRows
  PROVE  /\ r[4] \in Transmit => <<r[1], r[2], r[3]>> \in Moves
         /\ r[4] \in Transmit => (r[4] = "InterimTimeout" <=> r[2] = "INT_EXPIRE")
         /\ r[2] = "RX_ACA_OK" =>
              r[3] = IF r[1] \in {"PENDING_S", "PENDING_I"} THEN "OPEN" ELSE "IDLE"
         /\ r[1] = "OPEN" /\ r[2] = "STOP" => r[4] = "TxACR"
<1> USE DEF Transmit, Moves
<1>1. CASE r \in ClientIdle        BY <1>1 DEF ClientIdle
<1>2. CASE r \in ClientPendingS    BY <1>2 DEF ClientPendingS
<1>3. CASE r \in ClientOpen        BY <1>3 DEF ClientOpen
<1>4. CASE r \in ClientPendingI    BY <1>4 DEF ClientPendingI
<1>5. CASE r \in ClientPendingEBL  BY <1>5 DEF ClientPendingEBL
<1> QED BY <1>1, <1>2, <1>3, <1>4, <1>5 DEF ClientRows

\* Every pending state has a row for the answer, and OPEN one for STOP.
LEMMA RowsThere ==
  /\ \A st \in Pending : <<st, "RX_ACA_OK">> \in DOMAIN ClientTable
  /\ <<"OPEN", "STOP">> \in DOMAIN ClientTable
<1>1. \A r \in ClientRows : <<r[1], r[2]>> \in DOMAIN ClientTable
  BY DEF ClientTable
<1>2. /\ <<"PENDING_S", "RX_ACA_OK", "OPEN", "RxACASuccess">> \in ClientRows
      /\ <<"PENDING_I", "RX_ACA_OK", "OPEN", "RxACASuccess">> \in ClientRows
      /\ <<"PENDING_E", "RX_ACA_OK", "IDLE", "RxACASuccess">> \in ClientRows
      /\ <<"PENDING_B", "RX_ACA_OK", "IDLE", "RxACASuccess">> \in ClientRows
      /\ <<"PENDING_L", "RX_ACA_OK", "IDLE", "RxACASuccess">> \in ClientRows
      /\ <<"OPEN", "STOP", "PENDING_L", "TxACR">> \in ClientRows
  BY DEF ClientRows, ClientPendingS, ClientPendingI, ClientPendingEBL, ClientOpen
<1> QED BY <1>1, <1>2 DEF Pending, State

\* What x becomes when it sends a record: the record's type is the session's, and
\* that of an interim record is the one that InterimTimeout() sets.
SentAs(x, ev, kind, y) ==
  /\ <<x.fsm, ev, y.fsm>> \in Moves
  /\ ev = "INT_EXPIRE" => y.type = kind
  /\ ev # "INT_EXPIRE" => y.type = x.type
  /\ \A m \in y.tx : m.type = y.type

\* An event that sends a record does so.
LEMMA FireSent ==
  ASSUME NEW x \in Client, NEW ev, NEW sent \in BOOLEAN, NEW room,
         NEW kind \in RecType, Sends(x, ev), x.num < MaxRec
  PROVE  sent => SentAs(x, ev, kind, Fire(x, ev, sent, room, kind))
<1> SUFFICES ASSUME sent
             PROVE  SentAs(x, ev, kind, Fire(x, ev, sent, room, kind))
  OBVIOUS
<1> DEFINE r == ClientTable[x.fsm, ev]
           z == [x EXCEPT !.fsm = r[3]]
           v == [z EXCEPT !.type = kind]
<1>0. <<x.fsm, ev>> \in DOMAIN ClientTable /\ r[4] \in Transmit
  BY DEF Sends, Transmit
<1>1. r \in ClientRows /\ r[1] = x.fsm /\ r[2] = ev
  <2> DEFINE st == x.fsm
  <2>1. <<st, ev>> \in DOMAIN ClientTable
    BY <1>0
  <2> HIDE DEF st
  <2>2. ClientTable[st, ev] \in ClientRows /\ ClientTable[st, ev][1] = st /\ ClientTable[st, ev][2] = ev
    BY <2>1, TableRow
  <2> QED BY <2>2 DEF st
<1>2. /\ r[3] \in State /\ <<x.fsm, ev, r[3]>> \in Moves
      /\ r[4] = "InterimTimeout" <=> ev = "INT_EXPIRE"
  BY <1>0, <1>1, RowShape, RowMoves
<1>3. z \in Client /\ z.fsm = r[3] /\ z.type = x.type /\ z.num = x.num
  BY <1>2 DEF Client
<1>4. v \in Client /\ v.fsm = r[3] /\ v.type = kind /\ v.num = x.num
  BY <1>3 DEF Client
<1>5. Fire(x, ev, sent, room, kind) = TxACR(IF ev = "INT_EXPIRE" THEN v ELSE z, sent, room)
  BY <1>0, <1>2 DEF Fire, Transmit
<1> HIDE DEF z, v, r
<1>6. PICK w : /\ w = (IF ev = "INT_EXPIRE" THEN v ELSE z)
               /\ w \in Client /\ w.fsm = ClientTable[x.fsm, ev][3] /\ w.num = x.num
               /\ w.type = IF ev = "INT_EXPIRE" THEN kind ELSE x.type
  BY <1>3, <1>4 DEF r
<1> DEFINE u == [w EXCEPT !.num = w.num + 1, !.timer = "none"]
<1>7. w.num + 1 \in 1..MaxRec
  <2>1. w \in Client /\ w.num < MaxRec
    BY <1>6
  <2>2. w.num \in Nat /\ MaxRec \in Nat
    BY <2>1, AcctSessionAssumption DEF Client
  <2> QED BY <2>1, <2>2
<1>8. u.fsm = w.fsm /\ u.type = w.type /\ u.num = w.num + 1 /\ u.rt = w.rt /\ u.type \in RecType
      /\ u.rt \in Realtime /\ "tx" \in DOMAIN u /\ "fsm" \in DOMAIN u /\ "type" \in DOMAIN u
  BY <1>6 DEF Client
<1>9. TxACR(w, sent, room) = [u EXCEPT !.tx = {Record(u)}]
  BY DEF TxACR
<1>10. Record(u) \in Msg /\ Record(u).cmd = "ACR" /\ Record(u).type = u.type
  BY <1>7, <1>8 DEF Record, Msg
<1> HIDE DEF u
<1>11. TxACR(w, sent, room).fsm = w.fsm /\ TxACR(w, sent, room).type = w.type
      /\ TxACR(w, sent, room).tx = {Record(u)}
  BY <1>8, <1>9
<1> QED BY <1>2, <1>5, <1>6, <1>8, <1>10, <1>11 DEF r, SentAs

\* A step of the machine without a fault: the answer moves it, and what it is
\* asked for makes it send a record or does nothing.
LEMMA NotifySent ==
  ASSUME NEW x \in Client, x.tx = {}, NEW ev, Notify(x, ev), ~excuse'
  PROVE  /\ ~excuse
         /\ ev = "RX_ACA_OK" /\ x.fsm \in Pending /\ x.num # 0 =>
              /\ net' = net
              /\ c'.fsm = IF x.fsm \in {"PENDING_S", "PENDING_I"} THEN "OPEN" ELSE "IDLE"
         /\ ev \in Asked =>
              \/ net' = net /\ c'.fsm = x.fsm /\ ~(x.fsm = "OPEN" /\ ev = "STOP")
              \/ /\ <<x.fsm, ev, c'.fsm>> \in Moves
                 /\ \E m \in Msg : /\ net' = net \cup {m} /\ m.cmd = "ACR"
                                   /\ ev # "INT_EXPIRE" => m.type = x.type
                                   /\ ev = "INT_EXPIRE" /\ ~ending => m.type = "INTERIM"
<1>1. PICK sent \in BOOLEAN, room \in BOOLEAN, kind \in RecType :
        /\ kind = "INTERIM" \/ (ending /\ ev = "INT_EXPIRE")
        /\ Sends(x, ev) => x.num < MaxRec
        /\ c' = [Fire(x, ev, sent, room, kind) EXCEPT !.tx = {}]
        /\ net' = net \cup Fire(x, ev, sent, room, kind).tx
        /\ excuse' = (excuse \/ ~sent)
  <2>1. {"INTERIM", x.type} \subseteq RecType
    BY DEF Client, RecType
  <2> QED BY <2>1, Zenon DEF Notify
<1>2. sent /\ ~excuse
  BY <1>1
<1> DEFINE y == Fire(x, ev, sent, room, kind)
<1>3. kind \in RecType
  BY <1>1
<1>4. c' = [y EXCEPT !.tx = {}] /\ net' = net \cup y.tx
  BY <1>1, <1>2
<1>5. CASE Sends(x, ev)
  <2>1. /\ ev \in Asked /\ y \in Client
        /\ sent => y.fsm \in Pending /\ \E m \in Msg : y.tx = {m} /\ m.num = y.num /\ m.cmd = "ACR"
    BY <1>1, <1>3, <1>5, FireSends
  <2>2. SentAs(x, ev, kind, y)
    <3>1. x.num < MaxRec /\ sent \in BOOLEAN
      BY <1>1, <1>5
    <3>2. sent => SentAs(x, ev, kind, Fire(x, ev, sent, room, kind))
      BY <1>3, <1>5, <3>1, FireSent
    <3> QED BY <1>2, <3>2
  <2> HIDE DEF y
  <2>3. PICK m \in Msg : y.tx = {m} /\ m.cmd = "ACR" /\ m.type = y.type
    BY <1>2, <2>1, <2>2 DEF SentAs
  <2>4. c'.fsm = y.fsm
    BY <1>4, <2>1 DEF Client
  <2>5. net' = net \cup {m}
    BY <1>4, <2>3
  <2> QED BY <1>1, <1>2, <2>1, <2>2, <2>3, <2>4, <2>5 DEF Asked, SentAs
<1>6. CASE ~Sends(x, ev)
  <2>1. ev # "RX_ACA_OK" \/ x.num # 0 =>
          y \in Client /\ y.tx = x.tx /\ (ev \in Asked => y.fsm = x.fsm)
    <3> SUFFICES ASSUME ev # "RX_ACA_OK" \/ x.num # 0
                 PROVE  y \in Client /\ y.tx = x.tx /\ (ev \in Asked => y.fsm = x.fsm)
      OBVIOUS
    <3> QED BY <1>6, FireSilent
  <2>2. ~(x.fsm = "OPEN" /\ ev = "STOP")
    <3> SUFFICES ASSUME x.fsm = "OPEN", ev = "STOP" PROVE FALSE
      OBVIOUS
    <3> DEFINE st == x.fsm
               r == ClientTable[st, ev]
    <3>1. <<st, ev>> \in DOMAIN ClientTable
      BY RowsThere
    <3> HIDE DEF st
    <3>2. r \in ClientRows /\ r[1] = st /\ r[2] = ev
      BY <3>1, TableRow
    <3>3. r[4] = "TxACR"
      BY <3>2, RowMoves DEF st
    <3> QED BY <1>6, <3>1, <3>3 DEF Sends, st
  <2>3. ev = "RX_ACA_OK" /\ x.fsm \in Pending =>
          y.fsm = IF x.fsm \in {"PENDING_S", "PENDING_I"} THEN "OPEN" ELSE "IDLE"
    <3> SUFFICES ASSUME ev = "RX_ACA_OK", x.fsm \in Pending
                 PROVE  y.fsm = IF x.fsm \in {"PENDING_S", "PENDING_I"} THEN "OPEN" ELSE "IDLE"
      OBVIOUS
    <3> DEFINE r == ClientTable[x.fsm, ev]
               z == [x EXCEPT !.fsm = r[3]]
    <3>1. <<x.fsm, ev>> \in DOMAIN ClientTable
      BY RowsThere
    <3>2. r \in ClientRows /\ r[1] = x.fsm /\ r[2] = ev
      <4> DEFINE st == x.fsm
      <4>1. <<st, ev>> \in DOMAIN ClientTable
        BY <3>1
      <4> HIDE DEF st
      <4>2. ClientTable[st, ev] \in ClientRows /\ ClientTable[st, ev][1] = st /\ ClientTable[st, ev][2] = ev
        BY <4>1, TableRow
      <4> QED BY <4>2 DEF st
    <3>3. r[3] = (IF x.fsm \in {"PENDING_S", "PENDING_I"} THEN "OPEN" ELSE "IDLE")
          /\ r[3] \in State /\ r[4] \notin Transmit
      BY <3>2, RowMoves, RowShape DEF Asked
    <3>4. y = ClientLeaf(z, r[4])
      BY <3>1, <3>3 DEF Fire, Transmit
    <3> HIDE DEF y, r
    <3>5. z.fsm = r[3]
      BY DEF Client
    <3>6. ClientLeaf(z, r[4]).fsm = z.fsm
      BY DEF ClientLeaf, RxACASuccess, Client
    <3> QED BY <3>3, <3>4, <3>5, <3>6
  <2> HIDE DEF y
  <2>4. y \in Client => c'.fsm = y.fsm
    BY <1>4 DEF Client
  <2>5. ev \in Asked => ev # "RX_ACA_OK"
    BY DEF Asked
  <2> QED BY <1>2, <1>4, <2>1, <2>2, <2>3, <2>4, <2>5
<1> QED BY <1>5, <1>6

\* The server, up to the first fault, takes what it is sent: START and INTERIM
\* leave its session open and STOP closed, unless they find no session.
LEMMA ServerServes ==
  ASSUME IInv, ServerInv, RxRequest, ~excuse'
  PROVE  /\ ~excuse /\ ServerInv'
         /\ \E m \in net :
              /\ m.cmd = "ACR"
              /\ \/ /\ net' = {} /\ stateful /\ ~s.open /\ s'.open = s.open
                    /\ m.type \in {"INTERIM", "STOP"}
                 \/ \E a \in Msg :
                      /\ net' = {a} /\ a.cmd = "ACA" /\ a.ok /\ a.type = m.type
                      /\ m.type \in {"START", "INTERIM"} => Serves'
                      /\ m.type = "STOP" => ~s'.open
<1> USE DEF ServerInv, Serves
<1>1. PICK m \in net, spare \in BOOLEAN, more \in BOOLEAN :
        /\ m.cmd = "ACR" /\ (more => spare)
        /\ CASE stateful /\ spare  -> Takes(m)
             [] stateful /\ ~spare -> OutOfSpace(m)
             [] OTHER              -> Passes(m, spare, more)
        /\ excuse' = (excuse \/ ~more)
  BY Zenon DEF RxRequest
<1>2. ~excuse /\ more /\ spare
  BY <1>1
<1>3. m \in Msg /\ net = {m} /\ s \in Server /\ serverRt \in Realtime /\ stateful' = stateful
  BY DEF IInv, TypeOK, OneUnderWay, RxRequest
<1> DEFINE a == [m EXCEPT !.cmd = "ACA", !.ok = TRUE, !.rt = serverRt]
<1>4. a \in Msg /\ a.cmd = "ACA" /\ a.ok = TRUE /\ a.type = m.type
  BY <1>3 DEF Msg
<1>5. Answered(m, TRUE) = {a}
  BY <1>3 DEF Answered
<1> HIDE DEF a
<1>6. NoSession.obj = "none" /\ NoSession.open = FALSE
  BY DEF NoSession
<1>7. CASE stateful
  <2>1. Takes(m)
    BY <1>1, <1>2, <1>7
  <2>2. CASE ~s.open /\ m.type \in {"INTERIM", "STOP"}
    <3>1. s' = [s EXCEPT !.obj = "live"] /\ net' = net \ {m}
      BY <2>1, <2>2 DEF Takes
    <3>2. s'.obj = "live" /\ s'.open = s.open /\ net' = {}
      BY <1>3, <3>1 DEF Server
    <3> QED BY <1>1, <1>2, <1>3, <1>7, <2>2, <3>2
  <2>3. CASE ~(~s.open /\ m.type \in {"INTERIM", "STOP"})
    <3>1. net' = {a}
      BY <1>5, <2>1, <2>3 DEF Takes
    <3>2. CASE m.type = "EVENT"
      <4>1. s' = [s EXCEPT !.obj = "live"]
        BY <2>1, <2>3, <3>2 DEF Takes
      <4>2. s'.obj = "live" /\ s'.open = s.open
        BY <1>3, <4>1 DEF Server
      <4> QED BY <1>1, <1>2, <1>3, <1>4, <1>7, <3>1, <3>2, <4>2
    <3>3. CASE m.type = "STOP"
      <4>1. s.open /\ s' = Reset
        BY <2>1, <2>3, <3>3, <1>3 DEF Takes, Server
      <4>2. s' = NoSession
        BY <4>1 DEF Reset
      <4> QED BY <1>1, <1>2, <1>3, <1>4, <1>6, <1>7, <3>1, <3>3, <4>2
    <3>4. CASE m.type \in {"START", "INTERIM"}
      <4>1. s' = Opens
        BY <2>1, <2>3, <3>4 DEF Takes
      <4>2. s'.obj = "live" /\ s'.open
        BY <1>3, <4>1 DEF Opens, Server
      <4> QED BY <1>1, <1>2, <1>3, <1>4, <1>7, <3>1, <3>4, <4>2
    <3> QED BY <1>3, <3>2, <3>3, <3>4 DEF Msg, RecType
  <2> QED BY <2>2, <2>3
<1>8. CASE ~stateful
  <2>1. Passes(m, spare, more)
    BY <1>1, <1>8
  <2>2. s' = [NoSession EXCEPT !.obj = "live"] /\ net' = Answered(m, more)
    BY <2>1 DEF Passes
  <2>3. s'.obj = "live" /\ s'.open = FALSE
    BY <2>2, <1>6 DEF NoSession
  <2>4. net' = {a}
    BY <1>2, <1>3, <2>2 DEF Answered, a
  <2> QED BY <1>1, <1>2, <1>3, <1>4, <1>8, <2>3, <2>4
<1> QED BY <1>7, <1>8

\* A step that leaves the record under way and both sessions as they are.
LEMMA QuietEnd ==
  ASSUME NoFaultInv, net' = net, rx' = rx, c'.fsm = c.fsm, ended' = ended,
         s'.open = s.open, s'.obj = s.obj, stateful' = stateful,
         ending' = ending \/ ended # "yes"
  PROVE  NoFaultInv'
<1> USE DEF NoFaultInv, Serves, Waiting
<1>1. ServerInv' /\ AllGood'
  BY DEF ServerInv, AllGood
<1>2. OpenServed' /\ StartServed' /\ InterimServed'
  BY DEF OpenServed, StartServed, InterimServed
<1>3. StopServed'
  BY DEF StopServed
<1> QED BY <1>1, <1>2, <1>3

\* The client's machine, asked by the application or the timer, up to the first
\* fault: idle and open, it may send the record of the next state.
LEMMA AskedServes ==
  ASSUME IInv, NoFaultInv, NEW x \in Client, NEW ev \in Asked, Notify(x, ev), ~excuse',
         x.tx = {}, x.fsm = c.fsm, rx' = rx, s' = s, stateful' = stateful,
         ev = "REQUEST_ACCESS" => x.type = "START",
         ev = "STOP" /\ ended' = "yes" => /\ x.type = "STOP" /\ ~ending'
                                          /\ ended = "no" /\ c.fsm = "OPEN",
         ev # "STOP" => ending' = ending,
         ended' = "no" => ended = "no" \/ c.fsm = "IDLE",
         ended' = "no" /\ ev = "INT_EXPIRE" => ~ending,
         ended' = "yes" /\ ev # "STOP" => ended = "yes" /\ ev = "INT_EXPIRE"
  PROVE  NoFaultInv'
<1> USE DEF NoFaultInv, Serves
<1>1. /\ ~excuse
      /\ \/ net' = net /\ c'.fsm = x.fsm /\ ~(x.fsm = "OPEN" /\ ev = "STOP")
         \/ /\ <<x.fsm, ev, c'.fsm>> \in Moves
            /\ \E m \in Msg : /\ net' = net \cup {m} /\ m.cmd = "ACR"
                              /\ ev # "INT_EXPIRE" => m.type = x.type
                              /\ ev = "INT_EXPIRE" /\ ~ending => m.type = "INTERIM"
  BY NotifySent
<1>2. c.fsm \in {"IDLE", "OPEN"} => net = {} /\ rx \notin Answer
  BY DEF IInv, WaitsPending, Waiting, Pending
<1>3. ServerInv'
  BY DEF ServerInv
<1>4. CASE net' = net /\ c'.fsm = x.fsm /\ ~(x.fsm = "OPEN" /\ ev = "STOP")
  <2>1. AllGood'
    BY <1>4 DEF AllGood
  <2>2. OpenServed' /\ StartServed' /\ InterimServed'
    BY <1>4 DEF OpenServed, StartServed, InterimServed
  <2>3. StopServed'
    BY <1>4 DEF StopServed, Waiting
  <2> QED BY <1>3, <2>1, <2>2, <2>3
<1>5. ASSUME <<x.fsm, ev, c'.fsm>> \in Moves,
             NEW m \in Msg, net' = net \cup {m}, m.cmd = "ACR",
             ev # "INT_EXPIRE" => m.type = x.type,
             ev = "INT_EXPIRE" /\ ~ending => m.type = "INTERIM"
      PROVE  NoFaultInv'
  <2>1. /\ c.fsm \in {"IDLE", "OPEN"} /\ c'.fsm \in Pending
        /\ c'.fsm = "PENDING_S" => ev = "REQUEST_ACCESS"
        /\ c'.fsm = "PENDING_I" => ev = "INT_EXPIRE" /\ c.fsm = "OPEN"
        /\ ev = "STOP" => c'.fsm = "PENDING_L" /\ c.fsm = "OPEN"
        /\ ev # "STOP" /\ ev # "INT_EXPIRE" => c.fsm = "IDLE"
    BY <1>5 DEF Moves, Pending, State
  <2>2. net' = {m} /\ rx' \notin Answer
    BY <1>2, <1>5, <2>1
  <2>3. AllGood'
    BY <1>5, <2>2 DEF AllGood
  <2>4. OpenServed'
    BY <2>1 DEF OpenServed, Pending
  <2>5. StartServed'
    BY <1>5, <2>1, <2>2 DEF StartServed
  <2>6. InterimServed'
    BY <1>5, <2>1, <2>2 DEF InterimServed, OpenServed
  <2>7. StopServed'
    <3> SUFFICES ASSUME ended' = "yes" PROVE StopServed'
      BY DEF StopServed
    <3>1. CASE ev = "STOP"
      BY <1>5, <2>1, <2>2, <3>1 DEF StopServed, OpenServed, Waiting
    <3>2. CASE ev # "STOP"
      <4>1. ended = "yes" /\ c.fsm = "OPEN"
        BY <1>5, <3>1, <3>2 DEF Moves
      <4> QED BY <4>1 DEF StopServed
    <3> QED BY <3>1, <3>2
  <2> QED BY <1>3, <2>3, <2>4, <2>5, <2>6, <2>7
<1> QED BY <1>1, <1>4, <1>5

\* Every step of a session without a fault keeps the two halves together.
LEMMA StepEndInv ==
  ASSUME IInv, IInv', EndInv, [Next]_vars
  PROVE  EndInv'
<1> SUFFICES ASSUME ~excuse'
             PROVE  NoFaultInv'
  BY DEF EndInv
<1>1. c \in Client /\ c.tx = {} /\ s \in Server /\ rx \in Answer \cup {"none", "failed"}
      /\ net \subseteq Msg /\ c'.fsm \in State
  BY DEF IInv, TypeOK, Client
<1>2. c.fsm \in {"IDLE", "OPEN"} => net = {} /\ rx \notin Answer
  BY DEF IInv, WaitsPending, Waiting, Pending
<1>3. CASE Begin
  <2>1. PICK oneTime \in BOOLEAN, rt \in {c.rt, "GRANT_AND_LOSE"} :
          IF c.slot THEN Notify([c EXCEPT !.rt = rt], "REC_IN_STORAGE")
          ELSE IF oneTime
          THEN Notify([c EXCEPT !.rt = rt, !.type = "EVENT"], "REQUEST_ONETIME_ACCESS")
          ELSE Notify([c EXCEPT !.rt = rt, !.type = "START"], "REQUEST_ACCESS")
    BY <1>3, Zenon DEF Begin
  <2>2. [c EXCEPT !.rt = rt] = [c EXCEPT !.rt = rt, !.type = c.type]
    BY <1>1 DEF Client
  <2>3. PICK type \in {c.type, "EVENT", "START"}, ev \in Asked :
          /\ Notify([c EXCEPT !.rt = rt, !.type = type], ev)
          /\ ev = "REQUEST_ACCESS" => type = "START"
          /\ ev \notin {"STOP", "INT_EXPIRE"}
    BY <2>1, <2>2 DEF Asked
  <2> DEFINE x == [c EXCEPT !.rt = rt, !.type = type]
  <2>4. x \in Client /\ x.tx = {} /\ x.fsm = c.fsm /\ x.type = type
    BY <1>1 DEF Client, Realtime, RecType
  <2>5. ended' = "no" /\ c.fsm = "IDLE" /\ UNCHANGED <<s, stateful, ending, rx>>
    BY <1>3 DEF Begin
  <2> HIDE DEF x
  <2>6. Notify(x, ev) /\ (ev = "REQUEST_ACCESS" => x.type = "START")
    BY <2>3, <2>4 DEF x
  <2>7. ~excuse
    BY <2>4, <2>6, NotifySent
  <2>8. NoFaultInv
    BY <2>7 DEF EndInv
  <2> QED BY <2>3, <2>4, <2>5, <2>6, <2>8, AskedServes
<1>4. CASE End
  <2>1. /\ c' = [c EXCEPT !.type = "STOP", !.timer = "none"] /\ ending' = TRUE /\ ended = "no"
        /\ UNCHANGED <<s, net, stateful, rx, ended, excuse>>
    BY <1>4 DEF End
  <2>2. c'.fsm = c.fsm
    BY <1>1, <2>1 DEF Client
  <2> QED BY <2>1, <2>2, QuietEnd DEF EndInv
<1>5. CASE EndNotifies
  <2>1. /\ Notify(c, "STOP") /\ ending' = FALSE
        /\ ended' = (IF c.fsm = "OPEN" /\ c.type = "STOP" /\ ended = "no" THEN "yes" ELSE "late")
        /\ UNCHANGED <<s, stateful, rx>>
    BY <1>5 DEF EndNotifies
  <2>2. NoFaultInv
    BY <1>1, <2>1, NotifySent DEF EndInv
  <2>3. ended' # "no" /\ (ended' = "yes" => c.fsm = "OPEN" /\ c.type = "STOP" /\ ended = "no")
    BY <2>1
  <2> QED BY <1>1, <2>1, <2>2, <2>3, AskedServes DEF Asked
<1>6. CASE RxAnswer
  <2>1. PICK m \in net : /\ m.cmd = "ACA" /\ c' = [c EXCEPT !.type = m.type, !.rt = m.rt]
                         /\ rx' = Notification(c', m) /\ net' = net \ {m}
                         /\ UNCHANGED <<s, stateful, ending, ended, excuse>>
    BY <1>6, Zenon DEF RxAnswer
  <2>2. NoFaultInv /\ m.ok /\ c'.fsm = c.fsm /\ net' = {} /\ net = {m}
    BY <1>1, <2>1 DEF EndInv, NoFaultInv, AllGood, Client, IInv, OneUnderWay
  <2>3. rx' = "RX_ACA_OK"
    BY <2>1, <2>2 DEF Notification
  <2>4. ServerInv' /\ AllGood'
    BY <2>1, <2>2, <2>3 DEF NoFaultInv, ServerInv, AllGood
  <2>5. OpenServed' /\ StartServed' /\ InterimServed'
    BY <2>1, <2>2, <2>3 DEF NoFaultInv, OpenServed, StartServed, InterimServed, Serves
  <2>6. StopServed'
    BY <2>1, <2>2, <2>3 DEF NoFaultInv, StopServed, Waiting, Answer
  <2> QED BY <2>4, <2>5, <2>6 DEF NoFaultInv
<1>7. CASE RxNotifies
  <2>1. /\ rx \in Answer /\ Notify(c, rx) /\ rx' \in {"none", "failed"}
        /\ rx = "RX_ACA_OK" => rx' = "none"
        /\ UNCHANGED <<s, stateful, ending, ended>>
    BY <1>7 DEF RxNotifies
  <2>2. NoFaultInv
    BY <1>1, <2>1, NotifySent DEF EndInv
  <2>3. rx = "RX_ACA_OK" /\ rx' = "none" /\ net = {}
    BY <2>1, <2>2 DEF NoFaultInv, AllGood, Answer, IInv, OneUnderWay
  <2>4. c.fsm \in Pending /\ c.num # 0
    BY <2>1 DEF IInv, WaitsPending, Waiting
  <2>5. /\ net' = {}
        /\ c'.fsm = IF c.fsm \in {"PENDING_S", "PENDING_I"} THEN "OPEN" ELSE "IDLE"
    BY <1>1, <2>1, <2>3, <2>4, NotifySent
  <2>6. ServerInv' /\ AllGood'
    BY <2>1, <2>2, <2>3, <2>5 DEF NoFaultInv, ServerInv, AllGood
  <2>7. OpenServed' /\ StartServed' /\ InterimServed'
    BY <2>1, <2>2, <2>3, <2>5 DEF NoFaultInv, OpenServed, StartServed, InterimServed, Serves
  <2>8. StopServed'
    BY <2>1, <2>2, <2>3, <2>4, <2>5 DEF NoFaultInv, StopServed, Pending
  <2> QED BY <2>6, <2>7, <2>8 DEF NoFaultInv
<1>8. CASE RxReports
  BY <1>8 DEF RxReports, EndInv, NoFaultInv, AllGood
<1>9. CASE IntervalExpires
  <2>1. c'.fsm = c.fsm /\ UNCHANGED <<s, net, stateful, ending, rx, ended, excuse>>
    BY <1>1, <1>9 DEF IntervalExpires, Client
  <2> QED BY <2>1, QuietEnd DEF EndInv
<1>10. CASE InterimTimeout
  <2> DEFINE x == [c EXCEPT !.late = FALSE]
  <2>1. /\ Notify(x, "INT_EXPIRE") /\ ended' = (IF ending THEN "late" ELSE ended)
        /\ UNCHANGED <<s, stateful, ending, rx>>
    BY <1>10 DEF InterimTimeout
  <2>2. x \in Client /\ x.tx = {} /\ x.fsm = c.fsm
    BY <1>1 DEF Client
  <2> HIDE DEF x
  <2>3. NoFaultInv
    BY <2>1, <2>2, NotifySent DEF EndInv
  <2> QED BY <2>1, <2>2, <2>3, AskedServes DEF Asked
<1>11. CASE RxRequest
  <2>1. UNCHANGED <<c, stateful, ending, rx, ended>>
    BY <1>11 DEF RxRequest
  <2>2. ~excuse
    BY <1>11 DEF RxRequest
  <2>3. NoFaultInv
    BY <2>2 DEF EndInv
  <2>4. PICK m \in net :
          /\ m.cmd = "ACR"
          /\ \/ /\ net' = {} /\ stateful /\ ~s.open /\ s'.open = s.open
                /\ m.type \in {"INTERIM", "STOP"}
             \/ \E a \in Msg :
                  /\ net' = {a} /\ a.cmd = "ACA" /\ a.ok /\ a.type = m.type
                  /\ m.type \in {"START", "INTERIM"} => Serves'
                  /\ m.type = "STOP" => ~s'.open
    BY <1>11, <2>3, ServerServes DEF NoFaultInv
  <2>5. ServerInv'
    BY <1>11, <2>3, ServerServes DEF NoFaultInv
  <2>6. rx \notin Answer /\ c.fsm \in Pending
    BY <2>4 DEF IInv, OneUnderWay, WaitsPending, Waiting
  <2>7. CASE /\ net' = {} /\ stateful /\ ~s.open /\ s'.open = s.open
             /\ m.type \in {"INTERIM", "STOP"}
    <3>1. AllGood'
      BY <2>1, <2>3, <2>7 DEF NoFaultInv, AllGood
    <3>2. OpenServed' /\ StartServed' /\ InterimServed'
      BY <2>1, <2>3, <2>6, <2>7 DEF NoFaultInv, OpenServed, StartServed, InterimServed, Serves
    <3>3. StopServed'
      BY <2>1, <2>3, <2>4, <2>6, <2>7 DEF NoFaultInv, StopServed, Serves, Pending
    <3> QED BY <2>5, <3>1, <3>2, <3>3 DEF NoFaultInv
  <2>8. ASSUME NEW a \in Msg, net' = {a}, a.cmd = "ACA", a.ok, a.type = m.type,
               m.type \in {"START", "INTERIM"} => Serves',
               m.type = "STOP" => ~s'.open
        PROVE  NoFaultInv'
    <3>1. AllGood'
      BY <2>1, <2>3, <2>8 DEF NoFaultInv, AllGood
    <3>2. OpenServed'
      BY <2>1, <2>6 DEF OpenServed, Pending
    <3>3. StartServed' /\ InterimServed'
      BY <2>1, <2>3, <2>6, <2>8 DEF NoFaultInv, StartServed, InterimServed
    <3>4. StopServed'
      BY <2>1, <2>3, <2>6, <2>8 DEF NoFaultInv, StopServed, Pending, Waiting
    <3> QED BY <2>5, <3>1, <3>2, <3>3, <3>4 DEF NoFaultInv
  <2> QED BY <2>4, <2>7, <2>8
<1>12. CASE RxRequestDead
  BY <1>12 DEF RxRequestDead, EndInv, NoFaultInv, ServerInv
<1>13. CASE SessionExpires
  <2>1. s' = [s EXCEPT !.late = TRUE] /\ UNCHANGED <<c, net, stateful, ending, rx, ended, excuse>>
    BY <1>13 DEF SessionExpires
  <2>2. s'.open = s.open /\ s'.obj = s.obj
    BY <1>1, <2>1 DEF Server
  <2> QED BY <2>1, <2>2, QuietEnd DEF EndInv
<1>14. CASE SessionTimeout
  <2>1. /\ s' = (IF s.open THEN NoSession ELSE [s EXCEPT !.late = FALSE]) /\ ~s.open /\ ~excuse
        /\ UNCHANGED <<c, net, stateful, ending, rx, ended>>
    BY <1>14 DEF SessionTimeout
  <2>2. s' = [s EXCEPT !.late = FALSE]
    BY <2>1
  <2>3. s'.open = s.open /\ s'.obj = s.obj
    BY <1>1, <2>2 DEF Server
  <2> QED BY <2>1, <2>3, QuietEnd DEF EndInv
<1>15. CASE Lose
  BY <1>15 DEF Lose
<1>16. CASE UNCHANGED vars
  BY <1>16, QuietEnd DEF vars, EndInv
<1> QED BY <1>3, <1>4, <1>5, <1>6, <1>7, <1>8, <1>9, <1>10, <1>11, <1>12, <1>13, <1>14, <1>15,
           <1>16 DEF Next
----------------------------------------------------------------------------
(* The theorems.                                                           *)

LEMMA AlwaysIInv == Spec => []IInv
<1>1. Init => IInv
  BY InitIInv
<1>2. IInv /\ [Next]_vars => IInv'
  BY StepIInv
<1> QED BY <1>1, <1>2, PTL DEF Spec

\* The sessions, the messages and the storage keep their types.
THEOREM AlwaysTypeOK == Spec => []TypeOK
<1>1. IInv => TypeOK
  BY DEF IInv
<1> QED BY <1>1, AlwaysIInv, PTL

\* Success() is called for records the server has stored, although RxAnswer()
\* compares no record number: one record at a time is under way.
THEOREM AlwaysHonest == Spec => []Honest
<1>1. IInv => Honest
  BY IInvHonest
<1> QED BY <1>1, AlwaysIInv, PTL

\* The application is told of every record: those that the server has not stored
\* are no more than the calls of Failed(), by TxACR() inside the machine when the
\* record is refused and by RxAnswer() outside it when the answer is a failure.
THEOREM AlwaysAccounted == Spec => []Accounted
<1>1. Init => Accounted
  <2> SUFFICES ASSUME Init PROVE Accounted
    OBVIOUS
  <2>1. c.num = 0 /\ c.failed = 0 /\ rx = "none"
    BY DEF Init
  <2>2. Missing = {} /\ Told = 0
    BY <2>1 DEF Missing, Told
  <2>3. Cardinality(Missing) <= Told
    BY <2>2, FS_EmptySet
  <2> QED BY <2>3 DEF Accounted, Missing, Told
<1>2. IInv /\ IInv' /\ Accounted /\ [Next]_vars => Accounted'
  BY StepReports, ReportsAccount
<1> QED BY <1>1, <1>2, AlwaysIInv, PTL DEF Spec

\* Without a fault, and unless a record or an answer came in between, an open
\* session that was ended is over at both ends when nothing is left to do: End()
\* and EndNotifies() are two steps, and the STOP finds the server's session open.
THEOREM AlwaysConcludes == Spec => []Concludes
<1>1. Init => EndInv
  BY DEF Init, EndInv, NoFaultInv, ServerInv, AllGood, OpenServed, StartServed, InterimServed,
         StopServed, NoSession
<1>2. IInv /\ IInv' /\ EndInv /\ [Next]_vars => EndInv'
  BY StepEndInv
<1>3. EndInv => Concludes
  BY DEF EndInv, NoFaultInv, StopServed, Concludes, Quiet, Waiting, Answer
<1> QED BY <1>1, <1>2, <1>3, AlwaysIInv, PTL DEF Spec
============================================================================
