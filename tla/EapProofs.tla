----------------------------- MODULE EapProofs ------------------------------
(***************************************************************************)
(* Theorems of Eap: whoever reports success repeats the verdict of the one *)
(* that decides, and no thread of a server waits for a message that it has *)
(* taken already.  They hold for every set of methods, every capacity of   *)
(* the link and number of losses, and every number of trials and           *)
(* retransmissions.                                                        *)
(*                                                                         *)
(* First what the operations of the machines do, then the two invariants:  *)
(* AgreeInv, and StockInv that counts messages against the events that     *)
(* announce them.                                                          *)
(***************************************************************************)
EXTENDS Eap, FiniteSetTheorems, TLAPS

\* A queue of events, none of them in B.
Free(q, B) == \E S : q \in Seq(S) /\ S \cap B = {}

\* Messages to a peer: there is a Success among them only when the server said so.
Carries(s, said) == \E S : s \in Seq(S) /\ \A m \in S : m.code = "success" => said = "success"
----------------------------------------------------------------------------
(* Queues.                                                                 *)

\* The empty queue, and the end of one.
LEMMA FreeEmpty == ASSUME NEW B PROVE Free(<<>>, B)
<1>1. <<>> \in Seq({}) /\ {} \cap B = {}
  OBVIOUS
<1> QED BY <1>1 DEF Free

\* One more event.
LEMMA FreeAppend ==
  ASSUME NEW B, NEW q, Free(q, B), NEW e, e \notin B
  PROVE  Free(Append(q, e), B)
<1>1. PICK S : q \in Seq(S) /\ S \cap B = {}
  BY DEF Free
<1>2. PICK T : T = S \cup {e}
  OBVIOUS
<1>3. q \in Seq(T)
  BY <1>1, <1>2
<1>4. Append(q, e) \in Seq(T) /\ T \cap B = {}
  BY <1>1, <1>2, <1>3
<1> QED BY <1>4 DEF Free

\* The first event, and the others.
LEMMA FreeTail ==
  ASSUME NEW B, NEW q, Free(q, B), q # <<>>
  PROVE  Free(Tail(q), B) /\ Head(q) \notin B
<1>1. PICK S : q \in Seq(S) /\ S \cap B = {}
  BY DEF Free
<1>2. Tail(q) \in Seq(S) /\ Head(q) \in S
  BY <1>1
<1> QED BY <1>1, <1>2 DEF Free

\* Fewer events that are barred.
LEMMA FreeLess ==
  ASSUME NEW B, NEW q, Free(q, B), NEW C, C \subseteq B
  PROVE  Free(q, C)
BY DEF Free

\* No message.
LEMMA CarriesEmpty == ASSUME NEW said PROVE Carries(<<>>, said)
<1>1. PICK S : S = {}
  OBVIOUS
<1>2. <<>> \in Seq(S) /\ \A m \in S : m.code = "success" => said = "success"
  BY <1>1
<1> QED BY <1>2 DEF Carries

\* One more message.
LEMMA CarriesAppend ==
  ASSUME NEW said, NEW s, Carries(s, said), NEW m, m.code = "success" => said = "success"
  PROVE  Carries(Append(s, m), said)
<1>1. PICK S : s \in Seq(S) /\ \A n \in S : n.code = "success" => said = "success"
  BY DEF Carries
<1>2. PICK T : T = S \cup {m}
  OBVIOUS
<1>3. s \in Seq(T) /\ \A n \in T : n.code = "success" => said = "success"
  BY <1>1, <1>2
<1>4. Append(s, m) \in Seq(T)
  BY <1>2, <1>3
<1> QED BY <1>3, <1>4 DEF Carries

\* The first message, and the others.
LEMMA CarriesTail ==
  ASSUME NEW said, NEW s, Carries(s, said), s # <<>>
  PROVE  Carries(Tail(s), said) /\ (Head(s).code = "success" => said = "success")
<1>1. PICK S : s \in Seq(S) /\ \A n \in S : n.code = "success" => said = "success"
  BY DEF Carries
<1>2. Tail(s) \in Seq(S) /\ Head(s) \in S
  BY <1>1
<1> QED BY <1>1, <1>2 DEF Carries

\* Two sequences of messages.
LEMMA CarriesConcat ==
  ASSUME NEW said, NEW s, NEW t, Carries(s, said), Carries(t, said)
  PROVE  Carries(s \o t, said)
<1>1. PICK S : s \in Seq(S) /\ \A n \in S : n.code = "success" => said = "success"
  BY DEF Carries
<1>2. PICK T : t \in Seq(T) /\ \A n \in T : n.code = "success" => said = "success"
  BY DEF Carries
<1>3. PICK U : U = S \cup T
  OBVIOUS
<1>4. s \in Seq(U) /\ t \in Seq(U) /\ \A n \in U : n.code = "success" => said = "success"
  BY <1>1, <1>2, <1>3
<1>5. s \o t \in Seq(U)
  BY <1>4
<1> QED BY <1>4, <1>5 DEF Carries

\* What the link takes.
LEMMA SentCarries ==
  ASSUME NEW said, NEW s, NEW t, Carries(s, said), Carries(t, said)
  PROVE  Carries(Sent(s, t), said)
BY CarriesConcat DEF Sent

\* A verdict that was given later.
LEMMA CarriesLater ==
  ASSUME NEW said, NEW s, Carries(s, said), NEW later, said = "success" => later = "success"
  PROVE  Carries(s, later)
BY DEF Carries

----------------------------------------------------------------------------
(* The tables.                                                             *)

\* From where a pass-through sends to its AAA server.
Outlet == {"InitializePassThrough", "AaaRequest"}

Own == {"Disable", "Initialize", "PickUpMethod", "DoPolicyCheck", "ProposeMethod", "BuildRequest",
        "SendRequest", "MethodResponse", "DoIntegrityCheck", "Discard", "Discard2", "Retransmit",
        "ReceiveMsg", "ResetMethod", "SendSuccess", "SendFailure", "nothing"}

Others == {"PickUpInitCheck", "AaaRequest", "DoIntegrityCheck2", "AaaContinue", "AaaSuccess",
           "AaaFailure", "PrepareRequest", "ReceiveMsg2", "Discard3",
           "CompletePassThroughWithSuccess", "CompletePassThroughWithFailure"}

\* What ends a conversation, takes a message or sends one again is the answer to one event.
AuthRowIs(r) ==
  /\ r[4] \in Own \cup Others
  /\ r[4] = "SendSuccess" => r[2] = "PolicySat"
  /\ r[4] = "SendFailure" => r[2] = "PolicyNotSat_EndSess"
  /\ r[4] = "AaaSuccess" => r[2] = "AaaSuccess" /\ r[3] = "AaaIdle"
  /\ r[4] = "AaaFailure" => r[2] = "AaaFailure"
  /\ r[2] = "SgAaaSuccess" <=> r[4] = "CompletePassThroughWithSuccess"
  /\ r[4] = "CompletePassThroughWithFailure" => r[2] = "SgAaaFailure"
  /\ r[4] = "DoIntegrityCheck2" => r[1] \in Outlet
  /\ r[4] = "AaaContinue" => r[2] = "AaaContinue"
  /\ r[4] \in {"ReceiveMsg", "ReceiveMsg2", "Discard2"} => r[2] = "RxMsg"
  /\ r[4] = "Discard3" => r[2] \in {"SgDiscard", "AaaContinue"}
  /\ r[4] = "Retransmit" => r[2] = "To"
  /\ r[4] = "SendRequest" => r[1] \in {"MethodRequest", "AaaResponse"}
  /\ r[3] = "MethodRequest" => r[4] = "BuildRequest"
  /\ r[3] = "AaaResponse" => r[4] = "PrepareRequest"

\* The rows of all machines.
LEMMA AuthRowsAre == ASSUME NEW r \in AuthRows PROVE AuthRowIs(r) /\ r[4] \in Own
<1> USE DEF AuthRowIs, Own
<1>1. CASE r \in AuthStarts
  BY <1>1 DEF AuthStarts
<1>2. CASE r \in AuthSelects
  BY <1>2 DEF AuthSelects
<1>3. CASE r \in AuthMethods
  BY <1>3 DEF AuthMethods
<1>4. CASE r \in AuthWaits
  BY <1>4 DEF AuthWaits
<1> QED BY <1>1, <1>2, <1>3, <1>4 DEF AuthRows

\* The rows of a kind of authenticator.
RowsOf(kind) == CASE kind = "standalone"  -> StandAloneTable
                  [] kind = "backend"     -> BackendTable
                  [] kind = "passthrough" -> PassThroughTable

\* The rows of a backend.
LEMMA BackendRowsAre == ASSUME NEW r \in BackendTable PROVE AuthRowIs(r) /\ r[4] \in Own
<1>1. CASE r \in AuthRows
  BY <1>1, AuthRowsAre
<1>2. CASE r \notin AuthRows
  BY <1>2 DEF BackendTable, AuthRowIs, Own
<1> QED BY <1>1, <1>2

\* The rows that only a pass-through has.
LEMMA PassThroughRowsAre ==
  ASSUME NEW r \in PassThroughAaa \cup PassThroughWaits
  PROVE  AuthRowIs(r)
<1> USE DEF AuthRowIs, Own, Others, Outlet
<1>1. CASE r \in PassThroughAaa
  BY <1>1 DEF PassThroughAaa
<1>2. CASE r \in PassThroughWaits
  BY <1>2 DEF PassThroughWaits
<1> QED BY <1>1, <1>2

\* Every row is one.
LEMMA RowsOfAre ==
  ASSUME NEW kind \in AuthKind, NEW r \in RowsOf(kind)
  PROVE  AuthRowIs(r) /\ (r[4] \in Own \/ kind = "passthrough")
<1>0. ASSUME r = <<"Initialize", "UCT", "SelectAction", "DoPolicyCheck">>
      PROVE  AuthRowIs(r) /\ r[4] \in Own
  BY <1>0 DEF AuthRowIs, Own
<1>1. CASE kind = "standalone"
  <2>1. r \in StandAloneTable
    BY <1>1 DEF RowsOf
  <2> QED BY <1>0, <2>1, AuthRowsAre DEF StandAloneTable
<1>2. CASE kind = "backend"
  <2>1. r \in BackendTable
    BY <1>2 DEF RowsOf
  <2> QED BY <2>1, BackendRowsAre
<1>3. CASE kind = "passthrough"
  <2>1. r \in PassThroughTable
    BY <1>3 DEF RowsOf
  <2>2. CASE r \in AuthRows
    BY <2>2, AuthRowsAre
  <2>3. CASE r \in PassThroughAaa \cup PassThroughWaits
    BY <1>3, <2>3, PassThroughRowsAre
  <2> QED BY <1>0, <2>1, <2>2, <2>3 DEF PassThroughTable
<1> QED BY <1>1, <1>2, <1>3 DEF AuthKind

\* The table of a kind.
LEMMA TableOf == ASSUME NEW kind \in AuthKind PROVE AuthTable[kind] = Indexed(RowsOf(kind))
BY DEF AuthKind, AuthTable, RowsOf

\* The leaves that all machines have.
LEMMA LeavesOwnAre == LeavesOwn = Own
<1>1. LeavesOwn \subseteq Own
  BY BackendRowsAre DEF LeavesOwn
<1>2. AuthRows \subseteq BackendTable
  BY DEF BackendTable
<1>3. /\ <<"Begin",    "Restart",     "Disabled",   "Disable">> \in BackendTable
      /\ <<"Disabled", "PortEnabled", "Initialize", "Initialize">> \in BackendTable
  BY <1>2 DEF AuthRows, AuthStarts
<1>4. /\ <<"SelectAction", "PolicySat",            "Success",       "SendSuccess">> \in BackendTable
      /\ <<"SelectAction", "PolicyNotSat_EndSess", "Failure",       "SendFailure">> \in BackendTable
      /\ <<"SelectAction", "Else",                 "ProposeMethod", "ProposeMethod">> \in BackendTable
      /\ <<"ProposeMethod", "ValidResp",           "MethodRequest", "BuildRequest">> \in BackendTable
      /\ <<"MethodRequest", "UCT",                 "SendRequest",   "SendRequest">> \in BackendTable
  BY <1>2 DEF AuthRows, AuthSelects
<1>5. /\ <<"IntegrityCheck", "ValidResp",   "MethodResponse", "MethodResponse">> \in BackendTable
      /\ <<"IntegrityCheck", "InvalidResp", "Discard",        "Discard">> \in BackendTable
      /\ <<"IntegrityCheck", "RxMsg",       "IntegrityCheck", "Discard2">> \in BackendTable
      /\ <<"MethodResponse", "EndMethod",   "SelectAction",   "DoPolicyCheck">> \in BackendTable
      /\ <<"SendRequest",    "UCT",         "Idle",           "nothing">> \in BackendTable
  BY <1>2 DEF AuthRows, AuthMethods
<1>6. /\ <<"Idle",       "To",                "Retransmit",     "Retransmit">> \in BackendTable
      /\ <<"Idle",       "RxMsg",             "Received",       "ReceiveMsg">> \in BackendTable
      /\ <<"Received",   "RxMethodResp",      "IntegrityCheck", "DoIntegrityCheck">> \in BackendTable
      /\ <<"Received",   "RxNak",             "Nak",            "ResetMethod">> \in BackendTable
  BY <1>2 DEF AuthRows, AuthWaits
<1>7. <<"Initialize",   "Else",      "PickUpMethod",   "PickUpMethod">> \in BackendTable
  BY DEF BackendTable
<1>8. \A r \in BackendTable : r[4] \in LeavesOwn
  BY DEF LeavesOwn
<1>9. /\ "Disable" \in LeavesOwn /\ "Initialize" \in LeavesOwn
  BY <1>3, <1>8
<1>10. /\ "SendSuccess" \in LeavesOwn /\ "SendFailure" \in LeavesOwn
       /\ "ProposeMethod" \in LeavesOwn /\ "BuildRequest" \in LeavesOwn
       /\ "SendRequest" \in LeavesOwn
  BY <1>4, <1>8
<1>11. /\ "MethodResponse" \in LeavesOwn /\ "Discard" \in LeavesOwn /\ "Discard2" \in LeavesOwn
       /\ "DoPolicyCheck" \in LeavesOwn /\ "nothing" \in LeavesOwn
  BY <1>5, <1>8
<1>12. /\ "Retransmit" \in LeavesOwn /\ "ReceiveMsg" \in LeavesOwn
       /\ "DoIntegrityCheck" \in LeavesOwn /\ "ResetMethod" \in LeavesOwn
  BY <1>6, <1>8
<1>13. "PickUpMethod" \in LeavesOwn
  BY <1>7, <1>8
<1> QED BY <1>1, <1>9, <1>10, <1>11, <1>12, <1>13 DEF Own

\* A table holds a row at its own state and event.
LEMMA IndexedRow ==
  ASSUME NEW rows, NEW st, NEW e, <<st, e>> \in DOMAIN Indexed(rows)
  PROVE  LET r == Indexed(rows)[st, e] IN r \in rows /\ r[1] = st /\ r[2] = e
<1> DEFINE P(r) == <<st, e>> = <<r[1], r[2]>>
<1>1. <<st, e>> \in {<<r[1], r[2]>> : r \in rows}
  BY DEF Indexed
<1>2. PICK q \in rows : P(q)
  BY <1>1
<1>3. Indexed(rows)[st, e] = CHOOSE r \in rows : P(r)
  BY <1>1 DEF Indexed
<1> HIDE DEF P
<1>4. Indexed(rows)[st, e] \in rows /\ P(Indexed(rows)[st, e])
  BY <1>2, <1>3
<1> QED BY <1>4 DEF P

\* The row that a machine finds for an event in its state.
LEMMA AuthRow ==
  ASSUME NEW kind \in AuthKind, NEW st, NEW e, <<st, e>> \in DOMAIN AuthTable[kind]
  PROVE  LET r == AuthTable[kind][st, e]
         IN AuthRowIs(r) /\ r[1] = st /\ r[2] = e /\ (r[4] \in Own \/ kind = "passthrough")
<1>1. PICK rows : rows = RowsOf(kind)
  OBVIOUS
<1>2. AuthTable[kind] = Indexed(rows)
  BY <1>1, TableOf
<1>3. PICK r : r = AuthTable[kind][st, e]
  OBVIOUS
<1>4. r \in rows /\ r[1] = st /\ r[2] = e
  <2>1. <<st, e>> \in DOMAIN Indexed(rows)
    BY <1>2
  <2>2. LET w == Indexed(rows)[st, e] IN w \in rows /\ w[1] = st /\ w[2] = e
    BY <2>1, IndexedRow
  <2> QED BY <1>2, <1>3, <2>2
<1>5. AuthRowIs(r) /\ (r[4] \in Own \/ kind = "passthrough")
  BY <1>1, <1>4, RowsOfAre
<1> QED BY <1>3, <1>4, <1>5

\* The verdict of the AAA server is always given on.
LEMMA VerdictRow == <<"AaaIdle", "SgAaaSuccess">> \in DOMAIN AuthTable["passthrough"]
<1>1. PICK kind, rows : kind = "passthrough" /\ rows = RowsOf(kind)
  OBVIOUS
<1>2. AuthTable[kind] = Indexed(rows)
  BY <1>1, TableOf DEF AuthKind
<1>3. PICK r : r = <<"AaaIdle", "SgAaaSuccess", "Success2", "CompletePassThroughWithSuccess">>
  OBVIOUS
<1>4. r \in rows
  BY <1>1, <1>3 DEF RowsOf, PassThroughTable, PassThroughAaa
<1>5. <<r[1], r[2]>> \in DOMAIN Indexed(rows)
  BY <1>4 DEF Indexed
<1> QED BY <1>1, <1>2, <1>3, <1>5
----------------------------------------------------------------------------
(* The invariant of an authenticator.                                      *)

AuthFields == {"kind", "fsm", "run", "q", "ev", "rx", "rxm", "txm", "aaa", "id", "cur", "policy",
               "at", "mstate", "meth", "trial", "done", "mem", "mkey", "key", "cnt", "armed",
               "said", "tx"}

\* The events that an authenticator of a kind does not have before its AAA server has
\* given this verdict.
Barred(kind, verdict) ==
  (IF verdict = "success" THEN {} ELSE {"AaaSuccess", "SgAaaSuccess"})
  \cup (IF verdict = "failure" THEN {} ELSE {"AaaFailure", "SgAaaFailure"})
  \cup (IF kind = "passthrough" THEN {"PolicySat", "PolicyNotSat_EndSess"} ELSE {})

\* The message to send is a Success only between the answer of the AAA server and
\* the one to the peer.
Unsent(x) ==
  x.txm.code = "success" => x.kind = "passthrough" /\ x.fsm = "AaaIdle" /\ x.ev = "SgAaaSuccess"

\* An authenticator whose AAA server has given this verdict.
Ready(x, verdict) ==
  /\ DOMAIN x = AuthFields
  /\ Free(x.q, Barred(x.kind, verdict)) /\ x.ev \notin Barred(x.kind, verdict)
  /\ x.run \in BOOLEAN /\ x.said \in {None, "success", "failure"}
  /\ x.run => x.said = None
  /\ x.said = None => Unsent(x)
  /\ x.kind = "passthrough" /\ x.said # None => x.said = verdict

\* None is nothing else.
LEMMA NoneIs ==
  /\ None \notin Code /\ None # "success" /\ None # "failure" /\ None # "SgSuccess"
  /\ \A kind, verdict : None \notin Barred(kind, verdict)
BY EapBaseAssumption DEF Barred, Code

\* An event that speaks of no verdict.
LEMMA PlainIs ==
  ASSUME NEW kind, NEW verdict, NEW e,
         e \notin {"AaaSuccess", "SgAaaSuccess", "AaaFailure", "SgAaaFailure", "PolicySat",
                   "PolicyNotSat_EndSess"}
  PROVE  e \notin Barred(kind, verdict)
BY DEF Barred

\* What was allowed before the verdict is allowed after it.
LEMMA BarredLess ==
  ASSUME NEW kind, NEW verdict
  PROVE  Barred(kind, verdict) \subseteq Barred(kind, None)
BY NoneIs DEF Barred
----------------------------------------------------------------------------
(* The methods of an authenticator.                                        *)

\* What a method leaves alone.
Control(x, y) ==
  /\ DOMAIN x = AuthFields /\ DOMAIN y = AuthFields
  /\ y.kind = x.kind /\ y.fsm = x.fsm /\ y.run = x.run /\ y.ev = x.ev /\ y.said = x.said
  /\ y.rx = x.rx /\ y.aaa = x.aaa
  /\ y.tx = x.tx /\ (y.txm = x.txm \/ y.txm.code \in {"request", None})

\* While it works, and when it is over.
Working(x, y)  == Control(x, y) /\ y.q = x.q
Methodical(x, y) ==
  Control(x, y) /\ (y.q = x.q \/ \E e \in {"ValidResp", "InvalidResp"} : y.q = Append(x.q, e))

\* The data of a method, of the policy and of the switch.
LEMMA DataIs ==
  ASSUME NEW x, NEW y, NEW v
  PROVE  /\ Working(x, y) => /\ Working(x, [y EXCEPT !.mem = v]) /\ Working(x, [y EXCEPT !.mkey = v])
                             /\ Working(x, [y EXCEPT !.at = v]) /\ Working(x, [y EXCEPT !.trial = v])
                             /\ Working(x, [y EXCEPT !.mstate = v]) /\ Working(x, [y EXCEPT !.meth = v])
                             /\ Working(x, [y EXCEPT !.txm = NoMessage])
                             /\ Working(x, Succeed(y)) /\ Working(x, Fail(y))
         /\ Methodical(x, y) => Methodical(x, [y EXCEPT !.mem = v])
<1> USE DEF Control, AuthFields
<1>1. ASSUME Working(x, y)
      PROVE  /\ Working(x, [y EXCEPT !.mem = v]) /\ Working(x, [y EXCEPT !.mkey = v])
             /\ Working(x, [y EXCEPT !.trial = v]) /\ Working(x, [y EXCEPT !.mstate = v])
             /\ Working(x, [y EXCEPT !.meth = v])
  BY <1>1 DEF Working
<1>2. ASSUME Working(x, y), NEW w PROVE Working(x, [y EXCEPT !.at = w])
  BY <1>2 DEF Working
<1>3. ASSUME Working(x, y) PROVE Working(x, [y EXCEPT !.txm = NoMessage])
  BY <1>3 DEF Working, NoMessage, Eap
<1>4. ASSUME Working(x, y) PROVE Working(x, Succeed(y)) /\ Working(x, Fail(y))
  BY <1>2, <1>4 DEF Succeed, Fail
<1>5. ASSUME Methodical(x, y) PROVE Methodical(x, [y EXCEPT !.mem = v])
  BY <1>5 DEF Methodical
<1> QED BY <1>1, <1>2, <1>3, <1>4, <1>5

\* The ways in which a method answers the switch.
LEMMA AsksIs ==
  ASSUME NEW x, NEW y, Working(x, y), NEW meth, NEW data, NEW e \in {"ValidResp", "InvalidResp"}
  PROVE  /\ Methodical(x, Asks(y, meth, data)) /\ Methodical(x, MethodEnds(y, meth, e))
         /\ Methodical(x, Notify(y, e)) /\ Methodical(x, y)
<1> USE DEF Methodical, Working, Control, AuthFields
<1>1. Methodical(x, Notify(y, e)) /\ Methodical(x, y)
  BY DEF Notify
<1>2. Methodical(x, MethodEnds(y, meth, e))
  BY DEF MethodEnds, Notify
<1>3. PICK m : m = Eap("request", 0, y.cur, data)
  OBVIOUS
<1>4. m.code = "request"
  BY <1>3 DEF Eap
<1>5. PICK z : z = [y EXCEPT !.meth = meth, !.txm = m]
  OBVIOUS
<1>6. Asks(y, meth, data) = [z EXCEPT !.q = Append(y.q, "ValidResp")]
  BY <1>3, <1>5 DEF Asks, Notify
<1>7. z.q = y.q /\ z.txm = m /\ DOMAIN z = AuthFields
  BY <1>5
<1>8. Methodical(x, Asks(y, meth, data))
  BY <1>4, <1>5, <1>6, <1>7
<1> QED BY <1>1, <1>2, <1>8

\* A method that does nothing yet.
LEMMA WorkingSelf == ASSUME NEW x, DOMAIN x = AuthFields PROVE Working(x, x)
BY DEF Working, Control

\* EAP-Archie.
LEMMA AuthArchieIs == ASSUME NEW x, DOMAIN x = AuthFields PROVE Methodical(x, AuthArchie(x))
<1>1. Working(x, x)
  BY WorkingSelf
<1>2. ASSUME NEW meth PROVE Methodical(x, ArchieFails(x, meth))
  BY <1>1, DataIs, AsksIs DEF ArchieFails
<1>3. Methodical(x, AuthArchieRequest(x))
  BY <1>1, AsksIs DEF AuthArchieRequest
<1>4. Methodical(x, AuthArchieConfirm(x))
  BY <1>1, <1>2, DataIs, AsksIs DEF AuthArchieConfirm
<1>5. Methodical(x, AuthArchieFinish(x))
  BY <1>1, <1>2, DataIs, AsksIs DEF AuthArchieFinish
<1>6. Methodical(x, x)
  BY <1>1, AsksIs
<1> QED BY <1>3, <1>4, <1>5, <1>6 DEF AuthArchie

\* EAP-GPSK.
LEMMA AuthGpskIs == ASSUME NEW x, DOMAIN x = AuthFields PROVE Methodical(x, AuthGpsk(x))
<1>1. Working(x, x)
  BY WorkingSelf
<1>2. Methodical(x, AuthGpsk1(x))
  BY <1>1, DataIs, AsksIs DEF AuthGpsk1
<1>3. Methodical(x, AuthGpsk2(x))
  BY <1>1, DataIs, AsksIs DEF AuthGpsk2
<1>4. Methodical(x, AuthGpskFailed(x))
  BY <1>1, DataIs, AsksIs DEF AuthGpskFailed
<1>5. Methodical(x, AuthGpsk4(x))
  BY <1>1, DataIs, AsksIs DEF AuthGpsk4
<1>6. Methodical(x, x)
  BY <1>1, AsksIs
<1> QED BY <1>2, <1>3, <1>4, <1>5, <1>6 DEF AuthGpsk

\* EAP-TLS: what the engine, the fragments and the alerts change is the memory.
LEMMA TlsDataIs ==
  ASSUME NEW x, NEW y, Working(x, y), NEW m, NEW r
  PROVE  /\ Working(x, Fed(y, r)) /\ Working(x, Gathered(y, m))
         /\ Methodical(x, AuthTlsSends(y)) /\ Methodical(x, AuthTlsInvalid(y))
         /\ Methodical(x, AuthTlsWent(y, m))
<1> USE DEF Working, Methodical, Control, AuthFields
<1>1. Working(x, Fed(y, r))
  BY DEF Fed
<1>2. Working(x, Gathered(y, m))
  BY DEF Gathered
<1>3. ASSUME NEW z, Methodical(x, z) PROVE Methodical(x, Advanced(z))
  BY <1>3 DEF Advanced
<1> USE Working(x, y)
<1> HIDE DEF Working, Methodical, Control, AuthFields
<1>4. Methodical(x, AuthTlsSends(y))
  BY <1>3, AsksIs DEF AuthTlsSends
<1>5. Methodical(x, AuthTlsInvalid(y))
  BY DataIs, AsksIs DEF AuthTlsInvalid
<1>6. Methodical(x, AuthTlsWent(y, m))
  BY DataIs, AsksIs DEF AuthTlsWent, AuthTlsFails
<1> QED BY <1>1, <1>2, <1>4, <1>5, <1>6

\* The machine of EAP-TLS.
LEMMA AuthTlsIs == ASSUME NEW x, DOMAIN x = AuthFields PROVE Methodical(x, AuthTls(x))
<1>1. Working(x, x)
  BY WorkingSelf
<1>2. Methodical(x, AuthTlsStart(x))
  BY <1>1, DataIs, AsksIs DEF AuthTlsStart
<1>3. ASSUME NEW m PROVE Methodical(x, AuthTlsHello(x, m))
  BY <1>1, TlsDataIs DEF AuthTlsHello
<1>4. Methodical(x, AuthTlsAcked(x))
  BY <1>1, TlsDataIs DEF AuthTlsAcked
<1>5. ASSUME NEW m PROVE Methodical(x, AuthTlsReceives(x, m))
  <2>1. PICK y : y = Gathered(x, m)
    OBVIOUS
  <2>2. PICK r : r = AuthEngine(y.mem.eng, y.mem.in)
    OBVIOUS
  <2>3. PICK z : z = Fed(y, r)
    OBVIOUS
  <2>4. Working(x, y) /\ Methodical(x, AuthTlsInvalid(x))
    BY <1>1, <2>1, TlsDataIs
  <2>5. Working(x, z)
    BY <2>3, <2>4, TlsDataIs
  <2>6. /\ Methodical(x, AuthTlsWent(z, r.result))
    BY <2>5, TlsDataIs
  <2>7. /\ Methodical(x, Asks(y, "ProcessResponseSecondWay", Ack))
        /\ Methodical(x, Asks(z, "SentRequestFinish", Fragment(z.mem)))
    BY <2>4, <2>5, AsksIs
  <2>8. AuthTlsReceives(x, m) \in {AuthTlsInvalid(x), Asks(y, "ProcessResponseSecondWay", Ack),
                                   Asks(z, "SentRequestFinish", Fragment(z.mem)),
                                   AuthTlsWent(z, r.result)}
    BY <2>1, <2>2, <2>3 DEF AuthTlsReceives, Misplaced
  <2> QED BY <2>4, <2>6, <2>7, <2>8
<1>6. Methodical(x, AuthTlsFinish(x))
  <2>1. PICK r : r = AuthEngine(x.mem.eng, x.mem.in)
    OBVIOUS
  <2>2. PICK y : y = Fed(x, r)
    OBVIOUS
  <2>3. Working(x, y)
    BY <1>1, <2>2, TlsDataIs
  <2>4. Methodical(x, MethodEnds(Succeed(y), "Success", "ValidResp"))
    BY <2>3, DataIs, AsksIs
  <2>5. Methodical(x, AuthTlsWent(y, r.result))
    BY <2>3, TlsDataIs
  <2> QED BY <2>1, <2>2, <2>4, <2>5 DEF AuthTlsFinish
<1>7. Methodical(x, AuthTlsFails(x)) /\ Methodical(x, x)
  BY <1>1, DataIs, AsksIs DEF AuthTlsFails
<1> QED BY <1>2, <1>3, <1>4, <1>5, <1>6, <1>7 DEF AuthTls

\* The methods of the core, and all of them.
LEMMA AuthMethodIs ==
  ASSUME NEW x, DOMAIN x = AuthFields, NEW known, NEW pickup
  PROVE  Methodical(x, AuthMethod(x, known, pickup))
<1>1. Working(x, x)
  BY WorkingSelf
<1>2. Methodical(x, x)
  BY <1>1, AsksIs
<1>3. Methodical(x, AuthIdentity(x, known, pickup))
  BY <1>1, <1>2, DataIs, AsksIs DEF AuthIdentity
<1>4. Methodical(x, AuthNotification(x))
  BY <1>1, <1>2, DataIs, AsksIs DEF AuthNotification
<1>5. Methodical(x, AuthMD5(x))
  BY <1>1, <1>2, DataIs, AsksIs DEF AuthMD5
<1> QED BY <1>3, <1>4, <1>5, AuthArchieIs, AuthGpskIs, AuthTlsIs DEF AuthMethod

----------------------------------------------------------------------------
(* What the rows of an authenticator do.                                   *)

\* A row that leads to no verdict: at most one request is sent, the one that was made.
Plainly(x, y) ==
  /\ DOMAIN y = AuthFields
  /\ y.kind = x.kind /\ y.fsm = x.fsm /\ y.run = x.run /\ y.said = x.said
  /\ y.q = x.q \/ \E e \in {"UCT", "Else", "IntegrityCheck"} : y.q = Append(x.q, e)
  /\ \A v : y.ev \notin Barred(x.kind, v)
  /\ y.txm = x.txm \/ y.txm.code = "request"
  /\ y.tx = x.tx \/ y.tx = Append(x.tx, x.txm)

\* The events that are not raised, and those that announce a wait in dequeue_head().
Verdicts == {"AaaSuccess", "AaaFailure"}
Aaa      == {"AaaContinue"} \cup Verdicts
Foreign  == {"RxMsg", "To"} \cup Aaa
Takings  == {"Dequeue", "Discard2", "Discard3", "SgDiscard"}

\* Besides, no message is taken; and none is sent.
Gentle(x, y) ==
  Plainly(x, y) /\ y.rx = x.rx /\ y.aaa = x.aaa /\ y.ev \notin Foreign \cup Takings
Silent(x, y) == Gentle(x, y) /\ y.tx = x.tx

\* A machine that is about to do what a row says.
Doing(x) == DOMAIN x = AuthFields /\ x.ev = None

\* Control of the switch without a verdict.
Same(x, y) ==
  /\ DOMAIN y = AuthFields /\ y.kind = x.kind /\ y.fsm = x.fsm /\ y.run = x.run /\ y.said = x.said
  /\ y.q = x.q /\ y.ev = None /\ y.tx = x.tx /\ (y.txm = x.txm \/ y.txm.code = "request")
  /\ y.rx = x.rx /\ y.aaa = x.aaa

\* None is none of the events that matter here.
LEMMA NoneIsStill == None \notin Foreign \cup Takings \cup {"UCT"}
BY EapBaseAssumption DEF Foreign, Takings, Aaa, Verdicts

\* An event raised or queued.
LEMMA PlainlyIs ==
  ASSUME NEW x, NEW y, Same(x, y)
  PROVE  /\ Silent(x, y)
         /\ \A e : (\A v : e \notin Barred(x.kind, v)) =>
              Plainly(x, Event(y, e)) /\ (e \notin Foreign \cup Takings => Silent(x, Event(y, e)))
         /\ \A e \in {"UCT", "Else", "IntegrityCheck"} : Silent(x, Notify(y, e))
<1> USE DEF Plainly, Gentle, Silent, Same, AuthFields
<1>1. \A v : None \notin Barred(x.kind, v)
  BY NoneIs
<1>2. None \notin Foreign \cup Takings
  BY NoneIsStill
<1>3. Silent(x, y)
  BY <1>1, <1>2
<1>4. ASSUME NEW e, \A v : e \notin Barred(x.kind, v)
      PROVE  Plainly(x, Event(y, e)) /\ (e \notin Foreign \cup Takings => Silent(x, Event(y, e)))
  BY <1>4 DEF Event
<1>5. ASSUME NEW e \in {"UCT", "Else", "IntegrityCheck"} PROVE Silent(x, Notify(y, e))
  BY <1>1, <1>2 DEF Notify
<1> QED BY <1>3, <1>4, <1>5

\* An event that speaks of no verdict.
LEMMA EventIs ==
  ASSUME NEW x, NEW y, Same(x, y),
         NEW e, e \notin {"AaaSuccess", "SgAaaSuccess", "AaaFailure", "SgAaaFailure", "PolicySat",
                          "PolicyNotSat_EndSess"}
  PROVE  Plainly(x, Event(y, e)) /\ (e \notin Foreign \cup Takings => Silent(x, Event(y, e)))
<1>1. \A v : e \notin Barred(x.kind, v)
  BY PlainIs
<1> QED BY <1>1, PlainlyIs

\* The same for the events that are no answer of the server and no wait.
LEMMA SilentIs ==
  ASSUME NEW x, NEW y, Same(x, y),
         NEW e \in {"UCT", "Else", "PortEnabled", "RxNonResp", "RxNak", "RxMethodResp", "NoMethod",
                    "EndMethod", "MaxRetransmission", "NoPickUpInit", "PickUpInit"}
  PROVE  Silent(x, Event(y, e))
<1>1. e \notin Foreign \cup Takings
  BY DEF Foreign, Takings, Aaa, Verdicts
<1> QED BY <1>1, EventIs

\* Data of the switch and of its method.
LEMMA SameIs ==
  ASSUME NEW x, NEW y, Same(x, y), NEW v
  PROVE  /\ Same(x, [y EXCEPT !.id = v]) /\ Same(x, [y EXCEPT !.cur = v])
         /\ Same(x, [y EXCEPT !.mstate = v]) /\ Same(x, [y EXCEPT !.at = v])
         /\ Same(x, [y EXCEPT !.armed = v]) /\ Same(x, [y EXCEPT !.key = v])
         /\ Same(x, [y EXCEPT !.rxm = v])
         /\ Same(x, NewMethod(y, v)) /\ Same(x, UpdateNak(y, v))
<1> USE DEF Same, AuthFields
<1>1. /\ Same(x, [y EXCEPT !.id = v]) /\ Same(x, [y EXCEPT !.cur = v])
      /\ Same(x, [y EXCEPT !.mstate = v]) /\ Same(x, [y EXCEPT !.armed = v])
      /\ Same(x, [y EXCEPT !.key = v]) /\ Same(x, [y EXCEPT !.rxm = v])
  OBVIOUS
<1>2. ASSUME NEW w PROVE Same(x, [y EXCEPT !.at = w])
  OBVIOUS
<1>3. Same(x, NewMethod(y, v))
  BY DEF NewMethod
<1>4. Same(x, UpdateNak(y, v))
  BY <1>2 DEF UpdateNak
<1> QED BY <1>1, <1>2, <1>3, <1>4

\* The rows that all machines have, without those that end a conversation or wait
\* for a message.
LEMMA OwnIs ==
  ASSUME NEW x, Doing(x), NEW do \in Own \ {"SendSuccess", "SendFailure", "nothing",
                                           "ReceiveMsg", "Discard2"}
  PROVE  /\ Gentle(x, AuthLeafOwn(x, do))
         /\ do \in {"SendRequest", "Retransmit"} \/ Silent(x, AuthLeafOwn(x, do))
<1>0. Same(x, x)
  BY DEF Doing, Same
<1>1. Silent(x, AuthInitialize(x))
  <2>1. Same(x, [x EXCEPT !.id = 0])
    BY <1>0, SameIs
  <2>2. PICK y, m : y = [x EXCEPT !.id = 0] /\ m = x.rxm
    OBVIOUS
  <2>3. PICK z : z = [y EXCEPT !.id = m.id]
    OBVIOUS
  <2>4. PICK w : w = [z EXCEPT !.cur = m.type]
    OBVIOUS
  <2>5. [y EXCEPT !.id = m.id, !.cur = m.type] = w
    BY <2>3, <2>4
  <2>6. Same(x, y) /\ Same(x, z) /\ Same(x, w)
    BY <2>1, <2>2, <2>3, <2>4, SameIs
  <2>7. AuthInitialize(x) \in {Event(y, "UCT"), Event(y, "Else"), Event(y, "RxNonResp"),
                               Event(z, "RxNonResp"), Event(w, "RxNak"), Event(w, "Else")}
    BY <2>2, <2>3, <2>5 DEF AuthInitialize, BackendInitialize
  <2> QED BY <2>6, <2>7, SilentIs
<1>2. Silent(x, PickUpMethod(x))
  BY <1>0, SameIs, SilentIs DEF PickUpMethod
<1>3. Silent(x, DoPolicyCheck2(x))
  <2>0. {"PassThrough", "PolicySat", "PolicyNotSat_EndSess", "Else"} \cap (Foreign \cup Takings) = {}
    BY DEF Foreign, Takings, Aaa, Verdicts
  <2>1. CASE x.kind = "passthrough"
    BY <1>0, <2>0, <2>1, EventIs DEF DoPolicyCheck2
  <2>2. CASE x.kind # "passthrough"
    <3>1. ASSUME NEW e \in {"PassThrough", "PolicySat", "PolicyNotSat_EndSess", "Else"}
          PROVE  \A v : e \notin Barred(x.kind, v)
      BY <2>2 DEF Barred
    <3>2. \E e \in {"PassThrough", "PolicySat", "PolicyNotSat_EndSess", "Else"} :
             DoPolicyCheck2(x) = Event(x, e)
      BY DEF DoPolicyCheck2
    <3> QED BY <1>0, <2>0, <3>1, <3>2, PlainlyIs
  <2> QED BY <2>1, <2>2
<1>4. Silent(x, ProposeMethod(x))
  BY <1>0, SameIs, PlainlyIs DEF ProposeMethod
<1>5. Silent(x, BuildRequest(x))
  <2>1. PICK id : id = (x.id + 1) % 256
    OBVIOUS
  <2>2. PICK m : m = Eap("request", id, x.txm.type, x.txm.data)
    OBVIOUS
  <2>3. m.code = "request"
    BY <2>2 DEF Eap
  <2>4. PICK y : y = [x EXCEPT !.id = id, !.txm = m]
    OBVIOUS
  <2>5. Same(x, y)
    BY <1>0, <2>3, <2>4 DEF Same, AuthFields
  <2>6. x.txm = x.txm /\ BuildRequest(x) = Event(y, "UCT")
    BY <1>0, <2>1, <2>2, <2>4 DEF BuildRequest, Same, AuthFields
  <2> QED BY <2>5, <2>6, SilentIs
<1>6. Gentle(x, SendRequest(x))
  BY NoneIs, NoneIsStill DEF SendRequest, Notify, Gentle, Plainly, Doing, AuthFields
<1>7. Gentle(x, Retransmit(x))
  <2>1. CASE x.cnt < MaxRetransmission
    BY <2>1, NoneIs, NoneIsStill DEF Retransmit, Notify, Gentle, Plainly, Doing, AuthFields
  <2>2. CASE ~(x.cnt < MaxRetransmission)
    BY <1>0, <2>2, SameIs, SilentIs DEF Retransmit, Silent
  <2> QED BY <2>1, <2>2
<1>8. Silent(x, MethodResponse(x))
  <2>1. PICK k : k = IF x.mkey # None \/ x.kind # "standalone" THEN x.mkey ELSE x.key
    OBVIOUS
  <2>2. PICK y, z : y = [x EXCEPT !.mstate = "END"] /\ z = [y EXCEPT !.key = k]
    OBVIOUS
  <2>3. Same(x, z) /\ Same(x, [x EXCEPT !.mstate = "CONT"])
    BY <1>0, <2>2, SameIs
  <2>4. MethodResponse(x) \in {Event(z, "EndMethod"), Event([x EXCEPT !.mstate = "CONT"], "Else")}
    BY <1>0, <2>1, <2>2 DEF MethodResponse, Same, AuthFields
  <2> QED BY <2>3, <2>4, SilentIs
<1>9. Silent(x, ResetMethod(x))
  BY <1>0, SameIs, SilentIs DEF ResetMethod, PutAside
<1>10. Silent(x, Notify(x, "IntegrityCheck"))
  BY <1>0, PlainlyIs
<1>11. \A e \in {"PortEnabled", "UCT"} : Silent(x, Event(x, e))
  BY <1>0, SilentIs
<1> QED BY <1>1, <1>2, <1>3, <1>4, <1>5, <1>6, <1>7, <1>8, <1>9, <1>10, <1>11 DEF AuthLeafOwn, Own, Silent

\* A step of an authenticator: what it sends to the peer, it has the right to send.
Rightly(y, kind, verdict, st) ==
  Ready(y, verdict) /\ y.kind = kind /\ (Carries(y.tx, y.said) \/ st \in Outlet)

\* A row that leads to no verdict, of a machine whose message is no Success.
LEMMA PlainlyRightly ==
  ASSUME NEW x, NEW verdict, Free(x.q, Barred(x.kind, verdict)), x.run = TRUE,
         x.said = None, x.tx = <<>>, x.txm.code # "success", NEW y, Plainly(x, y), NEW st
  PROVE  Rightly(y, x.kind, verdict, st)
<1>1. /\ DOMAIN y = AuthFields /\ y.kind = x.kind /\ y.run = TRUE /\ y.said = None
      /\ y.ev \notin Barred(x.kind, verdict) /\ y.txm.code # "success"
  BY DEF Plainly
<1>2. Free(y.q, Barred(x.kind, verdict))
  <2>1. \A e \in {"UCT", "Else", "IntegrityCheck"} : e \notin Barred(x.kind, verdict)
    BY PlainIs
  <2> QED BY <2>1, FreeAppend DEF Plainly
<1>3. Carries(y.tx, None)
  <2>1. Carries(<<>>, None)
    BY CarriesEmpty
  <2>2. Carries(Append(<<>>, x.txm), None)
    BY <2>1, CarriesAppend
  <2> QED BY <2>1, <2>2 DEF Plainly
<1> QED BY <1>1, <1>2, <1>3 DEF Rightly, Ready, Unsent

\* A verdict is the one of the AAA server, or of a machine that has a policy.
LEMMA SaysRightly ==
  ASSUME NEW x, Doing(x), NEW verdict, NEW m, NEW said \in {"success", "failure"},
         x.kind = "passthrough" => said = verdict, x.tx = <<>>,
         m.code = "success" => said = "success", NEW st
  PROVE  Rightly(AuthSays(x, m, said), x.kind, verdict, st)
<1>1. PICK y : y = AuthSays(x, m, said)
  OBVIOUS
<1>2. /\ DOMAIN y = AuthFields /\ y.kind = x.kind /\ y.q = <<>> /\ y.ev = None /\ y.said = said
      /\ y.run = FALSE
  BY <1>1 DEF AuthSays, Stop, Doing, AuthFields
<1>3. y.tx = Append(<<>>, m)
  BY <1>1 DEF AuthSays, Stop, Doing, AuthFields
<1>4. Carries(y.tx, said)
  BY <1>3, CarriesEmpty, CarriesAppend
<1> QED BY <1>1, <1>2, <1>4, FreeEmpty, NoneIs DEF Rightly, Ready

\* What the AAA server has sent: it is looked at before it becomes the message.
LEMMA TakesRightly ==
  ASSUME NEW x, Doing(x), NEW verdict, Free(x.q, Barred(x.kind, verdict)), x.run = TRUE,
         x.said = None, x.tx = <<>>, x.txm.code # "success", NEW code, NEW e,
         e \notin Barred(x.kind, verdict),
         code = "success" => x.kind = "passthrough" /\ x.fsm = "AaaIdle" /\ e = "SgAaaSuccess",
         NEW st
  PROVE  Rightly(AaaTakes(x, code, e), x.kind, verdict, st)
<1>1. PICK m : m = Head(x.aaa)
  OBVIOUS
<1>2. PICK y, z : y = [x EXCEPT !.aaa = Tail(@)] /\ z = AaaTakes(x, code, e)
  OBVIOUS
<1>3. "SgDiscard" \notin Barred(x.kind, verdict)
  BY PlainIs
<1>4. Carries(x.tx, None)
  BY CarriesEmpty
<1>5. CASE m.code # code
  <2>1. z = Event(y, "SgDiscard")
    BY <1>1, <1>2, <1>5 DEF AaaTakes
  <2>2. /\ DOMAIN z = AuthFields /\ z.kind = x.kind /\ z.q = x.q /\ z.ev = "SgDiscard"
        /\ z.said = None /\ z.run = TRUE /\ z.tx = x.tx /\ z.txm = x.txm
    BY <1>2, <2>1 DEF Event, Doing, AuthFields
  <2> QED BY <1>2, <1>3, <1>4, <2>2 DEF Rightly, Ready, Unsent
<1>6. CASE m.code = code
  <2>1. z = Event([y EXCEPT !.id = m.id, !.txm = m], e)
    BY <1>1, <1>2, <1>6 DEF AaaTakes
  <2>2. /\ DOMAIN z = AuthFields /\ z.kind = x.kind /\ z.q = x.q /\ z.ev = e /\ z.fsm = x.fsm
        /\ z.said = None /\ z.run = TRUE /\ z.tx = x.tx /\ z.txm = m
    BY <1>2, <2>1 DEF Event, Doing, AuthFields
  <2> QED BY <1>2, <1>4, <1>6, <2>2 DEF Rightly, Ready, Unsent
<1> QED BY <1>5, <1>6

\* Every row.
LEMMA LeafRightly ==
  ASSUME NEW x, Doing(x), NEW verdict, Free(x.q, Barred(x.kind, verdict)), x.run = TRUE,
         x.said = None, x.tx = <<>>, NEW r, AuthRowIs(r), x.fsm = r[3],
         r[4] \in Own \/ x.kind = "passthrough", r[2] \notin Barred(x.kind, verdict),
         x.txm.code = "success" => r[2] = "SgAaaSuccess"
  PROVE  Rightly(AuthLeaf(x, r[4]), x.kind, verdict, r[1])
<1>1. PICK y, do, st, e : y = AuthLeaf(x, r[4]) /\ do = r[4] /\ st = r[1] /\ e = r[2]
  OBVIOUS
<1>2. /\ do \in Own \cup Others
      /\ do = "SendSuccess" => e = "PolicySat"
      /\ do = "SendFailure" => e = "PolicyNotSat_EndSess"
      /\ do = "AaaSuccess" => e = "AaaSuccess" /\ x.fsm = "AaaIdle"
      /\ do = "AaaFailure" => e = "AaaFailure"
      /\ do = "CompletePassThroughWithSuccess" => e = "SgAaaSuccess"
      /\ do = "CompletePassThroughWithFailure" => e = "SgAaaFailure"
      /\ do = "DoIntegrityCheck2" => st \in Outlet
      /\ e \notin Barred(x.kind, verdict)
      /\ do \in Own \/ x.kind = "passthrough"
  BY <1>1 DEF AuthRowIs
<1>3. x.txm.code = "success" => do = "CompletePassThroughWithSuccess"
  BY <1>1 DEF AuthRowIs
<1>4. Same(x, x)
  BY DEF Doing, Same
<1>5. CASE do = "nothing"
  <2>1. y = x
    BY <1>1, <1>5 DEF AuthLeaf
  <2>2. Plainly(x, x) /\ x.txm.code # "success"
    BY <1>3, <1>4, <1>5, PlainlyIs DEF Silent, Gentle
  <2> QED BY <1>1, <2>1, <2>2, PlainlyRightly
<1>6. CASE do \in Own \ {"SendSuccess", "SendFailure", "nothing", "ReceiveMsg", "Discard2"}
  <2>1. y = AuthLeafOwn(x, do)
    BY <1>1, <1>6, LeavesOwnAre DEF AuthLeaf, Own
  <2>2. x.txm.code # "success"
    BY <1>3, <1>6 DEF Own
  <2>3. Plainly(x, y)
    BY <1>6, <2>1, OwnIs DEF Gentle
  <2> QED BY <1>1, <2>2, <2>3, PlainlyRightly
<1>7. CASE do \in {"SendSuccess", "SendFailure"}
  <2>1. PICK said : said = IF do = "SendSuccess" THEN "success" ELSE "failure"
    OBVIOUS
  <2>2. PICK m : m = Eap(said, x.id, None, None)
    OBVIOUS
  <2>3. y = AuthSays(x, m, said)
    BY <1>1, <1>7, <2>1, <2>2, LeavesOwnAre DEF AuthLeaf, AuthLeafOwn, Own
  <2>4. m.code = said
    BY <2>2 DEF Eap
  <2>5. x.kind # "passthrough"
    BY <1>2, <1>7 DEF Barred
  <2>6. said \in {"success", "failure"}
    BY <2>1
  <2> QED BY <1>1, <2>3, <2>4, <2>5, <2>6, SaysRightly
<1>8. CASE do \in {"CompletePassThroughWithSuccess", "CompletePassThroughWithFailure"}
  <2>1. PICK said : said = IF do = "CompletePassThroughWithSuccess" THEN "success" ELSE "failure"
    OBVIOUS
  <2>2. do \notin LeavesOwn
    BY <1>8, LeavesOwnAre DEF Own
  <2>3. y = AuthSays(x, x.txm, said)
    BY <1>1, <1>8, <2>1, <2>2 DEF AuthLeaf, PassThroughLeaf
  <2>4. x.txm.code = "success" => said = "success"
    BY <1>3, <2>1
  <2>5. said = verdict
    BY <1>2, <1>8, <2>1 DEF Barred
  <2>6. said \in {"success", "failure"}
    BY <2>1
  <2> QED BY <1>1, <2>3, <2>4, <2>5, <2>6, SaysRightly
<1>9. CASE do \in {"AaaContinue", "AaaSuccess", "AaaFailure"}
  <2>1. do \notin LeavesOwn /\ do # "nothing" /\ x.txm.code # "success" /\ x.kind = "passthrough"
    BY <1>2, <1>3, <1>9, LeavesOwnAre DEF Own
  <2>2. CASE do = "AaaContinue"
    <3>1. y = AaaTakes(x, "request", "RxAaaEapReq")
      BY <1>1, <2>1, <2>2 DEF AuthLeaf, PassThroughLeaf
    <3>2. "RxAaaEapReq" \notin Barred(x.kind, verdict)
      BY PlainIs
    <3> QED BY <1>1, <2>1, <3>1, <3>2, TakesRightly
  <2>3. CASE do = "AaaSuccess"
    <3>1. y = AaaTakes(x, "success", "SgAaaSuccess")
      BY <1>1, <2>1, <2>3 DEF AuthLeaf, PassThroughLeaf
    <3>2. "SgAaaSuccess" \notin Barred(x.kind, verdict) /\ x.fsm = "AaaIdle"
      BY <1>2, <2>3 DEF Barred
    <3> QED BY <1>1, <2>1, <3>1, <3>2, TakesRightly
  <2>4. CASE do = "AaaFailure"
    <3>1. y = AaaTakes(x, "failure", "SgAaaFailure")
      BY <1>1, <2>1, <2>4 DEF AuthLeaf, PassThroughLeaf
    <3>2. "SgAaaFailure" \notin Barred(x.kind, verdict)
      BY <1>2, <2>4 DEF Barred
    <3> QED BY <1>1, <2>1, <3>1, <3>2, TakesRightly
  <2> QED BY <1>9, <2>2, <2>3, <2>4
<1>10. CASE do = "DoIntegrityCheck2"
  <2>1. do \notin LeavesOwn
    BY <1>10, LeavesOwnAre DEF Own
  <2>2. y = [x EXCEPT !.tx = Append(@, x.rxm)]
    BY <1>1, <1>10, <2>1 DEF AuthLeaf, PassThroughLeaf
  <2>3. x.txm.code # "success" /\ st \in Outlet
    BY <1>2, <1>3, <1>10
  <2>4. /\ DOMAIN y = AuthFields /\ y.kind = x.kind /\ y.q = x.q /\ y.ev = None
        /\ y.said = None /\ y.run = TRUE /\ y.txm = x.txm
    BY <2>2 DEF Doing, AuthFields
  <2> QED BY <1>1, <2>3, <2>4, NoneIs DEF Rightly, Ready, Unsent
<1>11. CASE do \in {"PickUpInitCheck", "AaaRequest", "PrepareRequest", "ReceiveMsg2", "Discard3"}
  <2>1. do \notin LeavesOwn /\ do # "nothing"
    BY <1>11, LeavesOwnAre DEF Own
  <2>2. \E d \in {"NoPickUpInit", "PickUpInit", "UCT", "Dequeue", "Discard3"} : y = Event(x, d)
    BY <1>1, <1>11, <2>1 DEF AuthLeaf, PassThroughLeaf
  <2>3. Plainly(x, y) /\ x.txm.code # "success"
    BY <1>3, <1>4, <1>11, <2>2, EventIs
  <2> QED BY <1>1, <2>3, PlainlyRightly
<1>12. CASE do \in {"ReceiveMsg", "Discard2"}
  <2>1. do \in LeavesOwn /\ do # "nothing"
    BY <1>12, LeavesOwnAre DEF Own
  <2>2. \E d \in {"Dequeue", "Discard2"} : y = Event(x, d)
    BY <1>1, <1>12, <2>1 DEF AuthLeaf, AuthLeafOwn
  <2>3. Plainly(x, y) /\ x.txm.code # "success"
    BY <1>3, <1>4, <1>12, <2>2, EventIs
  <2> QED BY <1>1, <2>3, PlainlyRightly
<1> QED BY <1>2, <1>5, <1>6, <1>7, <1>8, <1>9, <1>10, <1>11, <1>12 DEF Own, Others

\* An event of a machine, in a state that has a row for it or has none.
LEMMA FireRightly ==
  ASSUME NEW x, Doing(x), x.kind \in AuthKind, NEW verdict, Free(x.q, Barred(x.kind, verdict)),
         x.run = TRUE, x.said = None, x.tx = <<>>, NEW e, e \notin Barred(x.kind, verdict),
         x.txm.code = "success" => x.kind = "passthrough" /\ x.fsm = "AaaIdle" /\ e = "SgAaaSuccess"
  PROVE  Rightly(AuthFire(x, e), x.kind, verdict, x.fsm)
<1>1. CASE <<x.fsm, e>> \notin DOMAIN AuthTable[x.kind]
  <2>1. AuthFire(x, e) = x
    BY <1>1 DEF AuthFire
  <2>2. x.txm.code # "success"
    BY <1>1, VerdictRow
  <2>3. Same(x, x)
    BY DEF Doing, Same
  <2>4. Plainly(x, x)
    BY <2>3, PlainlyIs DEF Silent, Gentle
  <2> QED BY <2>1, <2>2, <2>4, PlainlyRightly
<1>2. CASE <<x.fsm, e>> \in DOMAIN AuthTable[x.kind]
  <2>1. PICK r : r = AuthTable[x.kind][x.fsm, e]
    OBVIOUS
  <2>2. PICK z : z = [x EXCEPT !.fsm = r[3]]
    OBVIOUS
  <2>3. AuthFire(x, e) = AuthLeaf(z, r[4])
    BY <1>2, <2>1, <2>2 DEF AuthFire
  <2>4. AuthRowIs(r) /\ r[1] = x.fsm /\ r[2] = e /\ (r[4] \in Own \/ x.kind = "passthrough")
    <3>1. PICK kind, st : kind = x.kind /\ st = x.fsm
      OBVIOUS
    <3>2. kind \in AuthKind /\ <<st, e>> \in DOMAIN AuthTable[kind]
      BY <1>2, <3>1
    <3>3. LET w == AuthTable[kind][st, e]
          IN AuthRowIs(w) /\ w[1] = st /\ w[2] = e /\ (w[4] \in Own \/ kind = "passthrough")
      BY <3>2, AuthRow
    <3> QED BY <2>1, <3>1, <3>3
  <2>5. /\ Doing(z) /\ z.kind = x.kind /\ z.q = x.q /\ z.run = TRUE /\ z.said = None
        /\ z.tx = <<>> /\ z.fsm = r[3] /\ z.txm = x.txm
    BY <2>2 DEF Doing, AuthFields
  <2>6. Rightly(AuthLeaf(z, r[4]), z.kind, verdict, r[1])
    BY <2>4, <2>5, LeafRightly
  <2> QED BY <2>3, <2>4, <2>5, <2>6
<1> QED BY <1>1, <1>2

\* A machine whose message dequeue_head() has returned, and what it does with it.
Dequeued(x) == [x EXCEPT !.rx = Tail(x.rx), !.ev = None]

LEMMA DequeueIs ==
  ASSUME NEW x, DOMAIN x = AuthFields
  PROVE  Silent(Dequeued(x), AuthDequeue(x))
<1>1. PICK w, y, z : w = Dequeued(x) /\ y = AuthTakes(x) /\ z = PutAside(y)
  OBVIOUS
<1>2. Same(w, y)
  BY <1>1 DEF Same, AuthTakes, Dequeued, AuthFields
<1>3. Same(w, z)
  BY <1>1, <1>2, SameIs DEF PutAside
<1>4. Silent(w, Notify(z, "Else")) /\ Silent(w, Event(z, "Else"))
  BY <1>3, PlainlyIs, SilentIs
<1>5. Silent(w, Event(y, "RxMethodResp")) /\ Silent(w, Event(y, "RxNak"))
  BY <1>2, SilentIs
<1>6. AuthDequeue(x) \in {Notify(z, "Else"), Event(z, "Else"), Event(y, "RxMethodResp"),
                          Event(y, "RxNak")}
  BY <1>1 DEF AuthDequeue
<1> QED BY <1>1, <1>4, <1>5, <1>6

\* Every step of an authenticator.
LEMMA StepRightly ==
  ASSUME NEW x, NEW verdict, Ready(x, verdict), x.kind \in AuthKind, x.tx = <<>>, AuthBusy(x),
         NEW known, NEW pickup
  PROVE  Rightly(AuthStep(x, known, pickup), x.kind, verdict, x.fsm)
<1>1. /\ DOMAIN x = AuthFields /\ x.run = TRUE /\ x.said = None /\ Unsent(x)
      /\ Free(x.q, Barred(x.kind, verdict)) /\ x.ev \notin Barred(x.kind, verdict)
  BY DEF Ready, AuthBusy
<1>2. PICK y : y = AuthStep(x, known, pickup)
  OBVIOUS
<1>3. CASE x.ev = "Dequeue"
  <2>1. x.txm.code # "success" /\ y = AuthDequeue(x)
    BY <1>1, <1>2, <1>3, EapBaseAssumption DEF Unsent, AuthStep
  <2>2. Plainly(x, y)
    <3>1. Silent(Dequeued(x), y)
      BY <1>1, <2>1, DequeueIs
    <3> QED BY <1>1, <3>1 DEF Silent, Gentle, Plainly, Dequeued, AuthFields
  <2> QED BY <1>1, <1>2, <2>1, <2>2, PlainlyRightly
<1>4. CASE x.ev \in {"Discard2", "Discard3"}
  <2>1. x.txm.code # "success"
    BY <1>1, <1>4 DEF Unsent
  <2>2. y.q = x.q /\ y.ev \in {"UCT", None} /\ DOMAIN y = AuthFields /\ y.kind = x.kind
        /\ y.run = TRUE /\ y.said = None /\ y.tx = <<>> /\ y.txm = x.txm /\ y.fsm = x.fsm
    BY <1>1, <1>2, <1>4, EapBaseAssumption DEF AuthStep, AuthFields
  <2>3. \A v : y.ev \notin Barred(x.kind, v)
    BY <2>2, NoneIs, PlainIs
  <2>4. Plainly(x, y)
    BY <1>1, <2>2, <2>3 DEF Plainly
  <2> QED BY <1>1, <1>2, <2>1, <2>4, PlainlyRightly
<1>5. CASE x.ev = None
  <2>1. x.q # <<>> /\ x.txm.code # "success"
    BY <1>1, <1>5, EapBaseAssumption DEF AuthBusy, Unsent
  <2>2. Free(Tail(x.q), Barred(x.kind, verdict)) /\ Head(x.q) \notin Barred(x.kind, verdict)
    BY <1>1, <2>1, FreeTail
  <2>3. PICK z, e : z = [x EXCEPT !.q = Tail(x.q)] /\ e = Head(x.q)
    OBVIOUS
  <2>4. /\ Doing(z) /\ z.kind = x.kind /\ z.q = Tail(x.q) /\ z.run = TRUE /\ z.said = None
        /\ z.tx = <<>> /\ z.txm = x.txm /\ z.fsm = x.fsm
    BY <1>1, <1>5, <2>3 DEF Doing, AuthFields
  <2>5. y = IF e = "IntegrityCheck" THEN AuthMethod(z, known, pickup) ELSE AuthFire(z, e)
    BY <1>1, <1>2, <1>5, <2>3, EapBaseAssumption DEF AuthStep, AuthFields
  <2>6. CASE e = "IntegrityCheck"
    <3>1. Methodical(z, y)
      BY <2>4, <2>5, <2>6, AuthMethodIs DEF Doing
    <3>2. /\ DOMAIN y = AuthFields /\ y.kind = x.kind /\ y.ev = None /\ y.said = None
          /\ y.run = TRUE /\ y.tx = <<>> /\ y.txm.code # "success"
      BY <2>1, <2>4, <3>1, NoneIs DEF Methodical, Control, Doing
    <3>3. Free(y.q, Barred(x.kind, verdict))
      <4>1. \A d \in {"ValidResp", "InvalidResp"} : d \notin Barred(x.kind, verdict)
        BY PlainIs
      <4> QED BY <2>2, <2>4, <3>1, <4>1, FreeAppend DEF Methodical
    <3> QED BY <1>2, <3>2, <3>3, NoneIs, CarriesEmpty DEF Rightly, Ready, Unsent
  <2>7. CASE e # "IntegrityCheck"
    <3>1. y = AuthFire(z, e)
      BY <2>5, <2>7
    <3> QED BY <1>2, <2>1, <2>2, <2>3, <2>4, <3>1, FireRightly
  <2> QED BY <2>6, <2>7
<1>6. CASE x.ev \notin {"Dequeue", "Discard2", "Discard3", None}
  <2>1. PICK z, e : z = [x EXCEPT !.ev = None] /\ e = x.ev
    OBVIOUS
  <2>2. y = AuthFire(z, e)
    BY <1>2, <1>6, <2>1 DEF AuthStep
  <2>3. /\ Doing(z) /\ z.kind = x.kind /\ z.q = x.q /\ z.run = TRUE /\ z.said = None
        /\ z.tx = <<>> /\ z.txm = x.txm /\ z.fsm = x.fsm
    BY <1>1, <2>1 DEF Doing, AuthFields
  <2>4. z.txm.code = "success" => z.kind = "passthrough" /\ z.fsm = "AaaIdle" /\ e = "SgAaaSuccess"
    BY <1>1, <2>1, <2>3 DEF Unsent
  <2> QED BY <1>1, <1>2, <2>1, <2>2, <2>3, <2>4, FireRightly
<1> QED BY <1>2, <1>3, <1>4, <1>5, <1>6

----------------------------------------------------------------------------
(* The peer.                                                               *)

PeerFields == {"fsm", "run", "q", "ev", "rx", "rxm", "txm", "id", "last", "valid", "first",
               "allows", "cur", "dec", "mstate", "meth", "mem", "mkey", "key", "armed", "poll",
               "said", "tx"}

\* A peer whose authenticator has given this verdict: whatever could make it report
\* success says that the verdict was success.
PeerReady(x, said) ==
  /\ DOMAIN x = PeerFields /\ Free(x.q, {"SgSuccess"}) /\ Carries(x.rx, said)
  /\ x.ev = "SgSuccess" => said = "success"
  /\ x.said = "success" => said = "success"

\* Of a peer that has no success to report: its control, without and with an event.
PeerSame(x, y) ==
  /\ DOMAIN x = PeerFields /\ DOMAIN y = PeerFields
  /\ y.rx = x.rx /\ y.said = x.said /\ y.q = x.q /\ y.ev = None
PeerPlain(x, y) ==
  /\ DOMAIN y = PeerFields /\ y.rx = x.rx /\ y.said = x.said /\ y.ev # "SgSuccess"
  /\ y.q = x.q \/ \E e : e # "SgSuccess" /\ y.q = Append(x.q, e)

\* The peer is still one whose success is true.
LEMMA PeerPlainReady ==
  ASSUME NEW x, NEW said, PeerReady(x, said), NEW y, PeerPlain(x, y)
  PROVE  PeerReady(y, said)
<1>1. Free(y.q, {"SgSuccess"})
  <2>1. CASE y.q = x.q
    BY <2>1 DEF PeerReady
  <2>2. ASSUME NEW e, e # "SgSuccess", y.q = Append(x.q, e) PROVE Free(y.q, {"SgSuccess"})
    BY <2>2, FreeAppend DEF PeerReady
  <2> QED BY <2>1, <2>2 DEF PeerPlain
<1> QED BY <1>1 DEF PeerReady, PeerPlain

\* An event raised or queued.
LEMMA PeerEventIs ==
  ASSUME NEW x, NEW y, PeerSame(x, y), NEW e, e # "SgSuccess"
  PROVE  PeerPlain(x, y) /\ PeerPlain(x, Event(y, e)) /\ PeerPlain(x, Notify(y, e))
BY NoneIs DEF PeerSame, PeerPlain, PeerFields, Event, Notify

\* The data of the switch and of a method.
LEMMA PeerDataIs ==
  ASSUME NEW x, NEW y, NEW v
  PROVE  /\ PeerSame(x, y) =>
              /\ PeerSame(x, [y EXCEPT !.id = v]) /\ PeerSame(x, [y EXCEPT !.cur = v])
              /\ PeerSame(x, [y EXCEPT !.first = v]) /\ PeerSame(x, [y EXCEPT !.mem = v])
              /\ PeerSame(x, [y EXCEPT !.meth = v]) /\ PeerSame(x, [y EXCEPT !.txm = v])
              /\ PeerSame(x, [y EXCEPT !.mstate = v]) /\ PeerSame(x, [y EXCEPT !.valid = v])
              /\ PeerSame(x, [y EXCEPT !.armed = v]) /\ PeerSame(x, [y EXCEPT !.poll = v])
              /\ PeerSame(x, [y EXCEPT !.dec = v]) /\ PeerSame(x, [y EXCEPT !.tx = v])
              /\ PeerSame(x, [y EXCEPT !.mkey = v]) /\ PeerSame(x, [y EXCEPT !.key = v])
              /\ PeerSame(x, [y EXCEPT !.last = v])
         /\ PeerPlain(x, y) =>
              PeerPlain(x, [y EXCEPT !.mem = v]) /\ PeerPlain(x, [y EXCEPT !.tx = v])
BY DEF PeerSame, PeerPlain, PeerFields

\* A response of a method, and its decision.
LEMMA RespondsIs ==
  ASSUME NEW x, NEW y, PeerSame(x, y), NEW meth, NEW mstate, NEW data, NEW dec, NEW key
  PROVE  PeerSame(x, Responds(y, meth, mstate, data)) /\ PeerSame(x, Decides(y, dec, key))
<1>1. PICK a, b, c : /\ a = [y EXCEPT !.meth = meth] /\ b = [a EXCEPT !.mstate = mstate]
                     /\ c = [b EXCEPT !.txm = Eap("response", 0, y.cur, data)]
  OBVIOUS
<1>2. c = Responds(y, meth, mstate, data)
  BY <1>1 DEF Responds
<1>3. PeerSame(x, a)
  BY <1>1, PeerDataIs
<1>4. PeerSame(x, b)
  BY <1>1, <1>3, PeerDataIs
<1>5. PeerSame(x, c)
  BY <1>1, <1>4, PeerDataIs
<1>6. PeerSame(x, Decides(y, dec, key))
  BY DEF PeerSame, PeerFields, Decides
<1> QED BY <1>2, <1>5, <1>6

\* EAP-Archie.
LEMMA PeerArchieIs ==
  ASSUME NEW x, PeerSame(x, x), NEW given
  PROVE  PeerPlain(x, PeerArchie(x, given))
<1>1. PeerPlain(x, ArchieRequest(x, given))
  <2>1. PeerPlain(x, Event([x EXCEPT !.meth = "Initialize"], "SgInvalidReq"))
    BY PeerDataIs, PeerEventIs
  <2>2. ASSUME NEW data, NEW v
        PROVE  PeerPlain(x, Event([Responds(x, "ResponseSent", "CONT", data) EXCEPT !.mem = v],
                                  "SgValidReq"))
    BY RespondsIs, PeerDataIs, PeerEventIs
  <2> QED BY <2>1, <2>2 DEF ArchieRequest
<1>2. PeerPlain(x, ArchieConfirm(x))
  BY RespondsIs, PeerEventIs DEF ArchieConfirm
<1>3. PeerPlain(x, x)
  BY PeerEventIs
<1> QED BY <1>1, <1>2, <1>3 DEF PeerArchie

\* EAP-GPSK.
LEMMA PeerGpskIs ==
  ASSUME NEW x, PeerSame(x, x), NEW given
  PROVE  PeerPlain(x, PeerGpsk(x, given))
<1>1. PeerPlain(x, Gpsk1(x, given))
  <2>1. ASSUME NEW data, NEW v
        PROVE  PeerPlain(x, Event([Responds(x, "Gpsk2Sent", "CONT", data) EXCEPT !.mem = v],
                                  "SgValidReq"))
    BY RespondsIs, PeerDataIs, PeerEventIs
  <2>2. PeerPlain(x, Event(x, "SgInvalidReq"))
    BY PeerEventIs
  <2> QED BY <2>1, <2>2 DEF Gpsk1
<1>2. PeerPlain(x, GpskReplays(x))
  BY RespondsIs, PeerEventIs DEF GpskReplays
<1>3. PeerPlain(x, Gpsk3(x))
  BY <1>2, RespondsIs, PeerEventIs DEF Gpsk3
<1>4. PeerPlain(x, x)
  BY PeerEventIs
<1> QED BY <1>1, <1>3, <1>4 DEF PeerGpsk

\* EAP-TLS: fragments, alerts and acknowledgements.
LEMMA PeerTlsDataIs ==
  ASSUME NEW x, NEW y, PeerSame(x, y), NEW m, NEW r
  PROVE  /\ PeerSame(x, Fed(y, r)) /\ PeerSame(x, Gathered(y, m))
         /\ PeerPlain(x, PeerTlsSends(y)) /\ PeerPlain(x, PeerTlsFails(y))
<1> USE DEF PeerSame, PeerFields
<1>1. PeerSame(x, Fed(y, r)) /\ PeerSame(x, Gathered(y, m))
  BY DEF Fed, Gathered
<1>2. ASSUME NEW z, PeerSame(x, z) PROVE PeerSame(x, Advanced(z))
  BY <1>2 DEF Advanced
<1> HIDE DEF PeerSame, PeerFields
<1>3. PeerPlain(x, PeerTlsSends(y))
  BY <1>2, RespondsIs, PeerEventIs DEF PeerTlsSends
<1>4. PeerPlain(x, PeerTlsFails(y))
  BY RespondsIs, PeerEventIs DEF PeerTlsFails
<1> QED BY <1>1, <1>3, <1>4

\* The machine of EAP-TLS.
LEMMA PeerTlsIs ==
  ASSUME NEW x, PeerSame(x, x), NEW given
  PROVE  PeerPlain(x, PeerTls(x, given))
<1>1. PeerPlain(x, PeerTlsStart(x, given))
  <2>1. PICK y : y = [x EXCEPT !.mem = TlsSession(@, given)]
    OBVIOUS
  <2>2. PICK z : z = Fed(y, PeerEngine("new", <<>>, given))
    OBVIOUS
  <2>3. PeerSame(x, y)
    BY <2>1, PeerDataIs
  <2>4. PeerSame(x, z)
    BY <2>2, <2>3, PeerTlsDataIs
  <2>5. PeerTlsStart(x, given) =
          Event(Responds(z, "BuildResponseClientHello", "CONT", Fragment(z.mem)), "SgValidReq")
    BY <2>1, <2>2 DEF PeerTlsStart
  <2> QED BY <2>4, <2>5, RespondsIs, PeerEventIs
<1>2. ASSUME NEW m PROVE PeerPlain(x, PeerTlsReceives(x, m))
  <2>1. PICK y : y = Gathered(x, m)
    OBVIOUS
  <2>2. PICK r : r = PeerEngine(y.mem.eng, y.mem.in, x.mem.pass)
    OBVIOUS
  <2>3. PICK z : z = Fed(y, r)
    OBVIOUS
  <2>4. PeerSame(x, y)
    BY <2>1, PeerTlsDataIs
  <2>5. PeerSame(x, z)
    BY <2>3, <2>4, PeerTlsDataIs
  <2>6. PeerPlain(x, Event([x EXCEPT !.meth = "Initialize"], "SgInvalidReq"))
    BY PeerDataIs, PeerEventIs
  <2>7. PeerPlain(x, Notify(Responds(y, "BuildResponseClientHello", "CONT", Ack), "SgValidReq"))
    BY <2>4, RespondsIs, PeerEventIs
  <2>8. PeerPlain(x, PeerTlsSends(z)) /\ PeerPlain(x, PeerTlsFails(z))
    BY <2>5, PeerTlsDataIs
  <2>9. PeerTlsReceives(x, m) \in
          {Event([x EXCEPT !.meth = "Initialize"], "SgInvalidReq"),
           Notify(Responds(y, "BuildResponseClientHello", "CONT", Ack), "SgValidReq"),
           PeerTlsSends(z), PeerTlsFails(z)}
    BY <2>1, <2>2, <2>3 DEF PeerTlsReceives, Misplaced
  <2> QED BY <2>6, <2>7, <2>8, <2>9
<1>3. PeerPlain(x, PeerTlsAcked(x, x.rxm.data))
  BY PeerTlsDataIs, PeerDataIs, PeerEventIs DEF PeerTlsAcked
<1>4. ASSUME NEW m PROVE PeerPlain(x, PeerTlsFinish(x, m))
  <2>1. PICK r : r = PeerEngine(x.mem.eng, Piece(m), x.mem.pass)
    OBVIOUS
  <2>2. PICK y : y = Fed(x, r)
    OBVIOUS
  <2>3. PeerSame(x, y)
    BY <2>2, PeerTlsDataIs
  <2>4. PeerPlain(x, PeerTlsFails(y))
    BY <2>3, PeerTlsDataIs
  <2>5. PeerPlain(x, Event(Decides(Responds(y, "Success", "DONE", Ack), "UNCOND_SUCC", None),
                           "SgValidReq"))
    BY <2>3, RespondsIs, PeerEventIs
  <2> QED BY <2>1, <2>2, <2>4, <2>5 DEF PeerTlsFinish
<1>5. PeerPlain(x, x)
  BY PeerEventIs
<1> QED BY <1>1, <1>2, <1>3, <1>4, <1>5 DEF PeerTls

\* All methods.
LEMMA PeerMethodIs ==
  ASSUME NEW x, PeerSame(x, x), NEW given
  PROVE  PeerPlain(x, PeerMethodMachine(x, given))
<1>1. PeerPlain(x, PeerMD5(x, given))
  <2>1. PeerPlain(x, x) /\ PeerPlain(x, Event(x, "SgInvalidReq"))
    BY PeerEventIs
  <2>2. PICK y : y = [x EXCEPT !.meth = "Success", !.dec = "UNCOND_SUCC",
                               !.txm = Eap("response", 0, "md5", given)]
    OBVIOUS
  <2>3. PeerSame(x, y)
    BY <2>2 DEF PeerSame, PeerFields
  <2>4. PeerPlain(x, Event(y, "SgValidReq"))
    BY <2>3, PeerEventIs
  <2> QED BY <2>1, <2>2, <2>4 DEF PeerMD5
<1> QED BY <1>1, PeerArchieIs, PeerGpskIs, PeerTlsIs DEF PeerMethodMachine

\* A success is reported for one event.
PeerRowIs(r) == r[4] = "SendSuccess" => r[2] = "SgSuccess"

\* The row that a peer finds for an event in its state.
LEMMA PeerRow ==
  ASSUME NEW st, NEW e, <<st, e>> \in DOMAIN PeerTable
  PROVE  LET r == PeerTable[st, e] IN PeerRowIs(r) /\ r[2] = e
<1>1. PICK rows : rows = PeerIdle \cup PeerReceived \cup PeerInputs \cup PeerMethod
  OBVIOUS
<1>2. PeerTable = Indexed(rows)
  BY <1>1 DEF PeerTable
<1>3. <<st, e>> \in DOMAIN Indexed(rows)
  BY <1>2
<1>4. LET r == Indexed(rows)[st, e] IN r \in rows /\ r[1] = st /\ r[2] = e
  BY <1>3, IndexedRow
<1>5. ASSUME NEW r \in rows PROVE PeerRowIs(r)
  <2>1. CASE r \in PeerIdle
    BY <2>1 DEF PeerIdle, PeerRowIs
  <2>2. CASE r \in PeerReceived
    BY <2>2 DEF PeerReceived, PeerRowIs
  <2>3. CASE r \in PeerInputs
    BY <2>3 DEF PeerInputs, PeerRowIs
  <2>4. CASE r \in PeerMethod
    BY <2>4 DEF PeerMethod, PeerRowIs
  <2> QED BY <1>1, <2>1, <2>2, <2>3, <2>4
<1> QED BY <1>2, <1>4, <1>5

\* A response is sent.
LEMMA SendRespIs ==
  ASSUME NEW x, NEW y, PeerSame(x, y)
  PROVE  PeerPlain(x, SubAcSendResp(y)) /\ PeerPlain(x, Event(SubAcSendResp(y), "UCT"))
<1>1. PICK z : z = Notify(y, "UCT")
  OBVIOUS
<1>2. PeerPlain(x, z)
  BY <1>1, PeerEventIs
<1>3. PeerPlain(x, SubAcSendResp(y))
  BY <1>1, <1>2, PeerDataIs DEF SubAcSendResp
<1>4. PeerPlain(x, Event(SubAcSendResp(y), "UCT"))
  BY <1>3 DEF PeerPlain, PeerFields, Event
<1> QED BY <1>3, <1>4

\* What the rows of a peer do, but for the report of success.
LEMMA PeerLeafIs ==
  ASSUME NEW x, PeerSame(x, x), NEW ready, NEW do, do \notin {"SendSuccess", "SendFailure"}
  PROVE  PeerPlain(x, PeerLeaf(x, do, ready))
<1>1. ASSUME NEW e \in {"UCT", "Dequeue", "SgFailure", "NotificationOutputFinished", "RxMsg"}
      PROVE  PeerPlain(x, x) /\ PeerPlain(x, Event(x, e))
  BY PeerEventIs
<1>2. PeerPlain(x, [x EXCEPT !.armed = TRUE])
  BY PeerDataIs, PeerEventIs
<1>3. PeerPlain(x, SubAcSendResp(x)) /\ PeerPlain(x, Event(SubAcSendResp(x), "UCT"))
  BY SendRespIs
<1>4. PeerPlain(x, Notify(x, "IntegrityCheck"))
  BY PeerEventIs
<1>5. PeerPlain(x, DoPolicyCheck(x))
  <2>1. PICK y : y = [x EXCEPT !.cur = x.allows, !.mstate = "INIT", !.meth = "Initialize"]
    OBVIOUS
  <2>2. PeerSame(x, y)
    BY <2>1 DEF PeerSame, PeerFields
  <2>3. DoPolicyCheck(x) \in {Event(y, "SgEnterMethod"), Event(x, "SgNoEnterMethod")}
    BY <2>1 DEF DoPolicyCheck
  <2> QED BY <2>2, <2>3, PeerEventIs
<1>6. PeerPlain(x, Event([x EXCEPT !.txm = Eap("response", 0, "notification", None)], "UCT"))
  BY PeerDataIs, PeerEventIs
<1>7. PeerPlain(x, InputIdentity(x, ready))
  <2>1. PICK y : y = Notify(x, "UserInputFinished")
    OBVIOUS
  <2>2. PeerPlain(x, y)
    BY <2>1, PeerEventIs
  <2>3. PeerPlain(x, [y EXCEPT !.poll = FALSE])
    BY <2>2 DEF PeerPlain, PeerFields
  <2>4. PeerPlain(x, [x EXCEPT !.poll = TRUE])
    BY PeerDataIs, PeerEventIs
  <2> QED BY <2>1, <2>3, <2>4 DEF InputIdentity
<1>8. PeerPlain(x, Event([x EXCEPT !.txm = Eap("response", 0, "identity", None), !.valid = TRUE],
                         "UCT"))
  <2>1. PICK y, z : /\ y = [x EXCEPT !.txm = Eap("response", 0, "identity", None)]
                    /\ z = [y EXCEPT !.valid = TRUE]
    OBVIOUS
  <2>2. PeerSame(x, z)
    BY <2>1, PeerDataIs
  <2>3. z = [x EXCEPT !.txm = Eap("response", 0, "identity", None), !.valid = TRUE]
    BY <2>1
  <2> QED BY <2>2, <2>3, PeerEventIs
<1>9. PeerPlain(x, BuildResp(x))
  <2>1. PICK m, k : /\ m = [x.txm EXCEPT !.id = x.id]
                    /\ k = IF x.mstate \notin {"NONE", "INIT"} /\ x.mkey # None THEN x.mkey ELSE x.key
    OBVIOUS
  <2>2. PICK y : y = [x EXCEPT !.txm = m, !.valid = TRUE, !.last = x.id, !.key = k]
    OBVIOUS
  <2>3. PeerSame(x, y)
    BY <2>2 DEF PeerSame, PeerFields
  <2>4. BuildResp(x) = SubAcSendResp(y)
    BY <2>1, <2>2 DEF BuildResp, PeerSame, PeerFields
  <2> QED BY <2>3, <2>4, SendRespIs
<1>10. PeerPlain(x, BuildNak(x))
  <2>1. PICK y : y = [x EXCEPT !.txm = Eap("response", x.id, "nak", x.allows), !.valid = TRUE]
    OBVIOUS
  <2>2. PeerSame(x, y)
    BY <2>1 DEF PeerSame, PeerFields
  <2>3. BuildNak(x) = SubAcSendResp(y)
    BY <2>1 DEF BuildNak
  <2> QED BY <2>2, <2>3, SendRespIs
<1>11. PeerPlain(x, CheckRxQueue(x))
  BY <1>1 DEF CheckRxQueue
<1> QED BY <1>1, <1>2, <1>3, <1>4, <1>5, <1>6, <1>7, <1>8, <1>9, <1>10, <1>11 DEF PeerLeaf

\* A verdict stops the peer.
LEMMA PeerSaysIs ==
  ASSUME NEW x, NEW said, PeerReady(x, said), NEW mine, mine = "success" => said = "success"
  PROVE  PeerReady(PeerSays(x, mine), said)
<1>1. PICK y : y = PeerSays(x, mine)
  OBVIOUS
<1>2. /\ DOMAIN y = PeerFields /\ y.q = <<>> /\ y.rx = x.rx /\ y.ev = x.ev /\ y.said = mine
  BY <1>1 DEF PeerSays, Stop, PeerReady, PeerFields
<1> QED BY <1>1, <1>2, FreeEmpty DEF PeerReady

\* An event of a peer: it reports success only for SgSuccess.
LEMMA PeerFireReady ==
  ASSUME NEW x, NEW said, PeerReady(x, said), x.ev = None, NEW e,
         e = "SgSuccess" => said = "success", NEW ready
  PROVE  PeerReady(PeerFire(x, e, ready), said)
<1>1. CASE <<x.fsm, e>> \notin DOMAIN PeerTable
  <2>1. PICK y : y = [x EXCEPT !.fsm = PeerWildcard(x.fsm)]
    OBVIOUS
  <2>2. PeerFire(x, e, ready) = y
    BY <1>1, <2>1 DEF PeerFire, PeerReady, PeerFields
  <2>3. PeerPlain(x, y)
    BY <2>1, NoneIs DEF PeerPlain, PeerReady, PeerFields
  <2> QED BY <2>2, <2>3, PeerPlainReady
<1>2. CASE <<x.fsm, e>> \in DOMAIN PeerTable
  <2>1. PICK st, r : st = x.fsm /\ r = PeerTable[st, e]
    OBVIOUS
  <2>2. PICK z, do : z = [x EXCEPT !.fsm = r[3]] /\ do = r[4]
    OBVIOUS
  <2>3. PeerFire(x, e, ready) = PeerLeaf(z, do, ready)
    BY <1>2, <2>1, <2>2 DEF PeerFire, PeerReady, PeerFields
  <2>4. do = "SendSuccess" => e = "SgSuccess"
    <3>1. <<st, e>> \in DOMAIN PeerTable
      BY <1>2, <2>1
    <3>2. LET w == PeerTable[st, e] IN PeerRowIs(w) /\ w[2] = e
      BY <3>1, PeerRow
    <3> QED BY <2>1, <2>2, <3>2 DEF PeerRowIs
  <2>5. PeerReady(z, said) /\ PeerSame(z, z)
    BY <2>2, NoneIs DEF PeerReady, PeerSame, PeerFields
  <2>6. CASE do = "SendSuccess"
    <3>1. PeerLeaf(z, do, ready) = PeerSays(z, "success")
      BY <2>6 DEF PeerLeaf
    <3> QED BY <2>3, <2>4, <2>5, <2>6, <3>1, PeerSaysIs
  <2>7. CASE do = "SendFailure"
    <3>1. PeerLeaf(z, do, ready) = PeerSays(z, "failure")
      BY <2>7 DEF PeerLeaf
    <3> QED BY <2>3, <2>5, <3>1, PeerSaysIs
  <2>8. CASE do \notin {"SendSuccess", "SendFailure"}
    <3>1. PeerPlain(z, PeerLeaf(z, do, ready))
      BY <2>5, <2>8, PeerLeafIs
    <3> QED BY <2>3, <2>5, <3>1, PeerPlainReady
  <2> QED BY <2>6, <2>7, <2>8
<1> QED BY <1>1, <1>2

\* A message that dequeue_head() has returned: a Success stands for the verdict.
LEMMA PeerDequeueReady ==
  ASSUME NEW x, NEW said, PeerReady(x, said), x.rx # <<>>, NEW chance
  PROVE  PeerReady(PeerDequeue(x, chance), said)
<1>1. PICK m : m = Head(x.rx)
  OBVIOUS
<1>2. PICK y : y = [x EXCEPT !.rx = Tail(@), !.rxm = m, !.ev = None]
  OBVIOUS
<1>3. Carries(Tail(x.rx), said) /\ (m.code = "success" => said = "success")
  BY <1>1, CarriesTail DEF PeerReady
<1>4. PeerReady(y, said) /\ PeerSame(y, y) /\ DOMAIN y = PeerFields
  BY <1>2, <1>3, NoneIs DEF PeerReady, PeerSame, PeerFields
<1>5. PICK z : z = [y EXCEPT !.id = m.id, !.first = TRUE]
  OBVIOUS
<1>6. PeerSame(y, z)
  BY <1>4, <1>5 DEF PeerSame, PeerFields
<1>7. ASSUME NEW e, e # "SgSuccess" PROVE PeerReady(Event(y, e), said)
  BY <1>4, <1>7, PeerEventIs, PeerPlainReady
<1>8. CASE m.code = "success"
  <2>1. PeerDequeue(x, chance) \in
          {Event(y, "SgSuccess"), Event(y, "SgFailure"), Event(y, "Else")}
    BY <1>1, <1>2, <1>8 DEF PeerDequeue
  <2>2. PeerReady(Event(y, "SgSuccess"), said)
    BY <1>3, <1>4, <1>8 DEF PeerReady, PeerFields, Event
  <2> QED BY <1>7, <2>1, <2>2
<1>9. CASE m.code # "success"
  <2>1. PeerReady(SubAcParseRequest(z, m), said)
    <3>1. PICK w : w = [z EXCEPT !.cur = "notification"]
      OBVIOUS
    <3>2. PeerSame(y, w)
      BY <1>6, <3>1, PeerDataIs
    <3>3. SubAcParseRequest(z, m) \in
            {Event(w, "RxNotification"), Event(z, "RxIdentity"), Event(z, "SgNewMethod"),
             Event(z, "SgContMethod"), Event(z, "Else")}
      BY <3>1 DEF SubAcParseRequest
    <3>4. PeerPlain(y, SubAcParseRequest(z, m))
      BY <1>6, <3>2, <3>3, PeerEventIs
    <3> QED BY <1>4, <3>4, PeerPlainReady
  <2>2. PeerDequeue(x, chance) \in
          {Event(y, "SgRetransmit"), Event(y, "Else"), Event(y, "SgFailure"),
           SubAcParseRequest(z, m)}
    BY <1>1, <1>2, <1>5, <1>9 DEF PeerDequeue
  <2> QED BY <1>7, <2>1, <2>2
<1> QED BY <1>8, <1>9

\* Every step of a peer.
LEMMA PeerStepReady ==
  ASSUME NEW x, NEW said, PeerReady(x, said), PeerBusy(x), NEW chance, NEW given
  PROVE  PeerReady(PeerStep(x, chance, given), said)
<1>1. PICK y : y = PeerStep(x, chance, given)
  OBVIOUS
<1>2. CASE x.ev = "Dequeue"
  <2>1. y = PeerDequeue(x, chance) /\ x.rx # <<>>
    BY <1>1, <1>2, EapBaseAssumption DEF PeerStep, PeerBusy, PeerBlocked
  <2> QED BY <1>1, <2>1, PeerDequeueReady
<1>3. CASE x.ev # "Dequeue" /\ x.ev # None
  <2>1. PICK z, e : z = [x EXCEPT !.ev = None] /\ e = x.ev
    OBVIOUS
  <2>2. y = PeerFire(z, e, chance)
    BY <1>1, <1>3, <2>1 DEF PeerStep
  <2>3. PeerReady(z, said) /\ z.ev = None /\ (e = "SgSuccess" => said = "success")
    BY <2>1, NoneIs DEF PeerReady, PeerFields
  <2> QED BY <1>1, <2>2, <2>3, PeerFireReady
<1>4. CASE x.ev = None
  <2>1. x.q # <<>>
    BY <1>4 DEF PeerBusy
  <2>2. Free(Tail(x.q), {"SgSuccess"}) /\ Head(x.q) # "SgSuccess"
    BY <2>1, FreeTail DEF PeerReady
  <2>3. PICK z, e : z = [x EXCEPT !.q = Tail(x.q)] /\ e = Head(x.q)
    OBVIOUS
  <2>4. PeerReady(z, said) /\ PeerSame(z, z) /\ z.ev = None
    BY <1>4, <2>2, <2>3 DEF PeerReady, PeerSame, PeerFields
  <2>5. y = IF e = "IntegrityCheck" THEN PeerMethodMachine(z, given) ELSE PeerFire(z, e, chance)
    BY <1>1, <1>4, <2>3, EapBaseAssumption DEF PeerStep, PeerReady, PeerFields
  <2>6. CASE e = "IntegrityCheck"
    <3>1. PeerPlain(z, y)
      BY <2>4, <2>5, <2>6, PeerMethodIs
    <3> QED BY <1>1, <2>4, <3>1, PeerPlainReady
  <2>7. CASE e # "IntegrityCheck"
    <3>1. y = PeerFire(z, e, chance)
      BY <2>5, <2>7
    <3> QED BY <1>1, <2>2, <2>3, <2>4, <3>1, PeerFireReady
  <2> QED BY <2>6, <2>7
<1> QED BY <1>1, <1>2, <1>3, <1>4

----------------------------------------------------------------------------
(* The conversation.                                                       *)

\* The authenticator gives the verdict of the backend when it is a pass-through, and
\* what may make the peer report success is there only when the authenticator has.
AgreeInv ==
  /\ auth.kind \in {"standalone", "passthrough"} /\ back.kind = "backend"
  /\ auth.tx = <<>> /\ back.tx = <<>>
  /\ Ready(auth, back.said) /\ Ready(back, None)
  /\ PeerReady(peer, auth.said) /\ Carries(toPeer, auth.said)

\* An authenticator that is given an event.
LEMMA NotifyReady ==
  ASSUME NEW x, NEW verdict, Ready(x, verdict), NEW e, e \notin Barred(x.kind, verdict)
  PROVE  /\ Ready(Notify(x, e), verdict) /\ Notify(x, e).kind = x.kind
         /\ Notify(x, e).said = x.said /\ Notify(x, e).tx = x.tx
<1>1. PICK y : y = Notify(x, e)
  OBVIOUS
<1>2. /\ DOMAIN y = AuthFields /\ y.q = Append(x.q, e) /\ y.kind = x.kind /\ y.said = x.said
      /\ y.tx = x.tx /\ y.ev = x.ev /\ y.run = x.run /\ y.txm = x.txm /\ y.fsm = x.fsm
  BY <1>1 DEF Notify, Ready, AuthFields
<1>3. Free(y.q, Barred(x.kind, verdict))
  BY <1>2, FreeAppend DEF Ready
<1>4. Ready(y, verdict)
  BY <1>2, <1>3 DEF Ready, Unsent
<1> QED BY <1>1, <1>2, <1>4

\* Before there is a verdict the machines are ready for any.
LEMMA ReadyLater ==
  ASSUME NEW x, Ready(x, None), NEW verdict
  PROVE  Ready(x, verdict)
<1>1. Barred(x.kind, verdict) \subseteq Barred(x.kind, None)
  BY BarredLess
<1>2. Free(x.q, Barred(x.kind, verdict))
  BY <1>1, FreeLess DEF Ready
<1> QED BY <1>1, <1>2 DEF Ready

\* The same for the peer.
LEMMA PeerLater ==
  ASSUME NEW x, PeerReady(x, None), NEW said
  PROVE  PeerReady(x, said)
<1>1. Carries(x.rx, said)
  BY NoneIs, CarriesLater DEF PeerReady
<1> QED BY <1>1, NoneIs DEF PeerReady

\* An authenticator at first.
LEMMA AuthInitReady ==
  ASSUME NEW kind, NEW policy, NEW msg
  PROVE  LET x == AuthInit(kind, policy) IN
         /\ Ready(x, None) /\ x.kind = kind /\ x.tx = <<>> /\ x.said = None
         /\ Ready(AuthStart(x, msg), None) /\ AuthStart(x, msg).kind = kind
         /\ AuthStart(x, msg).tx = <<>> /\ AuthStart(x, msg).said = None
<1>1. PICK x, y : x = AuthInit(kind, policy) /\ y = AuthStart(x, msg)
  OBVIOUS
<1>2. /\ DOMAIN x = AuthFields /\ x.kind = kind /\ x.tx = <<>> /\ x.said = None /\ x.q = <<>>
      /\ x.ev = None /\ x.run = FALSE /\ x.txm = NoMessage
  BY <1>1 DEF AuthInit, AuthFields
<1>3. /\ DOMAIN y = AuthFields /\ y.kind = kind /\ y.tx = <<>> /\ y.said = None
      /\ y.q = Append(<<>>, "Restart") /\ y.ev = None /\ y.run = TRUE /\ y.txm = NoMessage
  BY <1>1, <1>2 DEF AuthStart, AuthFields
<1>4. NoMessage.code # "success"
  BY NoneIs DEF NoMessage, Eap
<1>5. "Restart" \notin Barred(kind, None)
  BY PlainIs
<1>6. Free(<<>>, Barred(kind, None))
  BY FreeEmpty
<1>7. Free(Append(<<>>, "Restart"), Barred(kind, None))
  BY <1>5, <1>6, FreeAppend
<1>8. Ready(x, None)
  BY <1>2, <1>4, <1>6, NoneIs DEF Ready, Unsent
<1>9. Ready(y, None)
  BY <1>3, <1>4, <1>7, NoneIs DEF Ready, Unsent
<1> QED BY <1>1, <1>2, <1>3, <1>8, <1>9

\* The initial states.
LEMMA InitAgrees == Init => AgreeInv
<1> SUFFICES ASSUME Init PROVE AgreeInv
  OBVIOUS
<1>1. PICK method \in Methods :
        /\ peer = PeerInit(method)
        /\ auth \in {AuthStart(s, None) : s \in Servers(method)}
        /\ back = AuthInit("backend", IF method = "md5" THEN "plain" ELSE method)
        /\ toPeer = <<>>
  BY DEF Init
<1>2. PICK kind, policy : /\ auth = AuthStart(AuthInit(kind, policy), None)
                          /\ kind \in {"standalone", "passthrough"}
  BY <1>1 DEF Servers
<1>3. Ready(back, None) /\ back.kind = "backend" /\ back.tx = <<>> /\ back.said = None
  BY <1>1, AuthInitReady
<1>4. Ready(auth, None) /\ auth.kind = kind /\ auth.tx = <<>> /\ auth.said = None
  BY <1>2, AuthInitReady
<1>5. PeerReady(peer, None)
  <2>1. /\ DOMAIN peer = PeerFields /\ peer.q = <<"PortEnabled">> /\ peer.rx = <<>> /\ peer.ev = None
        /\ peer.said = None
    BY <1>1 DEF PeerInit, PeerFields
  <2>2. Free(Append(<<>>, "PortEnabled"), {"SgSuccess"})
    BY FreeEmpty, FreeAppend
  <2>3. Append(<<>>, "PortEnabled") = <<"PortEnabled">>
    OBVIOUS
  <2> QED BY <2>1, <2>2, <2>3, NoneIs, CarriesEmpty DEF PeerReady
<1>6. Carries(toPeer, None)
  BY <1>1, CarriesEmpty
<1> QED BY <1>2, <1>3, <1>4, <1>5, <1>6 DEF AgreeInv

\* A step of the peer.
LEMMA PeerTaskAgrees == AgreeInv /\ PeerTask => AgreeInv'
<1> SUFFICES ASSUME AgreeInv, PeerTask PROVE AgreeInv'
  OBVIOUS
<1>1. PICK chance \in BOOLEAN : peer' = Delivered(PeerStep(peer, chance, pass'))
  BY DEF PeerTask
<1>2. PeerBusy(peer) /\ UNCHANGED <<auth, back, toPeer>>
  BY DEF PeerTask
<1>3. PICK y : y = PeerStep(peer, chance, pass')
  OBVIOUS
<1>4. PeerReady(y, auth.said)
  BY <1>2, <1>3, PeerStepReady DEF AgreeInv
<1>5. PeerReady(Delivered(y), auth.said)
  BY <1>4 DEF Delivered, PeerReady, PeerFields
<1> QED BY <1>1, <1>2, <1>3, <1>5 DEF AgreeInv

\* What is for the server.
LEMMA ToBackendIs ==
  ASSUME NEW x, Ready(x, None), x.kind = "backend", x.tx = <<>>, NEW msg
  PROVE  LET y == ToBackend(x, msg) IN
         Ready(y, None) /\ y.kind = "backend" /\ y.tx = <<>> /\ y.said = x.said
<1>1. PICK y : y = ToBackend(x, msg)
  OBVIOUS
<1>2. CASE ~x.run /\ x.said = None
  <2>1. y = AuthStart(x, msg)
    BY <1>1, <1>2 DEF ToBackend
  <2>2. x.txm.code # "success" /\ "Restart" \notin Barred(x.kind, None)
    BY <1>2, PlainIs DEF Ready, Unsent
  <2>3. /\ DOMAIN y = AuthFields /\ y.q = Append(x.q, "Restart") /\ y.kind = "backend"
        /\ y.said = None /\ y.tx = <<>> /\ y.ev = x.ev /\ y.run = TRUE /\ y.txm = x.txm
    BY <1>2, <2>1 DEF AuthStart, Ready, AuthFields
  <2>4. Free(y.q, Barred(x.kind, None))
    BY <2>2, <2>3, FreeAppend DEF Ready
  <2>5. x.ev \notin Barred(x.kind, None) /\ y.kind = x.kind
    BY <2>3 DEF Ready
  <2>6. Ready(y, None)
    BY <2>2, <2>3, <2>4, <2>5 DEF Ready, Unsent
  <2> QED BY <1>1, <1>2, <2>3, <2>6
<1>3. CASE ~(~x.run /\ x.said = None) /\ msg # None /\ x.run
  <2>1. PICK z : z = [x EXCEPT !.rx = Append(@, msg)]
    OBVIOUS
  <2>2. y = Notify(z, "RxMsg")
    BY <1>1, <1>3, <2>1 DEF ToBackend
  <2>3. "RxMsg" \notin Barred(x.kind, None)
    BY PlainIs
  <2>4. Ready(z, None) /\ z.kind = x.kind /\ z.said = x.said /\ z.tx = x.tx
    BY <2>1 DEF Ready, Unsent, AuthFields
  <2> QED BY <1>1, <2>2, <2>3, <2>4, NotifyReady
<1>4. CASE ~(~x.run /\ x.said = None) /\ ~(msg # None /\ x.run)
  <2>1. y = x
    BY <1>1, <1>4 DEF ToBackend
  <2> QED BY <1>1, <2>1
<1> QED BY <1>1, <1>2, <1>3, <1>4

\* A step of the authenticator.
LEMMA AuthTaskAgrees == AgreeInv /\ AuthTask => AgreeInv'
<1> SUFFICES ASSUME AgreeInv, AuthTask PROVE AgreeInv'
  OBVIOUS
<1>1. PICK known \in BOOLEAN :
        LET y == AuthStep(auth, known, FALSE)
            aaa == auth.fsm \in {"InitializePassThrough", "AaaRequest"} /\ y.tx # <<>>
        IN /\ auth' = Delivered(y)
           /\ toPeer' = IF aaa THEN toPeer ELSE Sent(toPeer, y.tx)
           /\ back' = IF aaa THEN ToBackend(back, Head(y.tx)) ELSE back
  BY DEF AuthTask
<1>2. AuthBusy(auth) /\ UNCHANGED peer
  BY DEF AuthTask
<1>3. PICK y : y = AuthStep(auth, known, FALSE)
  OBVIOUS
<1>4. Rightly(y, auth.kind, back.said, auth.fsm)
  BY <1>2, <1>3, StepRightly DEF AgreeInv, AuthKind
<1>5. Ready(y, back.said) /\ y.kind = auth.kind
  BY <1>4 DEF Rightly
<1>6. /\ Ready(auth', back.said) /\ auth'.kind = auth.kind /\ auth'.tx = <<>>
      /\ auth'.said = y.said
  <2>1. auth' = [y EXCEPT !.tx = <<>>]
    BY <1>1, <1>3 DEF Delivered
  <2> QED BY <1>5, <2>1 DEF Ready, Unsent, AuthFields
<1>7. Ready(back', None) /\ back'.kind = "backend" /\ back'.tx = <<>> /\ back'.said = back.said
  <2>1. PICK msg : msg = Head(y.tx)
    OBVIOUS
  <2>2. LET z == ToBackend(back, msg) IN
        Ready(z, None) /\ z.kind = "backend" /\ z.tx = <<>> /\ z.said = back.said
    BY ToBackendIs DEF AgreeInv
  <2>3. back' \in {back, ToBackend(back, msg)}
    BY <1>1, <1>3, <2>1
  <2> QED BY <2>2, <2>3 DEF AgreeInv
<1>8. auth.said = None
  BY <1>2 DEF AuthBusy, AgreeInv, Ready
<1>9. PeerReady(peer, y.said)
  BY <1>8, PeerLater DEF AgreeInv
<1>10. Carries(toPeer', y.said)
  <2>1. Carries(toPeer, y.said)
    BY <1>8, NoneIs, CarriesLater DEF AgreeInv
  <2>2. CASE auth.fsm \in Outlet /\ y.tx # <<>>
    BY <1>1, <1>3, <2>1, <2>2 DEF Outlet
  <2>3. CASE ~(auth.fsm \in Outlet /\ y.tx # <<>>)
    <3>1. Carries(y.tx, y.said)
      BY <1>4, <2>3, CarriesEmpty DEF Rightly
    <3>2. toPeer' = Sent(toPeer, y.tx)
      BY <1>1, <1>3, <2>3 DEF Outlet
    <3> QED BY <2>1, <3>1, <3>2, SentCarries
  <2> QED BY <2>2, <2>3
<1> QED BY <1>2, <1>6, <1>7, <1>9, <1>10 DEF AgreeInv

\* An answer of the AAA server: its event speaks of the verdict that was given.
LEMMA AnsweredIs ==
  ASSUME NEW x, NEW said \in {None, "success", "failure"}, Ready(x, said), x.tx = <<>>,
         NEW m, NEW key
  PROVE  LET y == Answered(x, said, m, key) IN
         Ready(y, said) /\ y.kind = x.kind /\ y.tx = <<>> /\ y.said = x.said
<1>1. PICK y, z, k : /\ y = Answered(x, said, m, key)
                     /\ k = IF said = "success" THEN key ELSE x.key
                     /\ z = [x EXCEPT !.aaa = Append(@, m), !.key = k]
  OBVIOUS
<1>2. CASE ~x.run
  <2>1. y = x
    BY <1>1, <1>2 DEF Answered
  <2> QED BY <1>1, <2>1
<1>3. CASE x.run
  <2>1. PICK e : e = CASE said = "success" -> "AaaSuccess"
                       [] said = "failure" -> "AaaFailure"
                       [] said = None      -> "AaaContinue"
    OBVIOUS
  <2>2. y = Notify(z, e)
    BY <1>1, <1>3, <2>1 DEF Answered, Ready, AuthFields
  <2>3. Ready(z, said) /\ z.kind = x.kind /\ z.tx = <<>> /\ z.said = x.said
    BY <1>1 DEF Ready, Unsent, AuthFields
  <2>4. e \notin Barred(z.kind, said)
    BY <2>1, NoneIs DEF Barred
  <2>5. Ready(y, said) /\ y.kind = z.kind /\ y.tx = z.tx /\ y.said = z.said
    BY <2>2, <2>3, <2>4, NotifyReady
  <2> QED BY <1>1, <2>3, <2>5
<1> QED BY <1>2, <1>3

\* A step of the backend.
LEMMA BackTaskAgrees == AgreeInv /\ BackTask => AgreeInv'
<1> SUFFICES ASSUME AgreeInv, BackTask PROVE AgreeInv'
  OBVIOUS
<1>1. PICK known \in BOOLEAN :
        LET y == AuthStep(back, known, auth.policy = "pickup")
        IN /\ back' = Delivered(y)
           /\ auth' = IF y.tx = <<>> THEN auth ELSE Answered(auth, y.said, Head(y.tx), y.key)
  BY DEF BackTask
<1>2. AuthBusy(back) /\ UNCHANGED <<peer, toPeer>>
  BY DEF BackTask
<1>3. PICK pickup : pickup = (auth.policy = "pickup")
  OBVIOUS
<1>4. PICK y : y = AuthStep(back, known, pickup)
  OBVIOUS
<1>5. Rightly(y, back.kind, None, back.fsm)
  BY <1>2, <1>4, StepRightly DEF AgreeInv, AuthKind
<1>6. Ready(y, None) /\ y.kind = "backend"
  BY <1>5 DEF Rightly, AgreeInv
<1>7. Ready(back', None) /\ back'.kind = "backend" /\ back'.tx = <<>> /\ back'.said = y.said
  <2>1. back' = [y EXCEPT !.tx = <<>>]
    BY <1>1, <1>3, <1>4 DEF Delivered
  <2> QED BY <1>6, <2>1 DEF Ready, Unsent, AuthFields
<1>8. back.said = None
  BY <1>2 DEF AuthBusy, AgreeInv, Ready
<1>9. Ready(auth, y.said)
  BY <1>8, ReadyLater DEF AgreeInv
<1>10. Ready(auth', y.said) /\ auth'.kind = auth.kind /\ auth'.tx = <<>> /\ auth'.said = auth.said
  <2>1. PICK m, key : m = Head(y.tx) /\ key = y.key
    OBVIOUS
  <2>2. y.said \in {None, "success", "failure"} /\ auth.tx = <<>>
    BY <1>6 DEF Ready, AgreeInv
  <2>3. LET z == Answered(auth, y.said, m, key) IN
        Ready(z, y.said) /\ z.kind = auth.kind /\ z.tx = <<>> /\ z.said = auth.said
    BY <1>9, <2>2, AnsweredIs
  <2>4. auth' \in {auth, Answered(auth, y.said, m, key)}
    BY <1>1, <1>3, <1>4, <2>1
  <2> QED BY <1>9, <2>2, <2>3, <2>4
<1> QED BY <1>2, <1>7, <1>10 DEF AgreeInv

\* The steps of the receivers, of the link and of the timers give a machine an event or
\* a message.
LEMMA AroundAgrees ==
  AgreeInv /\ (\/ PeerReceives \/ PeerNoted \/ AuthReceives \/ AuthNoted \/ Lose \/ AuthTimer
               \/ PeerTimer \/ PeerPoll)
  => AgreeInv'
<1> SUFFICES ASSUME AgreeInv PROVE
      (\/ PeerReceives \/ PeerNoted \/ AuthReceives \/ AuthNoted \/ Lose \/ AuthTimer
       \/ PeerTimer \/ PeerPoll) => AgreeInv'
  OBVIOUS
<1>1. ASSUME NEW e \in {"RxMsg", "To", "ToCheckIdentity"}, peer' \in {peer, Notify(peer, e)},
             UNCHANGED <<auth, back, toPeer>>
      PROVE  AgreeInv'
  <2>1. PICK y : y = Notify(peer, e)
    OBVIOUS
  <2>2. /\ DOMAIN y = PeerFields /\ y.q = Append(peer.q, e) /\ y.rx = peer.rx /\ y.ev = peer.ev
        /\ y.said = peer.said
    BY <2>1 DEF Notify, AgreeInv, PeerReady, PeerFields
  <2>3. Free(y.q, {"SgSuccess"})
    BY <2>2, FreeAppend DEF AgreeInv, PeerReady
  <2>4. PeerReady(y, auth.said)
    BY <2>2, <2>3 DEF AgreeInv, PeerReady
  <2> QED BY <1>1, <2>1, <2>4 DEF AgreeInv
<1>2. ASSUME NEW e \in {"RxMsg", "To"}, auth' \in {auth, Notify(auth, e)},
             UNCHANGED <<peer, back, toPeer>>
      PROVE  AgreeInv'
  <2>1. e \notin Barred(auth.kind, back.said)
    BY PlainIs
  <2>2. /\ Ready(auth', back.said) /\ auth'.kind = auth.kind /\ auth'.said = auth.said
        /\ auth'.tx = auth.tx
    BY <1>2, <2>1, NotifyReady DEF AgreeInv
  <2> QED BY <1>2, <2>2 DEF AgreeInv
<1>3. ASSUME PeerReceives PROVE AgreeInv'
  <2>1. /\ toPeer # <<>> /\ toPeer' = Tail(toPeer) /\ UNCHANGED <<auth, back>>
        /\ peer' \in {peer, [peer EXCEPT !.rx = Append(@, Head(toPeer))]}
    BY <1>3 DEF PeerReceives
  <2>2. Carries(Tail(toPeer), auth.said) /\ (Head(toPeer).code = "success" => auth.said = "success")
    BY <2>1, CarriesTail DEF AgreeInv
  <2>3. PICK y, m : m = Head(toPeer) /\ y = [peer EXCEPT !.rx = Append(@, m)]
    OBVIOUS
  <2>4. /\ DOMAIN y = PeerFields /\ y.q = peer.q /\ y.rx = Append(peer.rx, m) /\ y.ev = peer.ev
        /\ y.said = peer.said
    BY <2>3 DEF AgreeInv, PeerReady, PeerFields
  <2>5. Carries(y.rx, auth.said)
    BY <2>2, <2>3, <2>4, CarriesAppend DEF AgreeInv, PeerReady
  <2>6. PeerReady(y, auth.said)
    BY <2>4, <2>5 DEF AgreeInv, PeerReady
  <2> QED BY <2>1, <2>2, <2>3, <2>6 DEF AgreeInv
<1>4. ASSUME PeerNoted PROVE AgreeInv'
  BY <1>1, <1>4 DEF PeerNoted
<1>5. ASSUME AuthReceives PROVE AgreeInv'
  <2>1. PICK v : v = Append(auth.rx, Head(toAuth))
    OBVIOUS
  <2>2. auth' \in {auth, [auth EXCEPT !.rx = v]} /\ UNCHANGED <<peer, back, toPeer>>
    BY <1>5, <2>1 DEF AuthReceives
  <2>3. /\ Ready(auth', back.said) /\ auth'.kind = auth.kind /\ auth'.said = auth.said
        /\ auth'.tx = auth.tx
    BY <2>2 DEF AgreeInv, Ready, Unsent, AuthFields
  <2> QED BY <2>2, <2>3 DEF AgreeInv
<1>6. ASSUME AuthNoted PROVE AgreeInv'
  BY <1>2, <1>6 DEF AuthNoted
<1>7. ASSUME Lose PROVE AgreeInv'
  <2>1. (toPeer # <<>> /\ toPeer' = Tail(toPeer)) \/ toPeer' = toPeer
    BY <1>7 DEF Lose
  <2>2. Carries(toPeer', auth.said)
    BY <2>1, CarriesTail DEF AgreeInv
  <2>3. UNCHANGED <<peer, auth, back>>
    BY <1>7 DEF Lose
  <2> QED BY <2>2, <2>3 DEF AgreeInv
<1>8. ASSUME AuthTimer PROVE AgreeInv'
  BY <1>2, <1>8 DEF AuthTimer
<1>9. ASSUME PeerTimer PROVE AgreeInv'
  BY <1>1, <1>9 DEF PeerTimer
<1>10. ASSUME PeerPoll PROVE AgreeInv'
  BY <1>1, <1>10 DEF PeerPoll
<1> QED BY <1>3, <1>4, <1>5, <1>6, <1>7, <1>8, <1>9, <1>10

\* Every step.
LEMMA NextAgrees == AgreeInv /\ [Next]_vars => AgreeInv'
<1>1. AgreeInv /\ UNCHANGED vars => AgreeInv'
  BY DEF vars, AgreeInv
<1> QED BY <1>1, PeerTaskAgrees, AuthTaskAgrees, BackTaskAgrees, AroundAgrees DEF Next

\* Whoever reports success or failure repeats the one that decides: a pass-through the
\* verdict of the AAA server, the peer the success of its authenticator, whatever is
\* lost, repeated, late or answered out of turn (AcAaaSuccess, AcAaaFailure and
\* AcSendSuccess of the authenticators, AcReceiveMsg of the peer).
THEOREM AlwaysAgreement == Spec => []Agreement
<1>1. AgreeInv => Agreement
  BY DEF AgreeInv, Agreement, Ready, PeerReady
<1> QED BY <1>1, InitAgrees, NextAgrees, PTL DEF Spec
----------------------------------------------------------------------------
(* Events and messages in step.                                            *)

\* How many events of a queue are in B, and that none is.
Number(q, B)  == Cardinality({i \in DOMAIN q : q[i] \in B})
Without(q, B) == \A i \in DOMAIN q : q[i] \notin B

Sequence(q) == \E S : q \in Seq(S)

\* A queue has finitely many events.
LEMMA LenIs == ASSUME NEW q, Sequence(q) PROVE Len(q) \in Nat
BY DEF Sequence

\* And so has a part of it.
LEMMA NumberIs ==
  ASSUME NEW q, Sequence(q), NEW B
  PROVE  /\ Number(q, B) \in Nat /\ IsFiniteSet({i \in DOMAIN q : q[i] \in B})
         /\ Without(q, B) <=> Number(q, B) = 0
<1>1. PICK S : q \in Seq(S)
  BY DEF Sequence
<1>2. DOMAIN q = 1 .. Len(q) /\ Len(q) \in Nat
  BY <1>1
<1>3. PICK I : I = {i \in DOMAIN q : q[i] \in B}
  OBVIOUS
<1>4. IsFiniteSet(I)
  <2>1. IsFiniteSet(1 .. Len(q)) /\ I \subseteq 1 .. Len(q)
    BY <1>2, <1>3, FS_Interval
  <2> QED BY <2>1, FS_Subset
<1>5. Cardinality(I) \in Nat /\ (Cardinality(I) = 0 <=> I = {})
  BY <1>4, FS_CardinalityType, FS_EmptySet
<1> QED BY <1>3, <1>4, <1>5 DEF Number, Without

\* One more event.
LEMMA NumberAppend ==
  ASSUME NEW q, Sequence(q), NEW e, NEW B
  PROVE  /\ Sequence(Append(q, e))
         /\ Number(Append(q, e), B) = Number(q, B) + IF e \in B THEN 1 ELSE 0
         /\ Without(q, B) /\ e \notin B => Without(Append(q, e), B)
<1>1. PICK S : q \in Seq(S)
  BY DEF Sequence
<1>2. PICK T, s : T = S \cup {e} /\ s = Append(q, e)
  OBVIOUS
<1>3. q \in Seq(T) /\ e \in T
  BY <1>1, <1>2
<1>4. /\ s \in Seq(T) /\ Len(s) = Len(q) + 1 /\ Len(q) \in Nat /\ DOMAIN q = 1 .. Len(q)
      /\ DOMAIN s = 1 .. Len(q) + 1 /\ s[Len(q) + 1] = e /\ \A i \in 1 .. Len(q) : s[i] = q[i]
  BY <1>2, <1>3
<1>5. PICK I, J : I = {i \in DOMAIN q : q[i] \in B} /\ J = {i \in DOMAIN s : s[i] \in B}
  OBVIOUS
<1>6. IsFiniteSet(I) /\ Cardinality(I) \in Nat
  BY <1>5, NumberIs, FS_CardinalityType
<1>7. CASE e \in B
  <2>1. J = I \cup {Len(q) + 1} /\ Len(q) + 1 \notin I
    BY <1>4, <1>5, <1>7
  <2>2. Cardinality(J) = Cardinality(I) + 1
    BY <1>6, <2>1, FS_AddElement
  <2> QED BY <1>2, <1>4, <1>5, <1>7, <2>2 DEF Number, Sequence
<1>8. CASE e \notin B
  <2>1. J = I
    BY <1>4, <1>5, <1>8
  <2>2. Cardinality(J) = Cardinality(I) + 0
    BY <1>6, <2>1
  <2>3. Without(q, B) => Without(s, B)
    BY <1>4, <1>8 DEF Without
  <2> QED BY <1>2, <1>4, <1>5, <1>8, <2>2, <2>3 DEF Number, Sequence
<1> QED BY <1>7, <1>8

\* The first event is taken.
LEMMA NumberTail ==
  ASSUME NEW q, Sequence(q), q # <<>>, NEW B
  PROVE  /\ Sequence(Tail(q)) /\ Len(q) \in Nat /\ Len(q) >= 1 /\ Len(Tail(q)) = Len(q) - 1
         /\ Head(q) = q[1] /\ \A i \in 1 .. Len(q) - 1 : Tail(q)[i] = q[i + 1]
         /\ Number(q, B) = Number(Tail(q), B) + IF Head(q) \in B THEN 1 ELSE 0
         /\ Without(q, B) => Without(Tail(q), B) /\ Head(q) \notin B
<1>1. PICK S : q \in Seq(S)
  BY DEF Sequence
<1>2. PICK s : s = Tail(q)
  OBVIOUS
<1>3. /\ s \in Seq(S) /\ Len(q) \in Nat /\ Len(q) >= 1 /\ Len(s) = Len(q) - 1
      /\ DOMAIN q = 1 .. Len(q) /\ DOMAIN s = 1 .. Len(q) - 1 /\ Head(q) = q[1]
      /\ \A i \in 1 .. Len(q) - 1 : s[i] = q[i + 1]
  BY <1>1, <1>2
<1>4. PICK I, J, K : /\ I = {i \in DOMAIN q : q[i] \in B} /\ J = {i \in DOMAIN s : s[i] \in B}
                     /\ K = I \ {1}
  OBVIOUS
<1>5. IsFiniteSet(I) /\ IsFiniteSet(J) /\ Cardinality(J) \in Nat /\ Cardinality(I) \in Nat
  <2>1. Sequence(s)
    BY <1>3 DEF Sequence
  <2> QED BY <1>4, <2>1, NumberIs, FS_CardinalityType
<1>6. Cardinality(K) = Cardinality(J)
  <2>1. PICK f : f = [j \in J |-> j + 1]
    OBVIOUS
  <2>2. f \in Bijection(J, K)
    <3>1. \A j \in J : j \in 1 .. Len(q) - 1 /\ s[j] \in B
      BY <1>3, <1>4
    <3>2. \A j \in J : j + 1 \in K
      BY <1>3, <1>4, <3>1
    <3>3. \A k \in K : k \in 2 .. Len(q) /\ q[k] \in B
      BY <1>3, <1>4
    <3>4. \A k \in K : k - 1 \in J /\ k = (k - 1) + 1
      BY <1>3, <1>4, <3>3
    <3>5. f \in [J -> K]
      BY <2>1, <3>2
    <3>6. \A a, b \in J : f[a] = f[b] => a = b
      BY <2>1, <3>1
    <3>7. \A k \in K : \E j \in J : f[j] = k
      BY <2>1, <3>4
    <3>8. f \in Injection(J, K)
      BY <3>5, <3>6 DEF Injection, IsInjective
    <3>9. f \in Surjection(J, K)
      BY <3>5, <3>7 DEF Surjection
    <3> QED BY <3>8, <3>9 DEF Bijection
  <2> QED BY <1>5, <2>2, FS_Bijection DEF ExistsBijection
<1>7. Cardinality(I) = Cardinality(K) + IF 1 \in I THEN 1 ELSE 0
  <2>1. 1 \in I => Cardinality(K) = Cardinality(I) - 1
    BY <1>4, <1>5, FS_RemoveElement
  <2>2. 1 \notin I => K = I
    BY <1>4
  <2> QED BY <1>5, <2>1, <2>2
<1>8. 1 \in I <=> Head(q) \in B
  BY <1>3, <1>4
<1>9. Number(q, B) = Number(s, B) + IF Head(q) \in B THEN 1 ELSE 0
  BY <1>4, <1>5, <1>6, <1>7, <1>8 DEF Number
<1>10. Without(q, B) => Without(s, B) /\ Head(q) \notin B
  BY <1>3 DEF Without
<1> QED BY <1>2, <1>3, <1>9, <1>10 DEF Sequence
----------------------------------------------------------------------------
(* What an authenticator is supplied with.                                 *)

\* No answer comes after the verdict of the AAA server.
Ordered(q) == \A i, j \in DOMAIN q : i < j /\ q[i] \in Verdicts => q[j] \notin Aaa

Shaped(aaa, v) ==
  \A i \in 1 .. Len(aaa) : \/ aaa[i].code = "request"
                           \/ i = Len(aaa) /\ v # None /\ aaa[i].code = v
Final(aaa) == aaa # <<>> /\ aaa[Len(aaa)].code # "request"
Left(aaa)  == IF Final(aaa) THEN Len(aaa) - 1 ELSE Len(aaa)

\* A machine that has got the verdict of the AAA server, of which a message is left.
AfterAll(x, v) == v # None /\ x.aaa # <<>> /\ Without(x.q, Aaa)

\* The queues of a machine, whatever event it serves.
Queues(x, v) ==
  /\ DOMAIN x = AuthFields
  /\ Sequence(x.q) /\ Sequence(x.rx) /\ Sequence(x.aaa)
  /\ Without(x.q, {"SgDiscard"}) /\ Ordered(x.q)
  /\ Shaped(x.aaa, v) /\ (Without(x.q, Verdicts) \/ Final(x.aaa))

One(b) == IF b THEN 1 ELSE 0

\* For every event that announces a message there is one; due: messages that no event
\* announces yet.
Stock(x, v, due) ==
  /\ Queues(x, v) /\ x.ev \notin Foreign
  /\ Number(x.q, {"RxMsg"}) + One(x.ev \in {"Dequeue", "Discard2"}) + due <= Len(x.rx)
  /\ Number(x.q, {"AaaContinue"}) <= Left(x.aaa)
  /\ x.ev = "SgDiscard" => AfterAll(x, v)
  /\ x.ev = "Discard3" => AfterAll(x, v) \/ Number(x.q, {"AaaContinue"}) < Left(x.aaa)

\* A machine that has taken the event e.
Served(x, e, v, due) ==
  /\ Queues(x, v) /\ x.ev = None
  /\ Number(x.q, {"RxMsg"}) + One(e = "RxMsg") + due <= Len(x.rx)
  /\ Number(x.q, {"AaaContinue"}) + One(e = "AaaContinue") <= Left(x.aaa)
  /\ e \in Verdicts => Final(x.aaa) /\ Without(x.q, Aaa)
  /\ e = "SgDiscard" => AfterAll(x, v)

\* An operation that takes no message: at most one plain event is queued, one is raised.
Keeps(x, y) ==
  /\ DOMAIN y = AuthFields /\ y.rx = x.rx /\ y.aaa = x.aaa
  /\ \/ y.q = x.q
     \/ \E e \in {"UCT", "Else", "IntegrityCheck", "ValidResp", "InvalidResp"} :
          y.q = Append(x.q, e)
     \/ y.q = <<>>
  /\ y.ev \notin Foreign \cup Takings

\* The end of the queue: its parts.
LEMMA QueuesAre ==
  ASSUME NEW x, NEW y, NEW v, Queues(x, v), Keeps(x, y)
  PROVE  /\ Queues(y, v) /\ Number(y.q, {"RxMsg"}) <= Number(x.q, {"RxMsg"})
         /\ Number(y.q, {"AaaContinue"}) <= Number(x.q, {"AaaContinue"})
         /\ Without(x.q, Aaa) => Without(y.q, Aaa)
         /\ Number(y.q, {"RxMsg"}) \in Nat /\ Number(y.q, {"AaaContinue"}) \in Nat
         /\ Number(x.q, {"RxMsg"}) \in Nat /\ Number(x.q, {"AaaContinue"}) \in Nat
<1>0. Sequence(x.q)
  BY DEF Queues
<1>1. Number(x.q, {"RxMsg"}) \in Nat /\ Number(x.q, {"AaaContinue"}) \in Nat
  BY <1>0, NumberIs
<1>2. CASE y.q = x.q
  BY <1>1, <1>2 DEF Queues, Keeps
<1>3. ASSUME NEW e \in {"UCT", "Else", "IntegrityCheck", "ValidResp", "InvalidResp"},
             y.q = Append(x.q, e)
      PROVE  /\ Sequence(y.q) /\ Without(y.q, {"SgDiscard"}) /\ Ordered(y.q)
             /\ Without(x.q, Verdicts) => Without(y.q, Verdicts)
             /\ Without(x.q, Aaa) => Without(y.q, Aaa)
             /\ Number(y.q, {"RxMsg"}) = Number(x.q, {"RxMsg"})
             /\ Number(y.q, {"AaaContinue"}) = Number(x.q, {"AaaContinue"})
  <2>1. e \notin {"SgDiscard"} /\ e \notin Aaa /\ e \notin Verdicts /\ e \notin {"RxMsg"}
        /\ e \notin {"AaaContinue"}
    BY DEF Aaa, Verdicts
  <2>2. /\ Sequence(y.q) /\ Without(y.q, {"SgDiscard"})
        /\ Without(x.q, Verdicts) => Without(y.q, Verdicts)
        /\ Without(x.q, Aaa) => Without(y.q, Aaa)
    <3>1. Without(x.q, {"SgDiscard"})
      BY DEF Queues
    <3>2. Sequence(Append(x.q, e)) /\ Without(Append(x.q, e), {"SgDiscard"})
      BY <1>0, <2>1, <3>1, NumberAppend
    <3>3. \A B : Without(x.q, B) /\ e \notin B => Without(Append(x.q, e), B)
      BY <1>0, NumberAppend
    <3> QED BY <1>3, <2>1, <3>2, <3>3
  <2>3. /\ Number(y.q, {"RxMsg"}) = Number(x.q, {"RxMsg"}) + 0
        /\ Number(y.q, {"AaaContinue"}) = Number(x.q, {"AaaContinue"}) + 0
    BY <1>0, <1>3, <2>1, NumberAppend
  <2>4. Ordered(y.q)
    <3>1. PICK S : x.q \in Seq(S)
      BY <1>0 DEF Sequence
    <3>2. PICK T : T = S \cup {e}
      OBVIOUS
    <3>3. x.q \in Seq(T) /\ e \in T
      BY <3>1, <3>2
    <3>4. /\ Len(x.q) \in Nat /\ DOMAIN x.q = 1 .. Len(x.q) /\ DOMAIN y.q = 1 .. Len(x.q) + 1
          /\ y.q[Len(x.q) + 1] = e /\ \A i \in 1 .. Len(x.q) : y.q[i] = x.q[i]
      BY <1>3, <3>3
    <3>5. \A i, j \in 1 .. Len(x.q) : i < j /\ x.q[i] \in Verdicts => x.q[j] \notin Aaa
      BY <3>4 DEF Queues, Ordered
    <3> QED BY <2>1, <3>4, <3>5 DEF Ordered
  <2> QED BY <1>1, <2>2, <2>3, <2>4
<1>4. CASE y.q = <<>>
  <2>1. Sequence(<<>>) /\ DOMAIN <<>> = {}
    <3>1. PICK S : S = {}
      OBVIOUS
    <3>2. <<>> \in Seq(S)
      OBVIOUS
    <3> QED BY <3>2 DEF Sequence
  <2>2. \A B : Without(<<>>, B)
    BY <2>1 DEF Without
  <2>3. Number(<<>>, {"RxMsg"}) = 0 /\ Number(<<>>, {"AaaContinue"}) = 0
    BY <2>1, <2>2, NumberIs
  <2>4. Ordered(<<>>)
    BY <2>1 DEF Ordered
  <2> QED BY <1>1, <1>4, <2>1, <2>2, <2>3, <2>4 DEF Queues, Keeps
<1> QED BY <1>1, <1>2, <1>3, <1>4 DEF Queues, Keeps

\* Such an operation leaves enough.
LEMMA KeepsStocked ==
  ASSUME NEW x, NEW e, NEW v, NEW due \in Nat, Served(x, e, v, due), NEW y, Keeps(x, y)
  PROVE  Stock(y, v, due)
<1>1. /\ Queues(y, v) /\ Number(y.q, {"RxMsg"}) <= Number(x.q, {"RxMsg"})
      /\ Number(y.q, {"AaaContinue"}) <= Number(x.q, {"AaaContinue"})
      /\ Number(y.q, {"RxMsg"}) \in Nat /\ Number(y.q, {"AaaContinue"}) \in Nat
      /\ Number(x.q, {"RxMsg"}) \in Nat /\ Number(x.q, {"AaaContinue"}) \in Nat
  BY QueuesAre DEF Served
<1>2. Len(x.rx) \in Nat /\ Len(x.aaa) \in Nat
  <2>1. Sequence(x.rx) /\ Sequence(x.aaa)
    BY DEF Served, Queues
  <2> QED BY <2>1, LenIs
<1>3. y.rx = x.rx /\ y.aaa = x.aaa /\ y.ev \notin Foreign /\ y.ev \notin Takings
  BY DEF Keeps
<1>4. /\ Number(x.q, {"RxMsg"}) + due <= Len(x.rx)
      /\ Number(x.q, {"AaaContinue"}) <= Left(x.aaa)
  BY <1>1, <1>2 DEF Served, One, Left
<1>5. /\ Number(y.q, {"RxMsg"}) + due <= Len(y.rx)
      /\ Number(y.q, {"AaaContinue"}) <= Left(y.aaa)
  BY <1>1, <1>2, <1>3, <1>4 DEF Left
<1>6. y.ev \notin {"Dequeue", "Discard2"} /\ y.ev # "SgDiscard" /\ y.ev # "Discard3"
  BY <1>3 DEF Takings
<1>7. Number(y.q, {"RxMsg"}) + One(y.ev \in {"Dequeue", "Discard2"}) + due <= Len(y.rx)
  BY <1>1, <1>5, <1>6 DEF One
<1> QED BY <1>1, <1>3, <1>5, <1>6, <1>7 DEF Stock

\* What the AAA server has sent, after the first message.
LEMMA TailIs ==
  ASSUME NEW a, Sequence(a), a # <<>>, NEW v, Shaped(a, v)
  PROVE  /\ Sequence(Tail(a)) /\ Shaped(Tail(a), v) /\ Left(a) \in Nat /\ Left(Tail(a)) \in Nat
         /\ Left(a) >= 1 => /\ Head(a).code = "request" /\ Left(Tail(a)) = Left(a) - 1
                            /\ (Final(Tail(a)) <=> Final(a))
         /\ Final(a) => v # None /\ (Tail(a) = <<>> => Head(a).code = v)
<1>1. PICK S : a \in Seq(S)
  BY DEF Sequence
<1>2. PICK b : b = Tail(a)
  OBVIOUS
<1>3. /\ b \in Seq(S) /\ Len(a) \in Nat /\ Len(a) >= 1 /\ Len(b) = Len(a) - 1 /\ Head(a) = a[1]
      /\ \A i \in 1 .. Len(a) - 1 : b[i] = a[i + 1]
      /\ (b = <<>> <=> Len(b) = 0)
  <2>1. /\ b \in Seq(S) /\ Len(a) \in Nat /\ Len(a) >= 1 /\ Len(b) = Len(a) - 1 /\ Head(a) = a[1]
        /\ \A i \in 1 .. Len(a) - 1 : b[i] = a[i + 1]
    BY <1>1, <1>2
  <2>2. b = <<>> <=> Len(b) = 0
    BY <2>1
  <2> QED BY <2>1, <2>2
<1>4. Shaped(b, v)
  BY <1>3 DEF Shaped
<1>5. Left(a) \in Nat /\ Left(b) \in Nat
  BY <1>3 DEF Left, Final
<1>6. Len(a) >= 2 => /\ b # <<>> /\ b[Len(b)] = a[Len(a)] /\ a[1].code = "request"
                     /\ (Final(b) <=> Final(a))
  BY <1>3 DEF Shaped, Final
<1>7. Left(a) >= 1 => /\ Head(a).code = "request" /\ Left(b) = Left(a) - 1
                      /\ (Final(b) <=> Final(a))
  <2>1. CASE Len(a) >= 2
    BY <1>3, <1>6, <2>1 DEF Left
  <2>2. CASE Len(a) = 1
    BY <1>3, <2>2 DEF Left, Final
  <2> QED BY <1>3, <2>1, <2>2
<1>8. Final(a) => v # None /\ (b = <<>> => Head(a).code = v)
  BY <1>3 DEF Final, Shaped
<1> QED BY <1>2, <1>3, <1>4, <1>5, <1>7, <1>8 DEF Sequence

\* The message of an answer is taken: its verdict, if it is the last one.
LEMMA TakesStocked ==
  ASSUME NEW x, NEW code, NEW v, NEW due \in Nat, NEW e \in Aaa, Served(x, e, v, due),
         NEW raised \in {"RxAaaEapReq", "SgAaaSuccess", "SgAaaFailure"},
         code = IF e = "AaaContinue" THEN "request" ELSE v
  PROVE  Stock(AaaTakes(x, code, raised), v, due)
<1>1. PICK y : y = AaaTakes(x, code, raised)
  OBVIOUS
<1>2. Sequence(x.q) /\ Sequence(x.rx) /\ Sequence(x.aaa) /\ Shaped(x.aaa, v) /\ DOMAIN x = AuthFields
  BY DEF Served, Queues
<1>3. PICK k : k = Number(x.q, {"AaaContinue"})
  OBVIOUS
<1>4. Number(x.q, {"RxMsg"}) \in Nat /\ k \in Nat /\ Len(x.rx) \in Nat /\ Len(x.aaa) \in Nat
  BY <1>2, <1>3, NumberIs, LenIs
<1>5. x.aaa # <<>>
  <2>1. CASE e = "AaaContinue"
    <3>1. k + 1 <= Left(x.aaa)
      BY <1>3, <2>1 DEF Served, One
    <3>2. Left(x.aaa) <= Len(x.aaa)
      BY <1>4 DEF Left
    <3>3. Len(x.aaa) # 0
      BY <1>4, <3>1, <3>2 DEF Left
    <3> QED BY <3>3
  <2>2. CASE e \in Verdicts
    BY <2>2 DEF Served, Final
  <2> QED BY <2>1, <2>2 DEF Aaa
<1>6. PICK a : a = Tail(x.aaa)
  OBVIOUS
<1>7. /\ Sequence(a) /\ Shaped(a, v) /\ Left(x.aaa) \in Nat /\ Left(a) \in Nat
      /\ Left(x.aaa) >= 1 => /\ Head(x.aaa).code = "request" /\ Left(a) = Left(x.aaa) - 1
                             /\ (Final(a) <=> Final(x.aaa))
      /\ Final(x.aaa) => v # None /\ (a = <<>> => Head(x.aaa).code = v)
  BY <1>2, <1>5, <1>6, TailIs
<1>8. /\ DOMAIN y = AuthFields /\ y.q = x.q /\ y.rx = x.rx /\ y.aaa = a
      /\ y.ev = IF Head(x.aaa).code = code THEN raised ELSE "SgDiscard"
  BY <1>1, <1>2, <1>6 DEF AaaTakes, Event, AuthFields
<1>9. y.ev \notin Foreign /\ y.ev \notin {"Dequeue", "Discard2", "Discard3"}
      /\ (y.ev = "SgDiscard" => Head(x.aaa).code # code)
  BY <1>8 DEF Foreign, Aaa, Verdicts
<1>10. Without(x.q, {"SgDiscard"}) /\ Ordered(x.q) /\ (Without(x.q, Verdicts) \/ Final(x.aaa))
       /\ Number(x.q, {"RxMsg"}) + due <= Len(x.rx)
  BY <1>4 DEF Served, Queues, One
<1>11. Number(y.q, {"RxMsg"}) + One(y.ev \in {"Dequeue", "Discard2"}) + due <= Len(y.rx)
  BY <1>4, <1>8, <1>9, <1>10 DEF One
<1>12. CASE e = "AaaContinue"
  <2>1. k + 1 <= Left(x.aaa)
    BY <1>3, <1>12 DEF Served, One
  <2>2. Head(x.aaa).code = "request" /\ k <= Left(a) /\ (Final(a) <=> Final(x.aaa))
    BY <1>4, <1>7, <2>1
  <2>3. y.ev # "SgDiscard" /\ Queues(y, v)
    BY <1>2, <1>7, <1>8, <1>9, <1>10, <1>12, <2>2 DEF Queues
  <2> QED BY <1>1, <1>3, <1>8, <1>9, <1>11, <2>2, <2>3 DEF Stock
<1>13. CASE e \in Verdicts
  <2>1. Final(x.aaa) /\ Without(x.q, Aaa)
    BY <1>13 DEF Served
  <2>2. Without(x.q, Verdicts) /\ Without(x.q, {"AaaContinue"})
    BY <2>1 DEF Without, Aaa
  <2>3. k = 0
    BY <1>2, <1>3, <2>2, NumberIs
  <2>4. Queues(y, v)
    BY <1>2, <1>7, <1>8, <1>10, <2>2 DEF Queues
  <2>5. y.ev = "SgDiscard" => AfterAll(y, v)
    <3>1. code = v
      BY <1>13 DEF Verdicts
    <3> QED BY <1>7, <1>8, <1>9, <2>1, <3>1 DEF AfterAll
  <2> QED BY <1>1, <1>3, <1>7, <1>8, <1>9, <1>11, <2>3, <2>4, <2>5 DEF Stock
<1> QED BY <1>12, <1>13 DEF Aaa

\* A message is waited for after its event.
LEMMA WaitsStocked ==
  ASSUME NEW x, DOMAIN x = AuthFields, NEW e, NEW v, NEW due \in Nat, Served(x, e, v, due),
         NEW d, \/ d \in {"Dequeue", "Discard2"} /\ e = "RxMsg"
                \/ d = "Discard3" /\ e \in {"SgDiscard", "AaaContinue"}
  PROVE  Stock(Event(x, d), v, due)
<1>1. PICK y : y = Event(x, d)
  OBVIOUS
<1>2. /\ DOMAIN y = AuthFields /\ y.q = x.q /\ y.rx = x.rx /\ y.aaa = x.aaa /\ y.ev = d
  BY <1>1 DEF Event, AuthFields
<1>3. Queues(y, v) /\ (AfterAll(y, v) <=> AfterAll(x, v))
  BY <1>2 DEF Served, Queues, AfterAll
<1>4. d \notin Foreign /\ d # "SgDiscard"
  BY DEF Foreign, Aaa, Verdicts
<1>5. Number(x.q, {"RxMsg"}) \in Nat /\ Number(x.q, {"AaaContinue"}) \in Nat
      /\ Len(x.rx) \in Nat /\ Len(x.aaa) \in Nat
  <2>1. Sequence(x.q) /\ Sequence(x.rx) /\ Sequence(x.aaa)
    BY DEF Served, Queues
  <2> QED BY <2>1, NumberIs, LenIs
<1>6. /\ Number(x.q, {"RxMsg"}) + One(e = "RxMsg") + due <= Len(x.rx)
      /\ Number(x.q, {"AaaContinue"}) + One(e = "AaaContinue") <= Left(x.aaa)
      /\ e = "SgDiscard" => AfterAll(x, v)
  BY DEF Served
<1>7. /\ Number(x.q, {"RxMsg"}) + One(d \in {"Dequeue", "Discard2"}) + due <= Len(x.rx)
      /\ Number(x.q, {"AaaContinue"}) <= Left(x.aaa)
      /\ d = "Discard3" => AfterAll(x, v) \/ Number(x.q, {"AaaContinue"}) < Left(x.aaa)
  BY <1>5, <1>6 DEF One, Left
<1> QED BY <1>1, <1>2, <1>3, <1>4, <1>7 DEF Stock

\* Every row.
LEMMA LeafStocked ==
  ASSUME NEW x, Doing(x), NEW v, NEW due \in Nat, NEW r, AuthRowIs(r), Served(x, r[2], v, due),
         r[2] \notin Barred(x.kind, v)
  PROVE  Stock(AuthLeaf(x, r[4]), v, due)
<1>1. PICK y, do, e : y = AuthLeaf(x, r[4]) /\ do = r[4] /\ e = r[2]
  OBVIOUS
<1>2. /\ do \in Own \cup Others
      /\ do = "AaaSuccess" => e = "AaaSuccess"
      /\ do = "AaaFailure" => e = "AaaFailure"
      /\ do = "AaaContinue" => e = "AaaContinue"
      /\ do \in {"ReceiveMsg", "ReceiveMsg2", "Discard2"} => e = "RxMsg"
      /\ do = "Discard3" => e \in {"SgDiscard", "AaaContinue"}
      /\ Served(x, e, v, due) /\ e \notin Barred(x.kind, v)
  BY <1>1 DEF AuthRowIs
<1>3. DOMAIN x = AuthFields /\ x.ev = None /\ Same(x, x)
  BY DEF Doing, Same
<1>4. \A z : Gentle(x, z) => Keeps(x, z)
  BY DEF Gentle, Plainly, Keeps
<1>5. CASE do = "nothing"
  <2>1. y = x
    BY <1>1, <1>5 DEF AuthLeaf
  <2>2. Keeps(x, x)
    BY <1>3, NoneIsStill DEF Keeps
  <2> QED BY <1>1, <1>2, <2>1, <2>2, KeepsStocked
<1>6. CASE do \in Own \ {"SendSuccess", "SendFailure", "nothing", "ReceiveMsg", "Discard2"}
  <2>1. y = AuthLeafOwn(x, do)
    BY <1>1, <1>6, LeavesOwnAre DEF AuthLeaf, Own
  <2>2. Gentle(x, y)
    BY <1>6, <2>1, OwnIs
  <2> QED BY <1>1, <1>2, <1>4, <2>2, KeepsStocked
<1>7. ASSUME NEW m, NEW said, y = AuthSays(x, m, said) PROVE Stock(y, v, due)
  <2>1. Keeps(x, y)
    BY <1>3, <1>7, NoneIsStill DEF AuthSays, Stop, Keeps, AuthFields
  <2> QED BY <1>2, <2>1, KeepsStocked
<1>8. CASE do \in {"SendSuccess", "SendFailure"}
  <2>1. do \in LeavesOwn /\ do # "nothing"
    BY <1>8, LeavesOwnAre DEF Own
  <2>2. \E m, said : y = AuthSays(x, m, said)
    BY <1>1, <1>8, <2>1 DEF AuthLeaf, AuthLeafOwn
  <2> QED BY <1>1, <1>7, <2>2
<1>9. CASE do \in {"CompletePassThroughWithSuccess", "CompletePassThroughWithFailure"}
  <2>1. do \notin LeavesOwn /\ do # "nothing"
    BY <1>9, LeavesOwnAre DEF Own
  <2>2. \E m, said : y = AuthSays(x, m, said)
    BY <1>1, <1>9, <2>1 DEF AuthLeaf, PassThroughLeaf
  <2> QED BY <1>1, <1>7, <2>2
<1>10. CASE do \in {"AaaContinue", "AaaSuccess", "AaaFailure"}
  <2>1. do \notin LeavesOwn /\ do # "nothing"
    BY <1>10, LeavesOwnAre DEF Own
  <2>2. CASE do = "AaaContinue"
    <3>1. y = AaaTakes(x, "request", "RxAaaEapReq") /\ e = "AaaContinue"
      BY <1>1, <1>2, <2>1, <2>2 DEF AuthLeaf, PassThroughLeaf
    <3> QED BY <1>1, <1>2, <3>1, TakesStocked DEF Aaa
  <2>3. CASE do = "AaaSuccess"
    <3>1. y = AaaTakes(x, "success", "SgAaaSuccess") /\ e = "AaaSuccess"
      BY <1>1, <1>2, <2>1, <2>3 DEF AuthLeaf, PassThroughLeaf
    <3>2. v = "success"
      BY <1>2, <3>1 DEF Barred
    <3> QED BY <1>1, <1>2, <3>1, <3>2, TakesStocked DEF Aaa, Verdicts
  <2>4. CASE do = "AaaFailure"
    <3>1. y = AaaTakes(x, "failure", "SgAaaFailure") /\ e = "AaaFailure"
      BY <1>1, <1>2, <2>1, <2>4 DEF AuthLeaf, PassThroughLeaf
    <3>2. v = "failure"
      BY <1>2, <3>1 DEF Barred
    <3> QED BY <1>1, <1>2, <3>1, <3>2, TakesStocked DEF Aaa, Verdicts
  <2> QED BY <1>10, <2>2, <2>3, <2>4
<1>11. CASE do = "DoIntegrityCheck2"
  <2>1. y = [x EXCEPT !.tx = Append(@, x.rxm)]
    BY <1>1, <1>11, LeavesOwnAre DEF AuthLeaf, PassThroughLeaf, Own
  <2>2. Keeps(x, y)
    BY <1>3, <2>1, NoneIsStill DEF Keeps, AuthFields
  <2> QED BY <1>1, <1>2, <2>2, KeepsStocked
<1>12. CASE do \in {"PickUpInitCheck", "AaaRequest", "PrepareRequest"}
  <2>1. do \notin LeavesOwn /\ do # "nothing"
    BY <1>12, LeavesOwnAre DEF Own
  <2>2. \E d \in {"NoPickUpInit", "PickUpInit", "UCT"} : y = Event(x, d)
    BY <1>1, <1>12, <2>1 DEF AuthLeaf, PassThroughLeaf
  <2>3. Keeps(x, y)
    BY <1>3, <1>4, <2>2, SilentIs DEF Silent
  <2> QED BY <1>1, <1>2, <2>3, KeepsStocked
<1>13. CASE do \in {"ReceiveMsg", "Discard2"}
  <2>1. do \in LeavesOwn /\ do # "nothing"
    BY <1>13, LeavesOwnAre DEF Own
  <2>2. \E d \in {"Dequeue", "Discard2"} : y = Event(x, d)
    BY <1>1, <1>13, <2>1 DEF AuthLeaf, AuthLeafOwn
  <2>3. e = "RxMsg"
    BY <1>2, <1>13
  <2> QED BY <1>1, <1>2, <1>3, <2>2, <2>3, WaitsStocked
<1>14. CASE do \in {"ReceiveMsg2", "Discard3"}
  <2>1. do \notin LeavesOwn /\ do # "nothing"
    BY <1>14, LeavesOwnAre DEF Own
  <2>2. y = Event(x, IF do = "Discard3" THEN "Discard3" ELSE "Dequeue")
    BY <1>1, <1>14, <2>1 DEF AuthLeaf, PassThroughLeaf
  <2> QED BY <1>1, <1>2, <1>3, <1>14, <2>2, WaitsStocked
<1> QED BY <1>2, <1>5, <1>6, <1>8, <1>9, <1>10, <1>11, <1>12, <1>13, <1>14 DEF Own, Others

\* An event of a machine, in a state that has a row for it or has none.
LEMMA FireStocked ==
  ASSUME NEW x, Doing(x), x.kind \in AuthKind, NEW v, NEW due \in Nat, NEW e,
         Served(x, e, v, due), e \notin Barred(x.kind, v)
  PROVE  Stock(AuthFire(x, e), v, due)
<1>1. CASE <<x.fsm, e>> \notin DOMAIN AuthTable[x.kind]
  <2>1. AuthFire(x, e) = x
    BY <1>1 DEF AuthFire
  <2>2. Keeps(x, x)
    BY NoneIsStill DEF Keeps, Doing
  <2> QED BY <2>1, <2>2, KeepsStocked
<1>2. CASE <<x.fsm, e>> \in DOMAIN AuthTable[x.kind]
  <2>1. PICK r : r = AuthTable[x.kind][x.fsm, e]
    OBVIOUS
  <2>2. PICK z : z = [x EXCEPT !.fsm = r[3]]
    OBVIOUS
  <2>3. AuthFire(x, e) = AuthLeaf(z, r[4])
    BY <1>2, <2>1, <2>2 DEF AuthFire
  <2>4. AuthRowIs(r) /\ r[2] = e
    <3>1. PICK kind, st : kind = x.kind /\ st = x.fsm
      OBVIOUS
    <3>2. kind \in AuthKind /\ <<st, e>> \in DOMAIN AuthTable[kind]
      BY <1>2, <3>1
    <3>3. LET w == AuthTable[kind][st, e]
          IN AuthRowIs(w) /\ w[1] = st /\ w[2] = e /\ (w[4] \in Own \/ kind = "passthrough")
      BY <3>2, AuthRow
    <3> QED BY <2>1, <3>1, <3>3
  <2>5. Doing(z) /\ z.kind = x.kind /\ z.q = x.q /\ z.rx = x.rx /\ z.aaa = x.aaa /\ z.ev = x.ev
    BY <2>2 DEF Doing, AuthFields
  <2>6. Served(z, e, v, due)
    BY <2>5 DEF Served, Queues, AfterAll, Doing
  <2> QED BY <2>3, <2>4, <2>5, <2>6, LeafStocked
<1> QED BY <1>1, <1>2

\* The first event of the queue is taken.
LEMMA HeadServed ==
  ASSUME NEW x, NEW v, NEW due \in Nat, Stock(x, v, due), x.ev = None, x.q # <<>>,
         NEW z, z = [x EXCEPT !.q = Tail(x.q)]
  PROVE  Served(z, Head(x.q), v, due)
<1>1. PICK e, q : e = Head(x.q) /\ q = Tail(x.q)
  OBVIOUS
<1>2. Queues(x, v) /\ Sequence(x.q) /\ DOMAIN x = AuthFields
  BY DEF Stock, Queues
<1>3. /\ Sequence(q) /\ e = x.q[1] /\ Len(x.q) \in Nat /\ Len(x.q) >= 1 /\ Len(q) = Len(x.q) - 1
      /\ \A i \in 1 .. Len(x.q) - 1 : q[i] = x.q[i + 1]
      /\ \A B : Number(x.q, B) = Number(q, B) + IF e \in B THEN 1 ELSE 0
      /\ \A B : Without(x.q, B) => Without(q, B) /\ e \notin B
  BY <1>1, <1>2, NumberTail
<1>4. /\ DOMAIN z = AuthFields /\ z.q = q /\ z.rx = x.rx /\ z.aaa = x.aaa /\ z.ev = None
  BY <1>1, <1>2 DEF AuthFields
<1>5. DOMAIN x.q = 1 .. Len(x.q) /\ DOMAIN q = 1 .. Len(q)
  BY <1>2, <1>3 DEF Sequence
<1>6. \A i, j \in DOMAIN x.q : i < j /\ x.q[i] \in Verdicts => x.q[j] \notin Aaa
  BY <1>2 DEF Queues, Ordered
<1>7. Ordered(q)
  <2>1. ASSUME NEW i \in DOMAIN q, NEW j \in DOMAIN q, i < j, q[i] \in Verdicts
        PROVE  q[j] \notin Aaa
    <3>1. i + 1 \in DOMAIN x.q /\ j + 1 \in DOMAIN x.q /\ i + 1 < j + 1
      BY <1>3, <1>5, <2>1
    <3>2. q[i] = x.q[i + 1] /\ q[j] = x.q[j + 1]
      BY <1>3, <1>5, <2>1
    <3> QED BY <1>6, <2>1, <3>1, <3>2
  <2> QED BY <2>1 DEF Ordered
<1>8. e \in Verdicts => Without(q, Aaa) /\ Final(x.aaa)
  <2>1. e \in Verdicts => Without(q, Aaa)
    BY <1>3, <1>5, <1>6 DEF Without
  <2>2. e \in Verdicts => ~Without(x.q, Verdicts)
    BY <1>3
  <2> QED BY <1>2, <2>1, <2>2 DEF Queues
<1>9. Without(q, {"SgDiscard"}) /\ e # "SgDiscard"
  BY <1>2, <1>3 DEF Queues
<1>10. Without(q, Verdicts) \/ Final(x.aaa)
  BY <1>2, <1>3 DEF Queues
<1>11. Queues(z, v)
  BY <1>2, <1>3, <1>4, <1>7, <1>9, <1>10 DEF Queues
<1>12. x.ev \notin {"Dequeue", "Discard2"}
  BY NoneIsStill DEF Takings
<1>13. /\ Number(x.q, {"RxMsg"}) = Number(q, {"RxMsg"}) + One(e = "RxMsg")
       /\ Number(x.q, {"AaaContinue"}) = Number(q, {"AaaContinue"}) + One(e = "AaaContinue")
  BY <1>3 DEF One
<1>14. /\ Number(q, {"RxMsg"}) \in Nat /\ Number(q, {"AaaContinue"}) \in Nat
       /\ Len(x.rx) \in Nat /\ Len(x.aaa) \in Nat
  BY <1>2, <1>3, NumberIs, LenIs DEF Queues
<1>15. /\ Number(q, {"RxMsg"}) + One(e = "RxMsg") + due <= Len(x.rx)
       /\ Number(q, {"AaaContinue"}) + One(e = "AaaContinue") <= Left(x.aaa)
  BY <1>12, <1>13, <1>14 DEF Stock, One, Left
<1> QED BY <1>1, <1>4, <1>8, <1>9, <1>11, <1>15 DEF Served

\* A message was waited for.
LEMMA GivenServed ==
  ASSUME NEW x, NEW v, NEW due \in Nat, Stock(x, v, due), NEW z
  PROVE  /\ x.ev \in {"Dequeue", "Discard2"} /\ z = Dequeued(x) => Served(z, None, v, due)
         /\ x.ev = "Discard3" /\ z = [x EXCEPT !.aaa = Tail(@), !.ev = None] =>
              Served(z, None, v, due)
<1>1. Queues(x, v) /\ Sequence(x.q) /\ Sequence(x.rx) /\ Sequence(x.aaa) /\ DOMAIN x = AuthFields
      /\ Shaped(x.aaa, v)
  BY DEF Stock, Queues
<1>2. PICK n, k : n = Number(x.q, {"RxMsg"}) /\ k = Number(x.q, {"AaaContinue"})
  OBVIOUS
<1>3. n \in Nat /\ k \in Nat /\ Len(x.rx) \in Nat /\ Len(x.aaa) \in Nat
  BY <1>1, <1>2, NumberIs, LenIs
<1>4. /\ n + One(x.ev \in {"Dequeue", "Discard2"}) + due <= Len(x.rx) /\ k <= Left(x.aaa)
      /\ x.ev = "Discard3" => AfterAll(x, v) \/ k < Left(x.aaa)
  BY <1>2 DEF Stock
<1>5. /\ None # "RxMsg" /\ None # "AaaContinue" /\ None \notin Verdicts /\ None # "SgDiscard"
  BY NoneIsStill DEF Foreign, Takings, Aaa
<1>6. ASSUME x.ev \in {"Dequeue", "Discard2"}, z = Dequeued(x) PROVE Served(z, None, v, due)
  <2>1. n + 1 + due <= Len(x.rx)
    BY <1>4, <1>6 DEF One
  <2>2. x.rx # <<>>
    BY <1>3, <2>1
  <2>3. Sequence(Tail(x.rx)) /\ Len(Tail(x.rx)) = Len(x.rx) - 1
    BY <1>1, <2>2, NumberTail
  <2>4. DOMAIN z = AuthFields /\ z.q = x.q /\ z.rx = Tail(x.rx) /\ z.aaa = x.aaa /\ z.ev = None
    BY <1>1, <1>6 DEF Dequeued, AuthFields
  <2>5. Queues(z, v)
    BY <1>1, <2>3, <2>4 DEF Queues
  <2>6. n + 0 + due <= Len(z.rx) /\ k + 0 <= Left(z.aaa)
    BY <1>3, <1>4, <2>1, <2>3, <2>4 DEF Left
  <2> QED BY <1>2, <1>5, <2>4, <2>5, <2>6 DEF Served, One
<1>7. ASSUME x.ev = "Discard3", z = [x EXCEPT !.aaa = Tail(@), !.ev = None]
      PROVE  Served(z, None, v, due)
  <2>1. x.aaa # <<>>
    <3>1. Left(x.aaa) <= Len(x.aaa)
      BY <1>3 DEF Left
    <3>2. k < Left(x.aaa) => Len(x.aaa) # 0
      BY <1>3, <3>1 DEF Left
    <3> QED BY <1>4, <1>7, <3>2 DEF AfterAll
  <2>2. PICK a : a = Tail(x.aaa)
    OBVIOUS
  <2>3. /\ Sequence(a) /\ Shaped(a, v) /\ Left(x.aaa) \in Nat /\ Left(a) \in Nat
        /\ Left(x.aaa) >= 1 => Left(a) = Left(x.aaa) - 1 /\ (Final(a) <=> Final(x.aaa))
    BY <1>1, <2>1, <2>2, TailIs
  <2>4. DOMAIN z = AuthFields /\ z.q = x.q /\ z.rx = x.rx /\ z.aaa = a /\ z.ev = None
    BY <1>1, <1>7, <2>2 DEF AuthFields
  <2>5. k <= Left(a) /\ (Without(x.q, Verdicts) \/ Final(a))
    <3>1. CASE AfterAll(x, v)
      <4>1. Without(x.q, Verdicts) /\ Without(x.q, {"AaaContinue"})
        BY <3>1 DEF AfterAll, Without, Aaa
      <4>2. k = 0
        BY <1>1, <1>2, <4>1, NumberIs
      <4> QED BY <2>3, <4>1, <4>2
    <3>2. CASE k < Left(x.aaa)
      <4>1. Without(x.q, Verdicts) \/ Final(x.aaa)
        BY <1>1 DEF Queues
      <4>2. Left(x.aaa) >= 1
        BY <1>3, <2>3, <3>2
      <4>3. Left(a) = Left(x.aaa) - 1 /\ (Final(a) <=> Final(x.aaa))
        BY <2>3, <4>2
      <4>4. k <= Left(a)
        BY <1>3, <2>3, <3>2, <4>3
      <4> QED BY <4>1, <4>3, <4>4
    <3> QED BY <1>4, <1>7, <3>1, <3>2
  <2>6. Queues(z, v)
    BY <1>1, <2>3, <2>4, <2>5 DEF Queues
  <2>7. n + 0 + due <= Len(z.rx) /\ k + 0 <= Left(z.aaa)
    <3>1. One(x.ev \in {"Dequeue", "Discard2"}) = 0
      BY <1>7 DEF One
    <3>2. n + 0 + due <= Len(x.rx)
      BY <1>3, <1>4, <3>1
    <3>3. k + 0 <= Left(a)
      BY <1>3, <2>5
    <3> QED BY <2>4, <3>2, <3>3
  <2> QED BY <1>2, <1>5, <2>4, <2>6, <2>7 DEF Served, One
<1> QED BY <1>6, <1>7

\* Every step of an authenticator.
LEMMA StepStocked ==
  ASSUME NEW x, NEW v, NEW due \in Nat, Ready(x, v), x.kind \in AuthKind, Stock(x, v, due),
         AuthBusy(x), NEW known, NEW pickup
  PROVE  Stock(AuthStep(x, known, pickup), v, due)
<1>1. DOMAIN x = AuthFields /\ Free(x.q, Barred(x.kind, v)) /\ x.ev \notin Barred(x.kind, v)
  BY DEF Ready
<1>2. PICK y : y = AuthStep(x, known, pickup)
  OBVIOUS
<1>3. CASE x.ev = "Dequeue"
  <2>1. y = AuthDequeue(x)
    BY <1>2, <1>3, EapBaseAssumption DEF AuthStep
  <2>2. Silent(Dequeued(x), y)
    BY <1>1, <2>1, DequeueIs
  <2>3. Keeps(Dequeued(x), y)
    BY <2>2 DEF Silent, Gentle, Plainly, Keeps
  <2>4. Served(Dequeued(x), None, v, due)
    BY <1>3, GivenServed
  <2> QED BY <1>2, <2>3, <2>4, KeepsStocked
<1>4. CASE x.ev = "Discard2"
  <2>1. y = [x EXCEPT !.rx = Tail(@), !.ev = IF x.kind = "passthrough" THEN "UCT" ELSE None]
    BY <1>2, <1>4, EapBaseAssumption DEF AuthStep
  <2>2. y.ev \notin Foreign \cup Takings
    BY <1>1, <2>1, NoneIsStill DEF Foreign, Takings, Aaa, Verdicts, AuthFields
  <2>3. Keeps(Dequeued(x), y)
    BY <1>1, <2>1, <2>2 DEF Keeps, Dequeued, AuthFields
  <2>4. Served(Dequeued(x), None, v, due)
    BY <1>4, GivenServed
  <2> QED BY <1>2, <2>3, <2>4, KeepsStocked
<1>5. CASE x.ev = "Discard3"
  <2>1. y = [x EXCEPT !.aaa = Tail(@), !.ev = None]
    BY <1>2, <1>5, EapBaseAssumption DEF AuthStep
  <2>2. Keeps(y, y)
    BY <1>1, <2>1, NoneIsStill DEF Keeps, AuthFields
  <2>3. Served(y, None, v, due)
    BY <1>5, <2>1, GivenServed
  <2> QED BY <1>2, <2>2, <2>3, KeepsStocked
<1>6. CASE x.ev = None
  <2>1. x.q # <<>>
    BY <1>6, EapBaseAssumption DEF AuthBusy
  <2>2. PICK z, e : z = [x EXCEPT !.q = Tail(x.q)] /\ e = Head(x.q)
    OBVIOUS
  <2>3. Served(z, e, v, due)
    BY <1>6, <2>1, <2>2, HeadServed
  <2>4. e \notin Barred(x.kind, v)
    BY <1>1, <2>1, <2>2, FreeTail
  <2>5. Doing(z) /\ z.kind = x.kind
    BY <1>1, <1>6, <2>2 DEF Doing, AuthFields
  <2>6. y = IF e = "IntegrityCheck" THEN AuthMethod(z, known, pickup) ELSE AuthFire(z, e)
    BY <1>1, <1>2, <1>6, <2>2, EapBaseAssumption DEF AuthStep, AuthFields
  <2>7. CASE e = "IntegrityCheck"
    <3>1. Methodical(z, y)
      BY <2>5, <2>6, <2>7, AuthMethodIs DEF Doing
    <3>2. Keeps(z, y)
      BY <2>5, <3>1, NoneIsStill DEF Methodical, Control, Keeps, Doing
    <3> QED BY <1>2, <2>3, <3>2, KeepsStocked
  <2>8. CASE e # "IntegrityCheck"
    <3>1. y = AuthFire(z, e)
      BY <2>6, <2>8
    <3> QED BY <1>2, <2>3, <2>4, <2>5, <3>1, FireStocked
  <2> QED BY <2>7, <2>8
<1>7. CASE x.ev \notin {"Dequeue", "Discard2", "Discard3", None}
  <2>1. PICK z, e : z = [x EXCEPT !.ev = None] /\ e = x.ev
    OBVIOUS
  <2>2. y = AuthFire(z, e)
    BY <1>2, <1>7, <2>1 DEF AuthStep
  <2>3. /\ Doing(z) /\ z.kind = x.kind /\ z.q = x.q /\ z.rx = x.rx /\ z.aaa = x.aaa /\ z.ev = None
    BY <1>1, <2>1 DEF Doing, AuthFields
  <2>4. e # "RxMsg" /\ e # "AaaContinue" /\ e \notin Verdicts /\ e \notin {"Dequeue", "Discard2"}
    BY <1>7, <2>1 DEF Stock, Foreign, Aaa
  <2>5. Queues(z, v) /\ (AfterAll(z, v) <=> AfterAll(x, v))
    BY <1>1, <2>3 DEF Stock, Queues, AfterAll, Doing
  <2>6. Served(z, e, v, due)
    <3>1. /\ One(e = "RxMsg") = One(e \in {"Dequeue", "Discard2"})
          /\ One(e = "AaaContinue") = 0
      BY <2>4 DEF One
    <3>2. Number(x.q, {"AaaContinue"}) \in Nat
      <4>1. Sequence(x.q)
        BY DEF Stock, Queues
      <4> QED BY <4>1, NumberIs
    <3>3. Number(x.q, {"AaaContinue"}) + 0 <= Left(x.aaa)
      BY <3>2 DEF Stock
    <3> QED BY <2>1, <2>3, <2>4, <2>5, <3>1, <3>3 DEF Stock, Served
  <2> QED BY <1>1, <1>2, <2>1, <2>2, <2>3, <2>6, FireStocked
<1> QED BY <1>2, <1>3, <1>4, <1>5, <1>6, <1>7
----------------------------------------------------------------------------
(* What a backend says.                                                    *)

\* A request is sent when one was built: there is no other way to SendRequest, and a
\* backend does not retransmit.
Speaks(x) ==
  /\ Without(x.q, {"To"}) /\ x.fsm # "AaaResponse"
  /\ x.fsm = "MethodRequest" => x.ev = "UCT" /\ x.txm.code = "request"

\* Nothing, a request, or the message of the verdict.
Spoken(y) ==
  \/ y.tx = <<>> /\ y.said = None
  \/ \E m : y.tx = <<m>> /\ m.code = IF y.said = None THEN "request" ELSE y.said

\* Events that are no timeout.
LEMMA NoTimeout ==
  ASSUME NEW x, NEW y, Sequence(x.q), Without(x.q, {"To"}),
         \/ y.q = x.q
         \/ \E e \in {"UCT", "Else", "IntegrityCheck", "ValidResp", "InvalidResp"} :
              y.q = Append(x.q, e)
  PROVE  Without(y.q, {"To"})
<1>1. ASSUME NEW e \in {"UCT", "Else", "IntegrityCheck", "ValidResp", "InvalidResp"}
      PROVE  Without(Append(x.q, e), {"To"})
  <2>1. e \notin {"To"}
    OBVIOUS
  <2> QED BY <2>1, NumberAppend
<1> QED BY <1>1

\* Every backend finds the row of its request.
LEMMA RequestRow == <<"MethodRequest", "UCT">> \in DOMAIN AuthTable["backend"]
<1>1. PICK kind, rows : kind = "backend" /\ rows = RowsOf(kind)
  OBVIOUS
<1>2. AuthTable[kind] = Indexed(rows)
  BY <1>1, TableOf DEF AuthKind
<1>3. PICK r : r = <<"MethodRequest", "UCT", "SendRequest", "SendRequest">>
  OBVIOUS
<1>4. r \in rows
  BY <1>1, <1>3 DEF RowsOf, BackendTable, AuthRows, AuthSelects
<1>5. <<r[1], r[2]>> \in DOMAIN Indexed(rows)
  BY <1>4 DEF Indexed
<1> QED BY <1>1, <1>2, <1>3, <1>5

\* A row of a backend.
LEMMA LeafSpeaks ==
  ASSUME NEW x, Doing(x), NEW r, AuthRowIs(r), r[4] \in Own, r[2] # "To", r[1] # "AaaResponse",
         x.fsm = r[3], Sequence(x.q), Without(x.q, {"To"}), x.tx = <<>>, x.said = None,
         r[1] = "MethodRequest" => x.txm.code = "request"
  PROVE  Speaks(AuthLeaf(x, r[4])) /\ Spoken(AuthLeaf(x, r[4]))
<1>1. PICK y, do : y = AuthLeaf(x, r[4]) /\ do = r[4]
  OBVIOUS
<1>2. /\ do \in Own /\ do # "Retransmit"
      /\ do = "SendRequest" => x.txm.code = "request"
      /\ x.fsm = "MethodRequest" => do = "BuildRequest"
      /\ x.fsm # "AaaResponse"
  BY <1>1 DEF AuthRowIs, Own
<1>3. DOMAIN x = AuthFields /\ x.ev = None
  BY DEF Doing
<1>4. CASE do = "nothing"
  <2>1. y = x
    BY <1>1, <1>4 DEF AuthLeaf
  <2> QED BY <1>1, <1>2, <1>4, <2>1 DEF Speaks, Spoken
<1>5. CASE do \in {"SendSuccess", "SendFailure"}
  <2>1. PICK said : said = IF do = "SendSuccess" THEN "success" ELSE "failure"
    OBVIOUS
  <2>2. PICK m : m = Eap(said, x.id, None, None)
    OBVIOUS
  <2>3. y = AuthSays(x, m, said)
    BY <1>1, <1>5, <2>1, <2>2, LeavesOwnAre DEF AuthLeaf, AuthLeafOwn, Own
  <2>4. y.q = <<>> /\ y.fsm = x.fsm /\ y.said = said /\ y.tx = Append(<<>>, m)
    BY <1>3, <2>3 DEF AuthSays, Stop, AuthFields
  <2>5. m.code = said /\ said # None
    BY <2>1, <2>2, NoneIs DEF Eap
  <2>6. Without(<<>>, {"To"}) /\ Append(<<>>, m) = <<m>>
    BY DEF Without
  <2> QED BY <1>1, <1>2, <1>5, <2>4, <2>5, <2>6 DEF Speaks, Spoken
<1>6. CASE do \in Own \ {"SendSuccess", "SendFailure", "nothing", "ReceiveMsg", "Discard2"}
  <2>1. y = AuthLeafOwn(x, do)
    BY <1>1, <1>6, LeavesOwnAre DEF AuthLeaf, Own
  <2>2. Gentle(x, y) /\ (do \in {"SendRequest", "Retransmit"} \/ Silent(x, y))
    BY <1>6, <2>1, OwnIs
  <2>3. y.fsm = x.fsm /\ y.said = None /\ Without(y.q, {"To"})
    BY <2>2, NoTimeout DEF Gentle, Plainly
  <2>4. do = "BuildRequest" => y.ev = "UCT" /\ y.txm.code = "request"
    <3>1. ASSUME do = "BuildRequest" PROVE y = BuildRequest(x)
      BY <2>1, <3>1 DEF AuthLeafOwn
    <3>2. PICK id, m : id = (x.id + 1) % 256 /\ m = Eap("request", id, x.txm.type, x.txm.data)
      OBVIOUS
    <3>3. PICK w : w = [x EXCEPT !.id = id, !.txm = m]
      OBVIOUS
    <3>4. DOMAIN w = AuthFields /\ w.txm.code = "request"
      BY <1>3, <3>2, <3>3 DEF Eap, AuthFields
    <3>5. BuildRequest(x) = Event(w, "UCT")
      BY <1>3, <3>2, <3>3 DEF BuildRequest, AuthFields
    <3>6. Event(w, "UCT").ev = "UCT" /\ Event(w, "UCT").txm.code = "request"
      BY <3>4 DEF Event, AuthFields
    <3> QED BY <3>1, <3>5, <3>6
  <2>5. Spoken(y)
    <3>1. CASE do = "SendRequest"
      <4>1. y.tx = <<>> \/ y.tx = Append(<<>>, x.txm)
        BY <2>2 DEF Gentle, Plainly
      <4>2. Append(<<>>, x.txm) = <<x.txm>>
        OBVIOUS
      <4> QED BY <1>2, <2>3, <3>1, <4>1, <4>2 DEF Spoken
    <3>2. CASE do # "SendRequest"
      BY <1>2, <2>2, <2>3, <3>2 DEF Silent, Spoken
    <3> QED BY <3>1, <3>2
  <2> QED BY <1>1, <1>2, <2>3, <2>4, <2>5 DEF Speaks
<1>7. CASE do \in {"ReceiveMsg", "Discard2"}
  <2>1. do \in LeavesOwn /\ do # "nothing"
    BY <1>7, LeavesOwnAre DEF Own
  <2>2. \E d : y = Event(x, d)
    BY <1>1, <1>7, <2>1 DEF AuthLeaf, AuthLeafOwn
  <2>3. y.q = x.q /\ y.fsm = x.fsm /\ y.tx = <<>> /\ y.said = None
    BY <1>3, <2>2 DEF Event, AuthFields
  <2> QED BY <1>1, <1>2, <1>7, <2>3 DEF Speaks, Spoken
<1> QED BY <1>2, <1>4, <1>5, <1>6, <1>7

\* An event of a backend.
LEMMA FireSpeaks ==
  ASSUME NEW x, Doing(x), x.kind = "backend", NEW e, e # "To", Sequence(x.q),
         Without(x.q, {"To"}), x.tx = <<>>, x.said = None, x.fsm # "AaaResponse",
         x.fsm = "MethodRequest" => e = "UCT" /\ x.txm.code = "request"
  PROVE  Speaks(AuthFire(x, e)) /\ Spoken(AuthFire(x, e))
<1>1. CASE <<x.fsm, e>> \notin DOMAIN AuthTable[x.kind]
  <2>1. AuthFire(x, e) = x
    BY <1>1 DEF AuthFire
  <2>2. x.fsm # "MethodRequest"
    BY <1>1, RequestRow
  <2> QED BY <2>1, <2>2 DEF Speaks, Spoken
<1>2. CASE <<x.fsm, e>> \in DOMAIN AuthTable[x.kind]
  <2>1. PICK r : r = AuthTable[x.kind][x.fsm, e]
    OBVIOUS
  <2>2. PICK z : z = [x EXCEPT !.fsm = r[3]]
    OBVIOUS
  <2>3. AuthFire(x, e) = AuthLeaf(z, r[4])
    BY <1>2, <2>1, <2>2 DEF AuthFire
  <2>4. AuthRowIs(r) /\ r[1] = x.fsm /\ r[2] = e /\ r[4] \in Own
    <3>1. PICK kind, st : kind = x.kind /\ st = x.fsm
      OBVIOUS
    <3>2. kind \in AuthKind /\ <<st, e>> \in DOMAIN AuthTable[kind]
      BY <1>2, <3>1 DEF AuthKind
    <3>3. LET w == AuthTable[kind][st, e]
          IN AuthRowIs(w) /\ w[1] = st /\ w[2] = e /\ (w[4] \in Own \/ kind = "passthrough")
      BY <3>2, AuthRow
    <3> QED BY <2>1, <3>1, <3>3
  <2>5. /\ Doing(z) /\ z.q = x.q /\ z.said = None /\ z.tx = <<>> /\ z.fsm = r[3] /\ z.txm = x.txm
    BY <2>2 DEF Doing, AuthFields
  <2>6. r[2] # "To" /\ r[1] # "AaaResponse" /\ (r[1] = "MethodRequest" => z.txm.code = "request")
    BY <2>4, <2>5
  <2>7. Sequence(z.q) /\ Without(z.q, {"To"})
    BY <2>5
  <2> QED BY <2>3, <2>4, <2>5, <2>6, <2>7, LeafSpeaks
<1> QED BY <1>1, <1>2

\* Every step of a backend.
LEMMA StepSpeaks ==
  ASSUME NEW x, Ready(x, None), x.kind = "backend", x.tx = <<>>, Stock(x, None, 0), Speaks(x),
         AuthBusy(x), NEW known, NEW pickup
  PROVE  LET y == AuthStep(x, known, pickup) IN Speaks(y) /\ Spoken(y)
<1>1. /\ DOMAIN x = AuthFields /\ x.said = None /\ Sequence(x.q)
      /\ Without(x.q, {"To"}) /\ x.fsm # "AaaResponse"
      /\ x.fsm = "MethodRequest" => x.ev = "UCT" /\ x.txm.code = "request"
      /\ x.ev # "To"
  BY DEF Ready, AuthBusy, Stock, Queues, Speaks, Foreign
<1>2. PICK y : y = AuthStep(x, known, pickup)
  OBVIOUS
<1>3. CASE x.ev = "Dequeue"
  <2>1. y = AuthDequeue(x)
    BY <1>2, <1>3, EapBaseAssumption DEF AuthStep
  <2>2. PICK w : w = Dequeued(x)
    OBVIOUS
  <2>3. Silent(w, y)
    BY <1>1, <2>1, <2>2, DequeueIs
  <2>4. w.q = x.q /\ w.fsm = x.fsm /\ w.tx = <<>> /\ w.said = None
    BY <1>1, <2>2 DEF Dequeued, AuthFields
  <2>5. Without(y.q, {"To"})
    BY <1>1, <2>3, <2>4, NoTimeout DEF Silent, Gentle, Plainly
  <2>6. y.fsm = x.fsm /\ y.tx = <<>> /\ y.said = None
    BY <2>3, <2>4 DEF Silent, Gentle, Plainly
  <2> QED BY <1>1, <1>2, <1>3, <2>5, <2>6 DEF Speaks, Spoken
<1>4. CASE x.ev \in {"Discard2", "Discard3"}
  <2>1. y.q = x.q /\ y.fsm = x.fsm /\ y.tx = <<>> /\ y.said = None
    BY <1>1, <1>2, <1>4, EapBaseAssumption DEF AuthStep, AuthFields
  <2> QED BY <1>1, <1>2, <1>4, <2>1 DEF Speaks, Spoken
<1>5. CASE x.ev = None
  <2>1. x.q # <<>> /\ x.fsm # "MethodRequest"
    BY <1>1, <1>5, EapBaseAssumption DEF AuthBusy
  <2>2. PICK z, e : z = [x EXCEPT !.q = Tail(x.q)] /\ e = Head(x.q)
    OBVIOUS
  <2>3. Sequence(Tail(x.q)) /\ Without(Tail(x.q), {"To"}) /\ e # "To"
    BY <1>1, <2>1, <2>2, NumberTail
  <2>4. /\ Doing(z) /\ z.kind = "backend" /\ z.q = Tail(x.q) /\ z.fsm = x.fsm /\ z.tx = <<>>
        /\ z.said = None
    BY <1>1, <1>5, <2>2 DEF Doing, AuthFields
  <2>5. y = IF e = "IntegrityCheck" THEN AuthMethod(z, known, pickup) ELSE AuthFire(z, e)
    BY <1>1, <1>2, <1>5, <2>2, EapBaseAssumption DEF AuthStep, AuthFields
  <2>6. CASE e = "IntegrityCheck"
    <3>1. Methodical(z, y)
      BY <2>4, <2>5, <2>6, AuthMethodIs DEF Doing
    <3>2. y.fsm = x.fsm /\ y.tx = <<>> /\ y.said = None
      BY <2>4, <3>1 DEF Methodical, Control
    <3>3. Without(y.q, {"To"})
      BY <2>3, <2>4, <3>1, NoTimeout DEF Methodical
    <3> QED BY <1>1, <1>2, <2>1, <3>2, <3>3 DEF Speaks, Spoken
  <2>7. CASE e # "IntegrityCheck"
    <3>1. y = AuthFire(z, e)
      BY <2>5, <2>7
    <3> QED BY <1>1, <1>2, <2>1, <2>3, <2>4, <3>1, FireSpeaks
  <2> QED BY <2>6, <2>7
<1>6. CASE x.ev \notin {"Dequeue", "Discard2", "Discard3", None}
  <2>1. PICK z, e : z = [x EXCEPT !.ev = None] /\ e = x.ev
    OBVIOUS
  <2>2. y = AuthFire(z, e)
    BY <1>2, <1>6, <2>1 DEF AuthStep
  <2>3. /\ Doing(z) /\ z.kind = "backend" /\ z.q = x.q /\ z.said = None
        /\ z.tx = <<>> /\ z.txm = x.txm /\ z.fsm = x.fsm
    BY <1>1, <2>1 DEF Doing, AuthFields
  <2> QED BY <1>1, <1>2, <2>1, <2>2, <2>3, FireSpeaks
<1> QED BY <1>2, <1>3, <1>4, <1>5, <1>6
----------------------------------------------------------------------------
(* The invariant.                                                          *)

StockInv ==
  /\ AgreeInv
  /\ Stock(auth, back.said, One("auth" \in noting)) /\ Stock(back, None, 0) /\ Speaks(back)

\* A machine that is stocked is not blocked.
LEMMA StockedNotBlocked ==
  ASSUME NEW x, NEW v, NEW due \in Nat, Stock(x, v, due)
  PROVE  ~AuthBlocked(x)
<1>1. Sequence(x.q) /\ Sequence(x.rx) /\ Sequence(x.aaa)
  BY DEF Stock, Queues
<1>2. /\ Number(x.q, {"RxMsg"}) \in Nat /\ Number(x.q, {"AaaContinue"}) \in Nat
      /\ Len(x.rx) \in Nat /\ Len(x.aaa) \in Nat
  BY <1>1, NumberIs, LenIs
<1>3. x.ev \in {"Dequeue", "Discard2"} => x.rx # <<>>
  <2>1. ASSUME x.ev \in {"Dequeue", "Discard2"} PROVE Len(x.rx) # 0
    <3>1. Number(x.q, {"RxMsg"}) + 1 + due <= Len(x.rx)
      BY <2>1 DEF Stock, One
    <3> QED BY <1>2, <3>1
  <2> QED BY <2>1
<1>4. x.ev = "Discard3" => x.aaa # <<>>
  <2>1. ASSUME x.ev = "Discard3", x.aaa = <<>> PROVE FALSE
    <3>1. ~Final(x.aaa) /\ Left(x.aaa) = 0
      BY <2>1 DEF Final, Left
    <3>2. Number(x.q, {"AaaContinue"}) < Left(x.aaa)
      BY <2>1 DEF Stock, AfterAll
    <3> QED BY <1>2, <3>1, <3>2
  <2> QED BY <2>1
<1> QED BY <1>3, <1>4 DEF AuthBlocked

\* A machine with nothing under way, and one that is started.
LEMMA EmptyStocked ==
  ASSUME NEW x, DOMAIN x = AuthFields, x.rx = <<>>, x.aaa = <<>>, x.ev = None,
         x.q = <<>> \/ x.q = Append(<<>>, "Restart"), NEW v
  PROVE  Stock(x, v, 0) /\ Without(x.q, {"To"})
<1>1. Sequence(<<>>) /\ DOMAIN <<>> = {} /\ Len(<<>>) = 0
  <2>1. PICK S : S = {}
    OBVIOUS
  <2>2. <<>> \in Seq(S)
    OBVIOUS
  <2> QED BY <2>2 DEF Sequence
<1>2. \A B : Without(<<>>, B) /\ Number(<<>>, B) = 0
  BY <1>1, NumberIs DEF Without
<1>3. \A B : "Restart" \notin B => /\ Without(Append(<<>>, "Restart"), B)
                                  /\ Number(Append(<<>>, "Restart"), B) = 0
  <2>1. PICK q, e : q = <<>> /\ e = "Restart"
    OBVIOUS
  <2>2. Sequence(q) /\ \A B : Without(q, B) /\ Number(q, B) = 0
    BY <1>1, <1>2, <2>1
  <2>3. ASSUME NEW B, e \notin B
        PROVE  Without(Append(q, e), B) /\ Number(Append(q, e), B) = 0
    <3>1. Number(Append(q, e), B) = Number(q, B) + 0
      BY <2>2, <2>3, NumberAppend
    <3>2. Without(Append(q, e), B)
      BY <2>2, <2>3, NumberAppend
    <3> QED BY <2>2, <3>1, <3>2
  <2> QED BY <2>1, <2>3
<1>4. Sequence(Append(<<>>, "Restart")) /\ Sequence(x.q)
  BY <1>1, NumberAppend
<1>5. \A B : "Restart" \notin B => Without(x.q, B) /\ Number(x.q, B) = 0
  BY <1>2, <1>3
<1>6. Without(x.q, Verdicts) /\ Without(x.q, {"SgDiscard"}) /\ Without(x.q, {"To"})
      /\ Number(x.q, {"RxMsg"}) = 0 /\ Number(x.q, {"AaaContinue"}) = 0
  BY <1>5 DEF Verdicts
<1>7. Ordered(x.q)
  <2>1. \A i \in DOMAIN x.q : x.q[i] \notin Verdicts
    BY <1>6 DEF Without
  <2> QED BY <2>1 DEF Ordered
<1>8. Left(x.aaa) = 0 /\ Shaped(x.aaa, v)
  BY <1>1 DEF Left, Final, Shaped
<1>9. /\ x.ev \notin Foreign /\ x.ev \notin Takings
  BY NoneIsStill
<1>10. One(x.ev \in {"Dequeue", "Discard2"}) = 0 /\ x.ev # "SgDiscard" /\ x.ev # "Discard3"
  BY <1>9 DEF One, Takings
<1>11. Queues(x, v)
  BY <1>1, <1>4, <1>6, <1>7, <1>8 DEF Queues
<1> QED BY <1>1, <1>6, <1>8, <1>9, <1>10, <1>11 DEF Stock

\* The initial states.
LEMMA InitStocked == Init => StockInv
<1> SUFFICES ASSUME Init PROVE StockInv
  OBVIOUS
<1>1. PICK method \in Methods :
        /\ auth \in {AuthStart(s, None) : s \in Servers(method)}
        /\ back = AuthInit("backend", IF method = "md5" THEN "plain" ELSE method)
        /\ noting = {}
  BY DEF Init
<1>2. PICK kind, policy : auth = AuthStart(AuthInit(kind, policy), None)
  BY <1>1 DEF Servers
<1>3. PICK x : x = AuthInit(kind, policy)
  OBVIOUS
<1>4. DOMAIN x = AuthFields /\ x.rx = <<>> /\ x.aaa = <<>> /\ x.ev = None /\ x.q = <<>>
  BY <1>3 DEF AuthInit, AuthFields
<1>5. /\ DOMAIN auth = AuthFields /\ auth.rx = <<>> /\ auth.aaa = <<>> /\ auth.ev = None
      /\ auth.q = Append(<<>>, "Restart")
  BY <1>2, <1>3, <1>4 DEF AuthStart, AuthFields
<1>6. /\ DOMAIN back = AuthFields /\ back.rx = <<>> /\ back.aaa = <<>> /\ back.ev = None
      /\ back.q = <<>> /\ back.fsm = "Begin"
  BY <1>1 DEF AuthInit, AuthFields
<1>7. Stock(auth, back.said, 0) /\ Stock(back, None, 0) /\ Without(back.q, {"To"})
  BY <1>5, <1>6, EmptyStocked
<1>8. One("auth" \in noting) = 0
  BY <1>1 DEF One
<1> QED BY <1>6, <1>7, <1>8, InitAgrees DEF StockInv, Speaks

\* What is left out of the count.
LEMMA DueIs == One("auth" \in noting) \in Nat /\ One("auth" \in noting') \in Nat /\ 0 \in Nat
BY DEF One

\* What a machine has sent is gone.
LEMMA DeliveredStocked ==
  ASSUME NEW x, NEW v, NEW due, Stock(x, v, due)
  PROVE  Stock(Delivered(x), v, due) /\ Delivered(x).said = x.said
         /\ (Speaks(x) => Speaks(Delivered(x)))
<1>1. PICK y : y = Delivered(x)
  OBVIOUS
<1>2. /\ DOMAIN y = AuthFields /\ y.q = x.q /\ y.rx = x.rx /\ y.aaa = x.aaa /\ y.ev = x.ev
      /\ y.said = x.said /\ y.fsm = x.fsm /\ y.txm = x.txm
  BY <1>1 DEF Delivered, Stock, Queues, AuthFields
<1>3. Queues(y, v) /\ (AfterAll(y, v) <=> AfterAll(x, v))
  BY <1>2 DEF Stock, Queues, AfterAll
<1> QED BY <1>1, <1>2, <1>3 DEF Stock, Speaks

\* One more event that is none of the server.
LEMMA AppendStocked ==
  ASSUME NEW x, NEW v, NEW due \in Nat, NEW e, e \notin Aaa, e # "SgDiscard",
         Stock(x, v, due + One(e = "RxMsg")), NEW y, DOMAIN y = AuthFields,
         y.q = Append(x.q, e), y.rx = x.rx, y.aaa = x.aaa, y.ev = x.ev
  PROVE  Stock(y, v, due)
<1>1. Queues(x, v) /\ Sequence(x.q) /\ Sequence(x.rx) /\ Sequence(x.aaa)
  BY DEF Stock, Queues
<1>2. \A B : Number(x.q, B) \in Nat
  BY <1>1, NumberIs
<1>3. /\ Sequence(y.q)
      /\ \A B : Number(y.q, B) = Number(x.q, B) + IF e \in B THEN 1 ELSE 0
      /\ \A B : Without(x.q, B) /\ e \notin B => Without(y.q, B)
  <2>1. PICK q : q = x.q
    OBVIOUS
  <2>2. Sequence(q) /\ y.q = Append(q, e)
    BY <1>1, <2>1
  <2>3. /\ Sequence(Append(q, e))
        /\ \A B : Number(Append(q, e), B) = Number(q, B) + IF e \in B THEN 1 ELSE 0
        /\ \A B : Without(q, B) /\ e \notin B => Without(Append(q, e), B)
    BY <2>2, NumberAppend
  <2> QED BY <2>1, <2>2, <2>3
<1>4. /\ Number(y.q, {"RxMsg"}) = Number(x.q, {"RxMsg"}) + One(e = "RxMsg")
      /\ Number(y.q, {"AaaContinue"}) = Number(x.q, {"AaaContinue"})
  BY <1>2, <1>3 DEF One, Aaa
<1>5. /\ Without(x.q, Verdicts) => Without(y.q, Verdicts)
      /\ Without(x.q, Aaa) => Without(y.q, Aaa)
      /\ Without(y.q, {"SgDiscard"})
  BY <1>1, <1>3 DEF Queues, Aaa
<1>6. Ordered(y.q)
  <2>1. PICK S : x.q \in Seq(S)
    BY <1>1 DEF Sequence
  <2>2. PICK T : T = S \cup {e}
    OBVIOUS
  <2>3. x.q \in Seq(T) /\ e \in T
    BY <2>1, <2>2
  <2>4. /\ Len(x.q) \in Nat /\ DOMAIN x.q = 1 .. Len(x.q) /\ DOMAIN y.q = 1 .. Len(x.q) + 1
        /\ y.q[Len(x.q) + 1] = e /\ \A i \in 1 .. Len(x.q) : y.q[i] = x.q[i]
    BY <2>3
  <2>5. \A i, j \in 1 .. Len(x.q) : i < j /\ x.q[i] \in Verdicts => x.q[j] \notin Aaa
    BY <1>1, <2>4 DEF Queues, Ordered
  <2> QED BY <2>4, <2>5 DEF Ordered
<1>7. Queues(y, v) /\ (AfterAll(x, v) => AfterAll(y, v))
  BY <1>1, <1>3, <1>5, <1>6 DEF Queues, AfterAll
<1>8. Len(x.rx) \in Nat
  BY <1>1, LenIs
<1>9. Number(y.q, {"RxMsg"}) + One(y.ev \in {"Dequeue", "Discard2"}) + due <= Len(y.rx)
  <2>1. One(e = "RxMsg") \in Nat /\ One(x.ev \in {"Dequeue", "Discard2"}) \in Nat
    BY DEF One
  <2>2. Number(x.q, {"RxMsg"}) + One(x.ev \in {"Dequeue", "Discard2"}) + (due + One(e = "RxMsg"))
          <= Len(x.rx)
    BY DEF Stock
  <2> QED BY <1>2, <1>4, <1>8, <2>1, <2>2
<1> QED BY <1>4, <1>7, <1>9 DEF Stock

\* One more message, which no event announces yet.
LEMMA ReceiveStocked ==
  ASSUME NEW x, NEW v, NEW due \in Nat, Stock(x, v, due), NEW m, NEW y,
         y = [x EXCEPT !.rx = Append(x.rx, m)]
  PROVE  Stock(y, v, due + 1) /\ DOMAIN y = AuthFields /\ y.q = x.q /\ y.fsm = x.fsm
         /\ y.ev = x.ev /\ y.txm = x.txm
<1>1. /\ DOMAIN y = AuthFields /\ y.q = x.q /\ y.rx = Append(x.rx, m) /\ y.aaa = x.aaa
      /\ y.ev = x.ev /\ y.fsm = x.fsm /\ y.txm = x.txm
  BY DEF Stock, Queues, AuthFields
<1>2. Sequence(x.q) /\ Sequence(x.rx)
  BY DEF Stock, Queues
<1>3. Sequence(y.rx) /\ Len(y.rx) = Len(x.rx) + 1 /\ Len(x.rx) \in Nat
  <2>1. PICK S : x.rx \in Seq(S)
    BY <1>2 DEF Sequence
  <2>2. PICK T : T = S \cup {m}
    OBVIOUS
  <2>3. x.rx \in Seq(T) /\ m \in T
    BY <2>1, <2>2
  <2>4. Append(x.rx, m) \in Seq(T) /\ Len(Append(x.rx, m)) = Len(x.rx) + 1 /\ Len(x.rx) \in Nat
    BY <2>3
  <2> QED BY <1>1, <2>4 DEF Sequence
<1>4. Queues(y, v) /\ (AfterAll(x, v) <=> AfterAll(y, v))
  BY <1>1, <1>3 DEF Stock, Queues, AfterAll
<1>5. Number(y.q, {"RxMsg"}) + One(y.ev \in {"Dequeue", "Discard2"}) + (due + 1) <= Len(y.rx)
  <2>1. Number(x.q, {"RxMsg"}) \in Nat /\ One(x.ev \in {"Dequeue", "Discard2"}) \in Nat
    BY <1>2, NumberIs DEF One
  <2>2. Number(x.q, {"RxMsg"}) + One(x.ev \in {"Dequeue", "Discard2"}) + due <= Len(x.rx)
    BY DEF Stock
  <2> QED BY <1>1, <1>3, <2>1, <2>2
<1> QED BY <1>1, <1>4, <1>5 DEF Stock

\* The verdict is given later.
LEMMA LaterStocked ==
  ASSUME NEW x, NEW due, Stock(x, None, due), NEW v
  PROVE  Stock(x, v, due)
<1>1. Shaped(x.aaa, v)
  BY DEF Stock, Queues, Shaped
<1>2. ~AfterAll(x, None)
  BY DEF AfterAll
<1> QED BY <1>1, <1>2 DEF Stock, Queues

\* An answer of the AAA server.
LEMMA AnsweredStocked ==
  ASSUME NEW x, NEW due \in Nat, Ready(x, None), Stock(x, None, due),
         NEW said \in {None, "success", "failure"}, NEW m,
         m.code = IF said = None THEN "request" ELSE said, NEW key
  PROVE  Stock(Answered(x, said, m, key), said, due)
<1>1. PICK y, k : y = Answered(x, said, m, key) /\ k = IF said = "success" THEN key ELSE x.key
  OBVIOUS
<1>2. CASE ~x.run
  <2>1. y = x
    BY <1>1, <1>2 DEF Answered
  <2> QED BY <1>1, <2>1, LaterStocked
<1>3. CASE x.run
  <2>1. PICK e : e = CASE said = "success" -> "AaaSuccess"
                       [] said = "failure" -> "AaaFailure"
                       [] said = None      -> "AaaContinue"
    OBVIOUS
  <2>2. PICK z : z = [x EXCEPT !.aaa = Append(@, m), !.key = k]
    OBVIOUS
  <2>3. DOMAIN x = AuthFields
    BY DEF Ready
  <2>4. y = Notify(z, e)
    BY <1>1, <1>3, <2>1, <2>2, <2>3 DEF Answered, AuthFields
  <2>5. PICK a, q : a = Append(x.aaa, m) /\ q = Append(x.q, e)
    OBVIOUS
  <2>6. /\ DOMAIN y = AuthFields /\ y.q = q /\ y.rx = x.rx /\ y.aaa = a /\ y.ev = x.ev
    BY <2>2, <2>3, <2>4, <2>5 DEF Notify, AuthFields
  <2>7. e \in Aaa /\ (e \in Verdicts <=> said # None) /\ (e = "AaaContinue" <=> said = None)
    BY <2>1, NoneIs DEF Aaa, Verdicts
  <2>8. Sequence(x.q) /\ Sequence(x.rx) /\ Sequence(x.aaa) /\ Without(x.q, {"SgDiscard"})
        /\ Shaped(x.aaa, None)
    BY DEF Stock, Queues
  <2>9. Without(x.q, Verdicts)
    <3>1. Verdicts \subseteq Barred(x.kind, None)
      BY NoneIs DEF Verdicts, Barred
    <3>2. PICK S : x.q \in Seq(S) /\ S \cap Barred(x.kind, None) = {}
      BY DEF Ready, Free
    <3>3. \A i \in DOMAIN x.q : x.q[i] \in S
      BY <3>2
    <3> QED BY <3>1, <3>2, <3>3 DEF Without
  <2>10. PICK n : n = Len(x.aaa)
    OBVIOUS
  <2>11. /\ n \in Nat /\ Sequence(a) /\ Len(a) = n + 1 /\ a[n + 1] = m
         /\ \A i \in 1 .. n : a[i] = x.aaa[i]
         /\ a # <<>> /\ (x.aaa # <<>> => n >= 1)
    <3>1. PICK S : x.aaa \in Seq(S)
      BY <2>8 DEF Sequence
    <3>2. PICK T : T = S \cup {m}
      OBVIOUS
    <3>3. x.aaa \in Seq(T) /\ m \in T
      BY <3>1, <3>2
    <3>4. a \in Seq(T) /\ Len(a) = n + 1 /\ n \in Nat /\ a[n + 1] = m
          /\ \A i \in 1 .. n : a[i] = x.aaa[i]
      BY <2>5, <2>10, <3>3
    <3>5. Len(a) # 0
      BY <3>4
    <3>6. x.aaa # <<>> => n >= 1
      BY <2>10, <3>3
    <3> QED BY <3>4, <3>5, <3>6 DEF Sequence
  <2>12. \A i \in 1 .. n : x.aaa[i].code = "request"
    BY <2>8, <2>10 DEF Shaped
  <2>13. ~Final(x.aaa) /\ Left(x.aaa) = n
    BY <2>10, <2>11, <2>12 DEF Final, Left
  <2>14. Shaped(a, said)
    BY <2>11, <2>12 DEF Shaped
  <2>15. (Final(a) <=> said # None) /\ Left(a) = IF said = None THEN n + 1 ELSE n
    <3>1. Final(a) <=> m.code # "request"
      BY <2>11 DEF Final
    <3>2. said # None => said # "request"
      OBVIOUS
    <3> QED BY <2>11, <3>1, <3>2 DEF Left
  <2>16. /\ Sequence(q)
         /\ \A B : Number(q, B) = Number(x.q, B) + IF e \in B THEN 1 ELSE 0
         /\ \A B : Without(x.q, B) /\ e \notin B => Without(q, B)
    BY <2>5, <2>8, NumberAppend
  <2>17. Ordered(q)
    <3>1. PICK S : x.q \in Seq(S)
      BY <2>8 DEF Sequence
    <3>2. PICK T : T = S \cup {e}
      OBVIOUS
    <3>3. x.q \in Seq(T) /\ e \in T
      BY <3>1, <3>2
    <3>4. /\ Len(x.q) \in Nat /\ DOMAIN x.q = 1 .. Len(x.q) /\ DOMAIN q = 1 .. Len(x.q) + 1
          /\ \A i \in 1 .. Len(x.q) : q[i] = x.q[i]
      BY <2>5, <3>3
    <3>5. \A i \in 1 .. Len(x.q) : q[i] \notin Verdicts
      BY <2>9, <3>4 DEF Without
    <3> QED BY <3>4, <3>5 DEF Ordered
  <2>18. Without(q, {"SgDiscard"}) /\ (Without(q, Verdicts) \/ Final(a))
    <3>1. e \notin {"SgDiscard"}
      BY <2>7 DEF Aaa, Verdicts
    <3> QED BY <2>7, <2>8, <2>9, <2>15, <2>16, <3>1
  <2>19. Queues(y, said)
    BY <2>6, <2>8, <2>11, <2>14, <2>16, <2>17, <2>18 DEF Queues
  <2>20. /\ Number(q, {"RxMsg"}) = Number(x.q, {"RxMsg"})
         /\ Number(q, {"AaaContinue"}) = Number(x.q, {"AaaContinue"}) + One(said = None)
    <3>1. \A B : Number(x.q, B) \in Nat
      BY <2>8, NumberIs
    <3>2. e # "RxMsg"
      BY <2>7 DEF Aaa, Verdicts
    <3> QED BY <2>7, <2>16, <3>1, <3>2 DEF One
  <2>21. Number(x.q, {"AaaContinue"}) \in Nat
    BY <2>8, NumberIs
  <2>22. Left(a) = n + One(said = None)
    BY <2>11, <2>15 DEF One
  <2>23. /\ Number(q, {"AaaContinue"}) <= Left(a)
         /\ x.ev = "Discard3" => Number(q, {"AaaContinue"}) < Left(a)
    <3>1. /\ Number(x.q, {"AaaContinue"}) <= n
          /\ x.ev = "Discard3" => Number(x.q, {"AaaContinue"}) < n
      BY <2>13 DEF Stock, AfterAll
    <3>2. One(said = None) \in Nat
      BY DEF One
    <3> QED BY <2>11, <2>20, <2>21, <2>22, <3>1, <3>2
  <2>24. x.ev # "SgDiscard" /\ x.ev \notin Foreign
    BY DEF Stock, AfterAll
  <2>25. Number(q, {"RxMsg"}) + One(x.ev \in {"Dequeue", "Discard2"}) + due <= Len(x.rx)
    BY <2>20 DEF Stock
  <2> QED BY <1>1, <2>6, <2>19, <2>23, <2>24, <2>25 DEF Stock
<1> QED BY <1>2, <1>3

\* An event is queued for a machine.
LEMMA NotifyStocked ==
  ASSUME NEW x, NEW v, NEW due \in Nat, NEW e \in {"RxMsg", "To", "Restart"},
         Stock(x, v, due + One(e = "RxMsg"))
  PROVE  Stock(Notify(x, e), v, due)
<1>1. PICK y : y = Notify(x, e)
  OBVIOUS
<1>2. /\ DOMAIN y = AuthFields /\ y.q = Append(x.q, e) /\ y.rx = x.rx /\ y.aaa = x.aaa /\ y.ev = x.ev
  BY <1>1 DEF Notify, Stock, Queues, AuthFields
<1>3. e \notin Aaa /\ e # "SgDiscard"
  BY DEF Aaa, Verdicts
<1> QED BY <1>1, <1>2, <1>3, AppendStocked

\* What is for the server.
LEMMA ToBackendStocked ==
  ASSUME NEW x, Stock(x, None, 0), Speaks(x), NEW msg
  PROVE  Stock(ToBackend(x, msg), None, 0) /\ Speaks(ToBackend(x, msg))
<1>1. PICK y : y = ToBackend(x, msg)
  OBVIOUS
<1>2. DOMAIN x = AuthFields /\ Sequence(x.q)
  BY DEF Stock, Queues
<1>3. \A e \in {"RxMsg", "Restart"} : Without(Append(x.q, e), {"To"})
  BY <1>2, NumberAppend DEF Speaks
<1>4. CASE ~x.run /\ x.said = None
  <2>1. y = AuthStart(x, msg)
    BY <1>1, <1>4 DEF ToBackend
  <2>2. /\ DOMAIN y = AuthFields /\ y.q = Append(x.q, "Restart") /\ y.rx = x.rx /\ y.aaa = x.aaa
        /\ y.ev = x.ev /\ y.fsm = x.fsm /\ y.txm = x.txm
    BY <1>2, <2>1 DEF AuthStart, AuthFields
  <2>3. PICK e, due : e = "Restart" /\ due = 0
    OBVIOUS
  <2>4. e \notin Aaa /\ e # "SgDiscard" /\ due \in Nat /\ due + One(e = "RxMsg") = 0
    BY <2>3 DEF Aaa, Verdicts, One
  <2>5. Stock(y, None, 0)
    <3>1. Stock(x, None, due + One(e = "RxMsg"))
      BY <2>4
    <3>2. Stock(y, None, due)
      BY <2>2, <2>3, <2>4, <3>1, AppendStocked
    <3> QED BY <2>3, <3>2
  <2>6. Speaks(y)
    BY <1>3, <2>2 DEF Speaks
  <2> QED BY <1>1, <2>5, <2>6
<1>5. CASE ~(~x.run /\ x.said = None) /\ msg # None /\ x.run
  <2>1. PICK z : z = [x EXCEPT !.rx = Append(x.rx, msg)]
    OBVIOUS
  <2>2. y = Notify(z, "RxMsg")
    BY <1>1, <1>5, <2>1 DEF ToBackend
  <2>3. Stock(z, None, 0 + 1) /\ DOMAIN z = AuthFields /\ z.q = x.q /\ z.fsm = x.fsm
        /\ z.ev = x.ev /\ z.txm = x.txm
    BY <2>1, ReceiveStocked
  <2>4. Stock(z, None, 0 + One("RxMsg" = "RxMsg"))
    BY <2>3 DEF One
  <2>5. Stock(y, None, 0)
    BY <2>2, <2>4, NotifyStocked
  <2>6. y.q = Append(x.q, "RxMsg") /\ y.fsm = x.fsm /\ y.ev = x.ev /\ y.txm = x.txm
    BY <2>2, <2>3 DEF Notify, AuthFields
  <2>7. Speaks(y)
    BY <1>3, <2>6 DEF Speaks
  <2> QED BY <1>1, <2>5, <2>7
<1>6. CASE ~(~x.run /\ x.said = None) /\ ~(msg # None /\ x.run)
  <2>1. y = x
    BY <1>1, <1>6 DEF ToBackend
  <2> QED BY <1>1, <2>1
<1> QED BY <1>1, <1>4, <1>5, <1>6

\* A step of the authenticator.
LEMMA AuthTaskStocked == StockInv /\ AuthTask => StockInv'
<1> SUFFICES ASSUME StockInv, AuthTask PROVE StockInv'
  OBVIOUS
<1>1. PICK known \in BOOLEAN :
        LET y == AuthStep(auth, known, FALSE)
            aaa == auth.fsm \in {"InitializePassThrough", "AaaRequest"} /\ y.tx # <<>>
        IN /\ auth' = Delivered(y)
           /\ back' = IF aaa THEN ToBackend(back, Head(y.tx)) ELSE back
  BY DEF AuthTask
<1>2. AuthBusy(auth) /\ noting' = noting /\ AgreeInv'
  BY AuthTaskAgrees DEF AuthTask, StockInv
<1>3. PICK y, due, msg : /\ y = AuthStep(auth, known, FALSE) /\ due = One("auth" \in noting)
                         /\ msg = Head(y.tx)
  OBVIOUS
<1>4. Stock(y, back.said, due)
  BY <1>2, <1>3, StepStocked, DueIs DEF StockInv, AgreeInv, AuthKind
<1>5. Stock(auth', back.said, due)
  BY <1>1, <1>3, <1>4, DeliveredStocked
<1>6. back' \in {back, ToBackend(back, msg)}
  BY <1>1, <1>3
<1>7. Stock(back', None, 0) /\ Speaks(back')
  BY <1>6, ToBackendStocked DEF StockInv
<1>8. back'.said = back.said
  <2>1. LET z == ToBackend(back, msg) IN
        Ready(z, None) /\ z.kind = "backend" /\ z.tx = <<>> /\ z.said = back.said
    BY ToBackendIs DEF AgreeInv, StockInv
  <2> QED BY <1>6, <2>1
<1> QED BY <1>2, <1>3, <1>5, <1>7, <1>8 DEF StockInv

\* A step of the backend.
LEMMA BackTaskStocked == StockInv /\ BackTask => StockInv'
<1> SUFFICES ASSUME StockInv, BackTask PROVE StockInv'
  OBVIOUS
<1>1. PICK known \in BOOLEAN :
        LET y == AuthStep(back, known, auth.policy = "pickup")
        IN /\ back' = Delivered(y)
           /\ auth' = IF y.tx = <<>> THEN auth ELSE Answered(auth, y.said, Head(y.tx), y.key)
  BY DEF BackTask
<1>2. AuthBusy(back) /\ noting' = noting /\ AgreeInv'
  BY BackTaskAgrees DEF BackTask, StockInv
<1>3. PICK pickup : pickup = (auth.policy = "pickup")
  OBVIOUS
<1>4. PICK y, due : y = AuthStep(back, known, pickup) /\ due = One("auth" \in noting)
  OBVIOUS
<1>5. /\ Ready(back, None) /\ back.kind = "backend" /\ back.tx = <<>> /\ Stock(back, None, 0)
      /\ Speaks(back) /\ back.said = None
  BY <1>2 DEF StockInv, AgreeInv, AuthBusy, Ready
<1>6. Stock(y, None, 0)
  BY <1>2, <1>4, <1>5, StepStocked DEF AuthKind
<1>7. Speaks(y) /\ Spoken(y)
  BY <1>2, <1>4, <1>5, StepSpeaks
<1>8. back' = Delivered(y)
  BY <1>1, <1>3, <1>4
<1>9. Stock(back', None, 0) /\ Speaks(back') /\ back'.said = y.said
  BY <1>6, <1>7, <1>8, DeliveredStocked
<1>10. Stock(auth', y.said, due)
  <2>1. Ready(auth, None) /\ Stock(auth, None, due) /\ due \in Nat
    BY <1>4, <1>5, DueIs DEF StockInv, AgreeInv
  <2>2. CASE y.tx = <<>>
    <3>1. auth' = auth
      BY <1>1, <1>3, <1>4, <2>2
    <3> QED BY <2>1, <3>1, LaterStocked
  <2>3. CASE y.tx # <<>>
    <3>1. PICK m, key : m = Head(y.tx) /\ key = y.key
      OBVIOUS
    <3>2. auth' = Answered(auth, y.said, m, key)
      BY <1>1, <1>3, <1>4, <2>3, <3>1
    <3>3. m.code = IF y.said = None THEN "request" ELSE y.said
      <4>1. PICK n : y.tx = <<n>> /\ n.code = IF y.said = None THEN "request" ELSE y.said
        BY <1>7, <2>3 DEF Spoken
      <4>2. Head(<<n>>) = n
        OBVIOUS
      <4> QED BY <3>1, <4>1, <4>2
    <3>4. y.said \in {None, "success", "failure"}
      BY <1>2, <1>9 DEF AgreeInv, Ready
    <3> QED BY <2>1, <3>2, <3>3, <3>4, AnsweredStocked
  <2> QED BY <2>2, <2>3
<1> QED BY <1>2, <1>4, <1>9, <1>10 DEF StockInv

\* The steps of the receivers, of the link, of the timers and of the peer.
LEMMA AroundStocked ==
  StockInv /\ (\/ PeerTask \/ PeerReceives \/ PeerNoted \/ AuthReceives \/ AuthNoted \/ Lose
               \/ AuthTimer \/ PeerTimer \/ PeerPoll)
  => StockInv'
<1> SUFFICES ASSUME StockInv PROVE
      (\/ PeerTask \/ PeerReceives \/ PeerNoted \/ AuthReceives \/ AuthNoted \/ Lose
       \/ AuthTimer \/ PeerTimer \/ PeerPoll) => StockInv'
  OBVIOUS
<1>1. ASSUME UNCHANGED <<auth, back>>, ("auth" \in noting') = ("auth" \in noting), AgreeInv'
      PROVE  StockInv'
  BY <1>1 DEF StockInv
<1>2. ASSUME PeerTask \/ PeerReceives \/ PeerNoted \/ Lose \/ PeerTimer \/ PeerPoll
      PROVE  StockInv'
  <2>1. UNCHANGED <<auth, back>>
    BY <1>2 DEF PeerTask, PeerReceives, PeerNoted, Lose, PeerTimer, PeerPoll
  <2>2. ("auth" \in noting') = ("auth" \in noting)
    BY <1>2 DEF PeerTask, PeerReceives, PeerNoted, Lose, PeerTimer, PeerPoll
  <2>3. AgreeInv'
    BY <1>2, PeerTaskAgrees, AroundAgrees DEF StockInv
  <2> QED BY <1>1, <2>1, <2>2, <2>3
<1>3. Stock(auth, back.said, One("auth" \in noting)) /\ Stock(back, None, 0) /\ Speaks(back)
  BY DEF StockInv
<1>4. ASSUME AuthReceives PROVE StockInv'
  <2>1. AgreeInv'
    BY <1>4, AroundAgrees DEF StockInv
  <2>2. back' = back /\ "auth" \notin noting
    BY <1>4 DEF AuthReceives
  <2>3. CASE ~auth.run
    BY <1>1, <1>4, <2>1, <2>3 DEF AuthReceives
  <2>4. CASE auth.run
    <3>1. PICK m : m = Head(toAuth)
      OBVIOUS
    <3>2. auth' = [auth EXCEPT !.rx = Append(auth.rx, m)] /\ "auth" \in noting'
      BY <1>4, <2>4, <3>1 DEF AuthReceives
    <3>3. Stock(auth, back.said, 0) /\ One("auth" \in noting') = 0 + 1
      BY <1>3, <2>2, <3>2 DEF One
    <3>4. Stock(auth', back.said, 0 + 1)
      BY <3>2, <3>3, ReceiveStocked
    <3> QED BY <1>3, <2>1, <2>2, <3>3, <3>4 DEF StockInv
  <2> QED BY <2>3, <2>4
<1>5. ASSUME AuthNoted PROVE StockInv'
  <2>1. AgreeInv'
    BY <1>5, AroundAgrees DEF StockInv
  <2>2. back' = back /\ "auth" \in noting /\ "auth" \notin noting'
    BY <1>5 DEF AuthNoted
  <2>3. Stock(auth, back.said, 0 + One("RxMsg" = "RxMsg")) /\ One("auth" \in noting') = 0
    BY <1>3, <2>2 DEF One
  <2>4. CASE auth.run
    <3>1. auth' = Notify(auth, "RxMsg")
      BY <1>5, <2>4 DEF AuthNoted
    <3>2. Stock(auth', back.said, 0)
      BY <2>3, <3>1, NotifyStocked
    <3> QED BY <1>3, <2>1, <2>2, <2>3, <3>2 DEF StockInv
  <2>5. CASE ~auth.run
    <3>1. auth' = auth
      BY <1>5, <2>5 DEF AuthNoted
    <3>2. Stock(auth, back.said, 0)
      <4>1. Stock(auth, back.said, 1)
        BY <2>3 DEF One
      <4>2. Number(auth.q, {"RxMsg"}) \in Nat /\ Len(auth.rx) \in Nat
        <5>1. Sequence(auth.q) /\ Sequence(auth.rx)
          BY <4>1 DEF Stock, Queues
        <5> QED BY <5>1, NumberIs, LenIs
      <4>3. One(auth.ev \in {"Dequeue", "Discard2"}) \in Nat
        BY DEF One
      <4> QED BY <4>1, <4>2, <4>3 DEF Stock
    <3> QED BY <1>3, <2>1, <2>2, <2>3, <3>1, <3>2 DEF StockInv
  <2> QED BY <2>4, <2>5
<1>6. ASSUME AuthTimer PROVE StockInv'
  <2>1. AgreeInv'
    BY <1>6, AroundAgrees DEF StockInv
  <2>2. auth' = Notify(auth, "To") /\ back' = back /\ noting' = noting
    BY <1>6 DEF AuthTimer
  <2>3. PICK due : due = One("auth" \in noting)
    OBVIOUS
  <2>4. due \in Nat /\ due + One("To" = "RxMsg") = due
    BY <2>3 DEF One
  <2>5. Stock(auth, back.said, due + One("To" = "RxMsg"))
    BY <1>3, <2>3, <2>4
  <2>6. Stock(auth', back.said, due)
    BY <2>2, <2>4, <2>5, NotifyStocked
  <2> QED BY <1>3, <2>1, <2>2, <2>3, <2>6 DEF StockInv
<1> QED BY <1>2, <1>4, <1>5, <1>6

\* Every step.
LEMMA NextStocked == StockInv /\ [Next]_vars => StockInv'
<1>1. StockInv /\ UNCHANGED vars => StockInv'
  BY DEF vars, StockInv, AgreeInv
<1> QED BY <1>1, AuthTaskStocked, BackTaskStocked, AroundStocked DEF Next

\* No thread of an authenticator waits in dequeue_head() for a message that was taken
\* before: for every event that makes AcReceiveMsg or AcDiscard2 take a message there is
\* one, of the receivers that have queued a message and not yet notified it there is one
\* more, and what AcDiscard3 throws away has been sent by the AAA server.
THEOREM AlwaysFed == Spec => []NeverStarved
<1>1. StockInv => NeverStarved
  BY StockedNotBlocked, DueIs DEF StockInv, NeverStarved
<1> QED BY <1>1, InitStocked, NextStocked, PTL DEF Spec
=============================================================================
