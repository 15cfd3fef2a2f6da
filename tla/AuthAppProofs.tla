--------------------------- MODULE AuthAppProofs ----------------------------
(***************************************************************************)
(* Theorems of AuthApp: a user is let in only by a verdict, an accepted    *)
(* client has a timed session below it, and a session that has ended       *)
(* leaves no user in.  They hold for every number of job threads, rounds,  *)
(* messages lost and repeated, and timers expired.                         *)
(***************************************************************************)
EXTENDS AuthApp, SequenceTheorems, TLAPS

\* An event in a sequence of events, and in the queue or in the threads of a machine.
In(q, e)    == \E i \in DOMAIN q : q[i] = e
Waits(x, e) == In(x.q, e) \/ In(x.hand, e)

\* At most one of the threads has an event of S, or none.
One(q, S) == \A i, j \in DOMAIN q : q[i] \in S /\ q[j] \in S => i = j
NoneOf(q, S) == \A i \in DOMAIN q : q[i] \notin S
----------------------------------------------------------------------------
(* Sequences of events.                                                    *)

\* One more event.
LEMMA AppendIn ==
  ASSUME NEW S, NEW q \in Seq(S), NEW d \in S
  PROVE  /\ Append(q, d) \in Seq(S)
         /\ \A e : In(Append(q, d), e) <=> In(q, e) \/ e = d
         /\ \A T : NoneOf(q, T) => One(Append(q, d), T)
         /\ \A T : One(q, T) /\ d \notin T => One(Append(q, d), T)
         /\ \A T : NoneOf(q, T) /\ d \notin T => NoneOf(Append(q, d), T)
<1>1. PICK r : r = Append(q, d)
  OBVIOUS
<1>2. /\ r \in Seq(S) /\ Len(r) = Len(q) + 1 /\ r[Len(q) + 1] = d
      /\ \A i \in 1..Len(q) : r[i] = q[i]
  BY <1>1
<1>3. DOMAIN q = 1..Len(q) /\ DOMAIN r = 1..(Len(q) + 1) /\ Len(q) \in Nat
  BY <1>2
<1>4. \A e : In(r, e) <=> In(q, e) \/ e = d
  BY <1>2, <1>3 DEF In
<1>5. \A T : /\ NoneOf(q, T) => One(r, T)
             /\ One(q, T) /\ d \notin T => One(r, T)
             /\ NoneOf(q, T) /\ d \notin T => NoneOf(r, T)
  BY <1>2, <1>3 DEF NoneOf, One
<1> QED BY <1>1, <1>2, <1>4, <1>5

\* The first event, and the others.
LEMMA TailIn ==
  ASSUME NEW S, NEW q \in Seq(S), q # <<>>
  PROVE  /\ Head(q) \in S /\ Tail(q) \in Seq(S)
         /\ \A e : In(q, e) <=> In(Tail(q), e) \/ e = Head(q)
<1>1. PICK r : r = Tail(q)
  OBVIOUS
<1>2. /\ r \in Seq(S) /\ Len(r) = Len(q) - 1 /\ \A i \in 1..Len(r) : r[i] = q[i + 1]
      /\ Head(q) = q[1] /\ Len(q) \in Nat /\ Len(q) > 0 /\ Head(q) \in S
  BY <1>1
<1>3. DOMAIN q = 1..Len(q) /\ DOMAIN r = 1..(Len(q) - 1)
  BY <1>2
<1>4. ASSUME NEW e PROVE In(q, e) <=> In(r, e) \/ e = Head(q)
  <2>1. ASSUME In(q, e), e # Head(q) PROVE In(r, e)
    <3>1. PICK i \in 1..Len(q) : q[i] = e
      BY <1>3, <2>1 DEF In
    <3>2. i # 1
      BY <1>2, <2>1, <3>1
    <3>3. i - 1 \in 1..Len(r) /\ r[i - 1] = e
      BY <1>2, <3>1, <3>2
    <3> QED BY <1>2, <1>3, <3>3 DEF In
  <2>2. ASSUME In(r, e) PROVE In(q, e)
    <3>1. PICK i \in 1..Len(r) : r[i] = e
      BY <1>2, <1>3, <2>2 DEF In
    <3>2. i + 1 \in 1..Len(q) /\ q[i + 1] = e
      BY <1>2, <3>1
    <3> QED BY <1>3, <3>2 DEF In
  <2>3. ASSUME e = Head(q) PROVE In(q, e)
    BY <1>2, <1>3, <2>3 DEF In
  <2> QED BY <2>1, <2>2, <2>3
<1> QED BY <1>1, <1>2, <1>4

\* Two sequences one after the other.
LEMMA ConcatIn ==
  ASSUME NEW S, NEW q \in Seq(S), NEW r \in Seq(S)
  PROVE  q \o r \in Seq(S) /\ \A e : In(q \o r, e) <=> In(q, e) \/ In(r, e)
<1>1. PICK w : w = q \o r
  OBVIOUS
<1>2. /\ w \in Seq(S) /\ Len(w) = Len(q) + Len(r) /\ Len(q) \in Nat /\ Len(r) \in Nat
      /\ \A i \in 1..Len(w) : w[i] = IF i <= Len(q) THEN q[i] ELSE r[i - Len(q)]
  BY <1>1
<1>3. DOMAIN q = 1..Len(q) /\ DOMAIN r = 1..Len(r) /\ DOMAIN w = 1..(Len(q) + Len(r))
  BY <1>2
<1>4. ASSUME NEW e PROVE In(w, e) <=> In(q, e) \/ In(r, e)
  <2>1. ASSUME In(w, e) PROVE In(q, e) \/ In(r, e)
    <3>1. PICK i \in 1..Len(w) : w[i] = e
      BY <1>2, <1>3, <2>1 DEF In
    <3>2. CASE i <= Len(q)
      BY <1>2, <1>3, <3>1, <3>2 DEF In
    <3>3. CASE i > Len(q)
      <4>1. i - Len(q) \in 1..Len(r) /\ r[i - Len(q)] = e
        BY <1>2, <3>1, <3>3
      <4> QED BY <1>3, <4>1 DEF In
    <3> QED BY <1>2, <3>1, <3>2, <3>3
  <2>2. ASSUME In(q, e) PROVE In(w, e)
    BY <1>2, <1>3, <2>2 DEF In
  <2>3. ASSUME In(r, e) PROVE In(w, e)
    <3>1. PICK i \in 1..Len(r) : r[i] = e
      BY <1>3, <2>3 DEF In
    <3>2. Len(q) + i \in 1..Len(w) /\ w[Len(q) + i] = e
      BY <1>2, <3>1
    <3> QED BY <1>2, <1>3, <3>2 DEF In
  <2> QED BY <2>1, <2>2, <2>3
<1> QED BY <1>1, <1>2, <1>4

\* A sequence without the event at i: the other events, and one of its kind no more.
LEMMA WithoutIn ==
  ASSUME NEW S, NEW q \in Seq(S), NEW i \in 1..Len(q)
  PROVE  LET w == Without(q, i) IN
         /\ w \in Seq(S)
         /\ \A e : In(w, e) => In(q, e)
         /\ \A e : In(q, e) /\ e # q[i] => In(w, e)
         /\ \A T : One(q, T) => One(w, T) /\ (q[i] \in T => NoneOf(w, T))
         /\ \A T : NoneOf(q, T) => NoneOf(w, T)
<1>1. PICK w : w = Without(q, i)
  OBVIOUS
<1>2. PICK a, b : a = SubSeq(q, 1, i - 1) /\ b = SubSeq(q, i + 1, Len(q))
  OBVIOUS
<1>3. Len(q) \in Nat /\ i \in Nat /\ i >= 1 /\ i <= Len(q)
  OBVIOUS
<1>4. /\ a \in Seq(S) /\ Len(a) = i - 1 /\ \A j \in 1..(i - 1) : a[j] = q[j]
  BY <1>2, <1>3
<1>5. /\ b \in Seq(S) /\ Len(b) = Len(q) - i
      /\ \A j \in 1..(Len(q) - i) : b[j] = q[i + j]
  <2>1. CASE i = Len(q)
    BY <1>2, <1>3, <2>1
  <2>2. CASE i < Len(q)
    BY <1>2, <1>3, <2>2
  <2> QED BY <1>3, <2>1, <2>2
<1>6. w = a \o b
  BY <1>1, <1>2 DEF Without
<1>7. /\ w \in Seq(S) /\ Len(w) = Len(q) - 1
      /\ \A j \in 1..(Len(q) - 1) : w[j] = q[IF j < i THEN j ELSE j + 1]
  <2>0. w \in Seq(S) /\ Len(w) = Len(a) + Len(b)
    <3>1. a \in Seq(S) /\ b \in Seq(S)
      BY <1>4, <1>5
    <3> QED BY <1>6, <3>1
  <2>1. w \in Seq(S) /\ Len(w) = Len(q) - 1
    BY <1>3, <1>4, <1>5, <2>0
  <2>2. ASSUME NEW j \in 1..(Len(q) - 1) PROVE w[j] = q[IF j < i THEN j ELSE j + 1]
    <3>1. w[j] = IF j <= Len(a) THEN a[j] ELSE b[j - Len(a)]
      BY <1>3, <1>4, <1>5, <1>6
    <3>2. CASE j < i
      BY <1>3, <1>4, <3>1, <3>2
    <3>3. CASE j >= i
      <4>1. j - (i - 1) \in 1..(Len(q) - i)
        BY <1>3, <3>3
      <4>2. b[j - (i - 1)] = q[i + (j - (i - 1))] /\ i + (j - (i - 1)) = j + 1
        BY <1>3, <1>5, <4>1
      <4> QED BY <1>3, <1>4, <3>1, <3>3, <4>2
    <3> QED BY <1>3, <3>2, <3>3
  <2> QED BY <2>1, <2>2
<1>8. DOMAIN q = 1..Len(q) /\ DOMAIN w = 1..(Len(q) - 1)
  BY <1>3, <1>7
<1>9. PICK at : at = [j \in 1..(Len(q) - 1) |-> IF j < i THEN j ELSE j + 1]
  OBVIOUS
<1>10. /\ \A j \in DOMAIN w : at[j] \in DOMAIN q /\ at[j] # i /\ w[j] = q[at[j]]
       /\ \A j, k \in DOMAIN w : at[j] = at[k] => j = k
  BY <1>3, <1>7, <1>8, <1>9
<1>11. \A k \in DOMAIN q : k # i => \E j \in DOMAIN w : at[j] = k
  <2>1. ASSUME NEW k \in 1..Len(q), k # i PROVE \E j \in 1..(Len(q) - 1) : at[j] = k
    <3>1. CASE k < i
      BY <1>3, <1>9, <3>1
    <3>2. CASE k > i
      <4>1. k - 1 \in 1..(Len(q) - 1) /\ at[k - 1] = k
        BY <1>3, <1>9, <3>2
      <4> QED BY <4>1
    <3> QED BY <1>3, <2>1, <3>1, <3>2
  <2> QED BY <1>8, <2>1
<1>12. \A e : In(w, e) => In(q, e)
  BY <1>10 DEF In
<1>13. \A e : In(q, e) /\ e # q[i] => In(w, e)
  BY <1>10, <1>11 DEF In
<1>14. \A T : One(q, T) => One(w, T) /\ (q[i] \in T => NoneOf(w, T))
  BY <1>3, <1>8, <1>10 DEF One, NoneOf
<1>15. \A T : NoneOf(q, T) => NoneOf(w, T)
  BY <1>10 DEF NoneOf
<1> QED BY <1>1, <1>7, <1>12, <1>13, <1>14, <1>15

----------------------------------------------------------------------------
(* The tables.                                                             *)

\* Of the rows of a client: a verdict is handled in CheckResultCode only, what leaves
\* StAccepted calls the application back, and a disconnection terminates.
ClientRowIs(r) ==
  /\ r[3] \in State
  /\ r[1] = "CheckResultCode" => r[2] \in Results /\ r[3] # "CheckResultCode"
  /\ r[3] = "CheckResultCode" <=> r[4] = "CheckResultCode"
  /\ r[4] = "CheckResultCode" => r[2] = "RxAnswer"
  /\ r[3] = "Accepted" => (r[1] = "Accepted" /\ r[4] = "nothing") \/ r[4] = "AccessAccept"
  /\ r[4] = "AccessAccept" => r[3] = "Accepted" /\ r[2] = "Success"
  /\ r[4] \in {"AccessAccept", "AccessReject", "Continue"} => r[1] = "CheckResultCode"
  /\ r[4] = "AccessReject" => r[3] = "Rejected"
  /\ r[1] \in {"Rejected", "Terminated"} => r[3] = "Terminated" /\ r[4] = "nothing"
  /\ r[1] = "Accepted" => \/ (r[3] = "Accepted" /\ r[4] = "nothing" /\ r[2] = "*")
                          \/ r[4] = "Disconnect"
                          \/ r[4] = "Reauthenticate" /\ r[2] = "AuthLifetimeTimeout"
  /\ r[4] \in {"Disconnect", "Reauthenticate"} => r[1] = "Accepted"
  /\ r[2] = "Disconnect" => r[3] = "Terminated"
  /\ r[2] = "*" => r[3] = "Terminated" \/ r[1] \in {"Initialize", "Accepted"}
  /\ r[4] \in {"SendRequest", "CheckResultCode", "AccessAccept", "AccessReject", "Continue",
               "Disconnect", "Reauthenticate", "nothing"}

ClientRowsOf(k) ==
  IF k = "nasreq" THEN ClientRows("WaitAA_Answer", "WaitAuthInfo") \cup ClientEndRows
  ELSE ClientRows("WaitDEA", "WaitEapResponse") \cup ClientEndRows \cup EapLimitedRows

\* Every row is one.
LEMMA ClientRowsAre ==
  ASSUME NEW k \in Kinds, NEW r \in ClientRowsOf(k)
  PROVE  ClientRowIs(r)
<1> USE DEF ClientRowIs, State, Results
<1>1. CASE r \in ClientEndRows
  BY <1>1 DEF ClientEndRows
<1>2. CASE r \in EapLimitedRows
  BY <1>2 DEF EapLimitedRows
<1>3. CASE r \in ClientRows("WaitAA_Answer", "WaitAuthInfo")
  BY <1>3 DEF ClientRows
<1>4. CASE r \in ClientRows("WaitDEA", "WaitEapResponse")
  BY <1>4 DEF ClientRows
<1> QED BY <1>1, <1>2, <1>3, <1>4 DEF ClientRowsOf

\* Of the rows of a server: what is granted was judged and authorized before.
ServerRowIs(r) ==
  /\ r[3] \in State
  /\ r[4] = "CheckRequest" => r[2] = "RxRequest"
  /\ r[3] = "CheckRequest" <=> r[4] = "CheckRequest"
  /\ r[4] = "Forward" => r[2] = "Valid" /\ r[1] = "CheckRequest"
  /\ r[4] = "Authorize" => r[2] \in {"BackendSuccess"}
  /\ r[4] = "AnswerSuccess" => r[2] = "AuthorizationSuccess"
  /\ r[4] \in {"CheckRequest", "Forward", "Authorize", "AnswerInvalid", "AnswerContinue",
               "AnswerSuccess", "AnswerFailure", "AnswerUnauthorized", "nothing"}

ServerRowsOf(k) ==
  IF k = "nasreq" THEN ServerRows("WaitAA_Request", "WaitAuthInfo") \cup ServerEndRows
  ELSE ServerRows("WaitDER", "WaitEapMsg") \cup ServerEndRows

\* Every row is one.
LEMMA ServerRowsAre ==
  ASSUME NEW k \in Kinds, NEW r \in ServerRowsOf(k)
  PROVE  ServerRowIs(r)
<1> USE DEF ServerRowIs, State
<1>1. CASE r \in ServerEndRows
  BY <1>1 DEF ServerEndRows
<1>2. CASE r \in ServerRows("WaitAA_Request", "WaitAuthInfo")
  BY <1>2 DEF ServerRows
<1>3. CASE r \in ServerRows("WaitDER", "WaitEapMsg")
  BY <1>3 DEF ServerRows
<1> QED BY <1>1, <1>2, <1>3 DEF ServerRowsOf

\* The table of a kind of application.
LEMMA TablesOf ==
  ASSUME NEW k \in Kinds
  PROVE  /\ ClientTable[k] = Indexed(ClientRowsOf(k))
         /\ ServerTable[k] = Indexed(ServerRowsOf(k))
<1>1. CASE k = "nasreq"
  BY <1>1 DEF ClientTable, ServerTable, ClientRowsOf, ServerRowsOf
<1>2. CASE k # "nasreq"
  BY <1>2 DEF ClientTable, ServerTable, ClientRowsOf, ServerRowsOf
<1> QED BY <1>1, <1>2

\* What FindStateTableEntry() finds: a row of the state, for the event or for all.
RowFor(r, rows, st, e)   == r \in rows /\ r[1] = st /\ r[2] = e
RowFound(r, rows, st, e) == RowFor(r, rows, st, e) \/ RowFor(r, rows, st, "*")

\* A table holds a row at its own state and event.
LEMMA IndexedRow ==
  ASSUME NEW rows, NEW st, NEW e, <<st, e>> \in DOMAIN Indexed(rows)
  PROVE  RowFor(Indexed(rows)[st, e], rows, st, e)
<1> DEFINE P(r) == <<st, e>> = <<r[1], r[2]>>
<1>1. <<st, e>> \in {<<r[1], r[2]>> : r \in rows}
  BY DEF Indexed
<1>2. PICK q \in rows : P(q)
  BY <1>1
<1>3. Indexed(rows)[st, e] = CHOOSE r \in rows : P(r)
  BY <1>1 DEF Indexed
<1> HIDE DEF P
<1>4. Indexed(rows)[st, e] \in rows /\ P(Indexed(rows)[st, e])
  BY <1>2, <1>3
<1> QED BY <1>4 DEF P, RowFor

\* The row of an event, if there is one.
LEMMA RowIsFound ==
  ASSUME NEW rows, NEW st, NEW e
  PROVE  LET row == Row(Indexed(rows), st, e) IN row = None \/ RowFound(row, rows, st, e)
<1>1. PICK table : table = Indexed(rows)
  OBVIOUS
<1>2. CASE <<st, e>> \in DOMAIN table
  <2>1. RowFor(table[st, e], rows, st, e)
    BY <1>1, <1>2, IndexedRow
  <2>2. Row(table, st, e) = table[st, e]
    BY <1>2 DEF Row
  <2> QED BY <1>1, <2>1, <2>2 DEF RowFound
<1>3. CASE <<st, e>> \notin DOMAIN table /\ <<st, "*">> \in DOMAIN table
  <2>1. RowFor(table[st, "*"], rows, st, "*")
    BY <1>1, <1>3, IndexedRow
  <2>2. Row(table, st, e) = table[st, "*"]
    BY <1>3 DEF Row
  <2> QED BY <1>1, <2>1, <2>2 DEF RowFound
<1>4. CASE <<st, e>> \notin DOMAIN table /\ <<st, "*">> \notin DOMAIN table
  BY <1>1, <1>4 DEF Row
<1> QED BY <1>2, <1>3, <1>4

\* The result codes that a client of a kind tells apart.
ResultsOf(k) == {"Success", "Failure", "Continue"}
                \cup (IF k = "nasreq" THEN {} ELSE {"LimitedSuccess"})

\* Each of them has a row.
LEMMA ResultRow ==
  ASSUME NEW k \in Kinds, NEW e \in ResultsOf(k)
  PROVE  Row(ClientTable[k], "CheckResultCode", e) # None
<1>1. PICK table, rows, st : /\ table = ClientTable[k] /\ rows = ClientRowsOf(k)
                             /\ st = "CheckResultCode"
  OBVIOUS
<1>2. table = Indexed(rows)
  BY <1>1, TablesOf
<1>3. \E r \in rows : r[1] = st /\ r[2] = e
  <2>1. CASE k = "nasreq"
    <3>1. rows = ClientRows("WaitAA_Answer", "WaitAuthInfo") \cup ClientEndRows
      BY <1>1, <2>1 DEF ClientRowsOf
    <3>2. /\ <<"CheckResultCode", "Success",  "Accepted", "AccessAccept">> \in rows
          /\ <<"CheckResultCode", "Failure",  "Rejected", "AccessReject">> \in rows
          /\ <<"CheckResultCode", "Continue", "WaitAuthInfo", "Continue">> \in rows
      BY <3>1 DEF ClientRows
    <3> QED BY <1>1, <2>1, <3>2 DEF ResultsOf
  <2>2. CASE k # "nasreq"
    <3>1. rows = ClientRows("WaitDEA", "WaitEapResponse") \cup ClientEndRows \cup EapLimitedRows
      BY <1>1, <2>2 DEF ClientRowsOf
    <3>2. /\ <<"CheckResultCode", "Success",  "Accepted", "AccessAccept">> \in rows
          /\ <<"CheckResultCode", "Failure",  "Rejected", "AccessReject">> \in rows
          /\ <<"CheckResultCode", "Continue", "WaitEapResponse", "Continue">> \in rows
          /\ <<"CheckResultCode", "LimitedSuccess", "WaitAA_Answer", "nothing">> \in rows
      BY <3>1 DEF ClientRows, EapLimitedRows
    <3> QED BY <1>1, <2>2, <3>2 DEF ResultsOf
  <2> QED BY <2>1, <2>2
<1>4. <<st, e>> \in DOMAIN table
  BY <1>2, <1>3 DEF Indexed
<1>5. table[st, e] # None
  BY <1>1, <1>4, AuthAppRows
<1> QED BY <1>1, <1>4, <1>5 DEF Row

\* A client that is disconnected terminates, in a state that has a row for it.
LEMMA DisconnectRow ==
  ASSUME NEW k \in Kinds, NEW st
  PROVE  LET row == Row(ClientTable[k], st, "Disconnect")
         IN row = None \/ row[3] = "Terminated"
<1>1. PICK table, rows, e, row :
        /\ table = ClientTable[k] /\ rows = ClientRowsOf(k) /\ e = "Disconnect"
        /\ row = Row(table, st, e)
  OBVIOUS
<1>2. table = Indexed(rows)
  BY <1>1, TablesOf
<1>3. SUFFICES ASSUME row # None PROVE row[3] = "Terminated"
  BY <1>1
<1>4. RowFound(row, rows, st, e)
  BY <1>1, <1>2, <1>3, RowIsFound
<1>5. CASE RowFor(row, rows, st, e)
  BY <1>1, <1>5, ClientRowsAre DEF RowFor, ClientRowIs
<1>6. CASE RowFor(row, rows, st, "*") /\ st \notin {"Initialize", "Accepted"}
  BY <1>1, <1>6, ClientRowsAre DEF RowFor, ClientRowIs
<1>7. CASE st \in {"Initialize", "Accepted"}
  <2>1. \E r \in rows : r[1] = st /\ r[2] = e
    <3>1. <<"Accepted", "Disconnect", "Terminated", "Disconnect">> \in rows
      BY <1>1 DEF ClientRowsOf, ClientEndRows
    <3>2. <<"Initialize", "Disconnect", "Terminated", "nothing">> \in rows
      BY <1>1 DEF ClientRowsOf, ClientRows
    <3> QED BY <1>1, <1>7, <3>1, <3>2
  <2>2. <<st, e>> \in DOMAIN table
    BY <1>2, <2>1 DEF Indexed
  <2>3. RowFor(table[st, e], rows, st, e) /\ row = table[st, e]
    BY <1>1, <1>2, <2>2, IndexedRow DEF Row
  <2> QED BY <1>5, <2>3
<1> QED BY <1>4, <1>5, <1>6, <1>7 DEF RowFound

----------------------------------------------------------------------------
(* Types.                                                                  *)

\* A machine that receives messages of In and sends messages of Outbound.
Machines(Inbound, Outbound) ==
  [st : State, run : BOOLEAN, q : Seq(Event), hand : Seq(Event), msg : Inbound \cup {None},
   last : {"SUCCESS", "CONTINUE", "FAILED"}, low : {"pending", "open", "ends", "ended"},
   ret : BOOLEAN, out : Seq(Outbound), next : Event \cup {None}, told : Calls \cup {None},
   pay : Pay, done : BOOLEAN, chosen : BOOLEAN]
Clients == Machines(Answers, Requests)
Servers == Machines(Requests, Answers)

\* Nothing is left of a step.
Quiet(x) == x.out = <<>> /\ x.next = None /\ x.told = None

TypeOK ==
  /\ f \in Config
  /\ c \in Clients /\ Quiet(c) /\ s \in Servers /\ Quiet(s)
  /\ user \in [st : {"asked", "waits", "in", "out", "elsewhere"}, n : Pay, conv : Nat \ {0}]
  /\ access \in BOOLEAN
  /\ backend \in [fresh : BOOLEAN, on : BOOLEAN, n : Nat, ask : Pay]
  /\ verdict \in Verdict \cup {None}
  /\ toS \in Seq(Requests) /\ toC \in Seq(Answers) /\ faults \in Nat /\ calls \in Nat
  /\ unheard \in BOOLEAN

\* None is nothing else.
LEMMA NoneIs ==
  /\ \A e \in Event \cup Verdict : e # None
  /\ \A m \in Requests \cup Answers : m # None
  /\ \A what \in Calls : what # None
BY AuthAppFsmAssumption

\* What an action of the machine leaves alone.
Kept(x, y) == /\ y.st = x.st /\ y.q = x.q /\ y.hand = x.hand /\ y.msg = x.msg
              /\ y.low = x.low /\ y.ret = x.ret

\* The end of a step: an event that was raised is in the hands of the thread.
LEMMA SettledIs ==
  ASSUME NEW Inbound, NEW Outbound, NEW x \in Machines(Inbound, Outbound)
  PROVE  LET y == Settled(Raised(x)) IN
         /\ y \in Machines(Inbound, Outbound) /\ Quiet(y)
         /\ y.hand = IF x.next = None THEN x.hand ELSE Append(x.hand, x.next)
         /\ y.st = x.st /\ y.q = x.q /\ y.msg = x.msg /\ y.low = x.low /\ y.ret = x.ret
         /\ y.run = x.run /\ y.last = x.last /\ y.done = x.done /\ y.chosen = x.chosen
<1>0. <<>> \in Seq(Outbound)
  OBVIOUS
<1>1. PICK h : h = IF x.next = None THEN x.hand ELSE Append(x.hand, x.next)
  OBVIOUS
<1>2. h \in Seq(Event)
  <2>1. x.hand \in Seq(Event) /\ x.next \in Event \cup {None}
    BY DEF Machines
  <2> QED BY <1>1, <2>1
<1>3. PICK z : z = [x EXCEPT !.hand = h, !.next = None]
  OBVIOUS
<1>4. Raised(x) = z
  <2>1. CASE x.next = None
    BY <1>1, <1>3, <2>1 DEF Raised, Machines
  <2>2. CASE x.next # None
    BY <1>1, <1>3, <2>2 DEF Raised, Machines
  <2> QED BY <2>1, <2>2
<1>5. PICK e : e = <<>>
  OBVIOUS
<1>6. PICK y : y = [z EXCEPT !.out = e, !.told = None]
  OBVIOUS
<1>7. Settled(Raised(x)) = y
  BY <1>4, <1>5, <1>6 DEF Settled
<1>8. /\ y \in Machines(Inbound, Outbound) /\ y.hand = h /\ y.next = None /\ y.out = e /\ y.told = None
      /\ y.st = x.st /\ y.q = x.q /\ y.msg = x.msg /\ y.low = x.low /\ y.ret = x.ret
      /\ y.run = x.run /\ y.last = x.last /\ y.done = x.done /\ y.chosen = x.chosen
  BY <1>0, <1>2, <1>3, <1>5, <1>6 DEF Machines
<1> QED BY <1>1, <1>5, <1>7, <1>8 DEF Quiet

\* An event that is queued.
LEMMA NotifyIs ==
  ASSUME NEW Inbound, NEW Outbound, NEW x \in Machines(Inbound, Outbound), NEW e \in Event
  PROVE  /\ Notify(x, e) \in Machines(Inbound, Outbound)
         /\ Notify(x, e) = [x EXCEPT !.q = Append(x.q, e)]
         /\ Notify(x, e).q = Append(x.q, e)
<1>1. PICK q : q = Append(x.q, e)
  OBVIOUS
<1>2. q \in Seq(Event)
  <2>1. x.q \in Seq(Event)
    BY DEF Machines
  <2> QED BY <1>1, <2>1
<1>3. Notify(x, e) = [x EXCEPT !.q = q]
  BY <1>1 DEF Notify, Machines
<1> QED BY <1>1, <1>2, <1>3 DEF Machines

\* A message that is sent, or not.
Sent(x, m, y, Outbound) ==
  \E out \in Seq(Outbound) : y = [x EXCEPT !.out = out] /\ out \in {x.out, Append(x.out, m)}

\* It is sent as long as the session below is up.
LEMMA SendIs ==
  ASSUME NEW Inbound, NEW Outbound, NEW x \in Machines(Inbound, Outbound), NEW m \in Outbound
  PROVE  Sent(x, m, Send(x, m), Outbound)
<1>1. CASE Up(x)
  <2>1. PICK out : out = Append(x.out, m)
    OBVIOUS
  <2>2. out \in Seq(Outbound)
    <3>1. x.out \in Seq(Outbound)
      BY DEF Machines
    <3> QED BY <2>1, <3>1
  <2>3. Send(x, m) = [x EXCEPT !.out = out]
    BY <1>1, <2>1 DEF Send, Machines
  <2> QED BY <2>1, <2>2, <2>3 DEF Sent
<1>2. CASE ~Up(x)
  <2>1. Send(x, m) = [x EXCEPT !.out = x.out] /\ x.out \in Seq(Outbound)
    BY <1>2 DEF Send, Machines
  <2> QED BY <2>1 DEF Sent
<1> QED BY <1>1, <1>2

----------------------------------------------------------------------------
(* The actions of the client's machine.                                    *)

Silent   == {"nothing", "SendRequest", "CheckResultCode"}
Verdicts == {"AccessAccept", "AccessReject"}

\* What an action of the client makes of the machine.
ClientDid(z, x, do) ==
  /\ x \in Clients /\ Kept(z, x)
  /\ x.last = IF do = "AccessAccept" THEN "SUCCESS"
              ELSE IF do = "AccessReject" THEN "FAILED" ELSE z.last
  /\ x.run => z.run
  /\ x.run = z.run \/ do \in Verdicts
  /\ do \in Silent <=> x.told = None
  /\ do = "AccessAccept"   => x.told[1] = "success"
  /\ do = "AccessReject"   => x.told[1] = "failure"
  /\ do = "Continue"       => x.told[1] = "continue"
  /\ do = "Reauthenticate" => x.told[1] = "reauthenticate"
  /\ do = "Disconnect"     => x.told[1] = "disconnect"
  /\ do = "CheckResultCode" => /\ x.next \in ResultsOf(f.kind)
                               /\ x.next = "Success" => z.msg.res = "SUCCESS"
  /\ do = "SendRequest" => x.next \in {None, "Disconnect"}
  /\ do \notin {"CheckResultCode", "SendRequest"} => x.next = None

\* What an application is told with the payload of a message.
LEMMA TellIs ==
  ASSUME NEW x \in Clients, Quiet(x),
         NEW what \in {"success", "failure", "continue", "reauthenticate", "disconnect"},
         NEW p \in Pay
  PROVE  /\ Tell(x, <<what, p>>) \in Clients /\ Kept(x, Tell(x, <<what, p>>))
         /\ Tell(x, <<what, p>>).told # None /\ Tell(x, <<what, p>>).told[1] = what
         /\ Tell(x, <<what, p>>).last = x.last /\ Tell(x, <<what, p>>).run = x.run
         /\ Tell(x, <<what, p>>).next = None
<1>1. PICK t : t = <<what, p>>
  OBVIOUS
<1>2. t \in Calls /\ t # None /\ t[1] = what
  BY <1>1, NoneIs DEF Calls, Verdict
<1>3. PICK y : y = [x EXCEPT !.told = t]
  OBVIOUS
<1>4. /\ y \in Clients /\ Kept(x, y) /\ y.told = t /\ y.last = x.last /\ y.run = x.run
      /\ y.next = None
  BY <1>2, <1>3 DEF Clients, Machines, Kept, Quiet
<1> QED BY <1>1, <1>2, <1>3, <1>4 DEF Tell

\* Each action of the client.
LEMMA ClientDoIs ==
  ASSUME NEW z \in Clients, Quiet(z), NEW do, NEW x \in ClientDo(f, z, do), f \in Config,
         do \in Silent \cup Verdicts \cup {"Continue", "Reauthenticate", "Disconnect"},
         do \in Verdicts \cup {"CheckResultCode", "Continue"} => z.msg # None
  PROVE  ClientDid(z, x, do)
<1>0. /\ z.msg \in Answers \cup {None} /\ z.pay \in Pay /\ None \in Pay
      /\ z.next = None /\ z.told = None
  BY DEF Clients, Machines, Pay, Quiet
<1>1. CASE do = "nothing"
  <2>1. x = z
    BY <1>1 DEF ClientDo
  <2> QED BY <1>0, <1>1, <2>1 DEF ClientDid, Kept, Silent, Verdicts
<1>2. CASE do = "SendRequest"
  <2>1. x = SendsRequest(f, z)
    BY <1>2 DEF ClientDo
  <2>2. CASE f.realm
    <3>1. Request(z.pay) \in Requests
      BY <1>0 DEF Request, Requests
    <3>2. PICK out \in Seq(Requests) : Send(z, Request(z.pay)) = [z EXCEPT !.out = out]
      <4>1. Sent(z, Request(z.pay), Send(z, Request(z.pay)), Requests)
        BY <3>1, SendIs DEF Clients
      <4> QED BY <4>1 DEF Sent
    <3>3. x = [z EXCEPT !.out = out]
      BY <2>1, <2>2, <3>2 DEF SendsRequest
    <3>4. /\ x \in Clients /\ Kept(z, x) /\ x.last = z.last /\ x.run = z.run
          /\ x.told = None /\ x.next = None
      BY <1>0, <3>3 DEF Clients, Machines, Kept
    <3> QED BY <1>2, <3>4 DEF ClientDid, Silent, Verdicts
  <2>3. CASE ~f.realm
    <3>1. x = [z EXCEPT !.next = "Disconnect"]
      BY <2>1, <2>3 DEF SendsRequest, Raise
    <3>2. /\ x \in Clients /\ Kept(z, x) /\ x.last = z.last /\ x.run = z.run
          /\ x.told = None /\ x.next = "Disconnect"
      BY <1>0, <3>1 DEF Clients, Machines, Kept, Event
    <3> QED BY <1>2, <3>2 DEF ClientDid, Silent, Verdicts
  <2> QED BY <2>2, <2>3
<1>3. CASE do = "CheckResultCode"
  <2>1. PICK e : e = IF f.kind = "nasreq" THEN AA_Result(z.msg.res) ELSE DEA_Result(f, z.msg.res)
    OBVIOUS
  <2>2. x = [z EXCEPT !.next = e]
    BY <1>3, <2>1 DEF ClientDo, Raise
  <2>3. e \in ResultsOf(f.kind) /\ (e = "Success" => z.msg.res = "SUCCESS")
    <3>1. CASE f.kind = "nasreq"
      BY <2>1, <3>1 DEF AA_Result, ResultsOf
    <3>2. CASE f.kind # "nasreq"
      BY <2>1, <3>2 DEF DEA_Result, ResultsOf
    <3> QED BY <3>1, <3>2
  <2>4. e \in Event
    BY <2>3 DEF Event, Results, ResultsOf
  <2>5. /\ x \in Clients /\ Kept(z, x) /\ x.last = z.last /\ x.run = z.run
        /\ x.told = None /\ x.next = e
    BY <1>0, <2>2, <2>4 DEF Clients, Machines, Kept
  <2> QED BY <1>3, <2>3, <2>5 DEF ClientDid, Silent, Verdicts
<1>4. CASE do \in Verdicts
  <2>1. PICK y : y = Stops(f, z)
    OBVIOUS
  <2>2. /\ y \in Clients /\ Kept(z, y) /\ Quiet(y) /\ y.last = z.last /\ (y.run => z.run)
        /\ y.msg = z.msg
    BY <1>0, <2>1 DEF Stops, Stop, Clients, Machines, Kept, Quiet
  <2>3. PICK what : what = IF do = "AccessAccept" THEN "success" ELSE "failure"
    OBVIOUS
  <2>4. PICK v : v = Tell(y, <<what, z.msg.pay>>)
    OBVIOUS
  <2>5. z.msg.pay \in Pay
    BY <1>0, <1>4 DEF Answers
  <2>6. /\ v \in Clients /\ Kept(y, v) /\ v.told # None /\ v.told[1] = what
        /\ v.last = y.last /\ v.run = y.run /\ v.next = None
    BY <2>2, <2>3, <2>4, <2>5, TellIs
  <2>7. x = [v EXCEPT !.last = IF do = "AccessAccept" THEN "SUCCESS" ELSE "FAILED"]
    <3>1. CASE do = "AccessAccept"
      BY <2>1, <2>2, <2>3, <2>4, <3>1 DEF ClientDo, Accepts, Update
    <3>2. CASE do = "AccessReject"
      BY <2>1, <2>2, <2>3, <2>4, <3>2 DEF ClientDo, Rejects, Update
    <3> QED BY <1>4, <3>1, <3>2 DEF Verdicts
  <2>8. /\ x \in Clients /\ Kept(v, x) /\ x.told = v.told /\ x.run = v.run /\ x.next = None
        /\ x.last = IF do = "AccessAccept" THEN "SUCCESS" ELSE "FAILED"
    BY <2>6, <2>7 DEF Clients, Machines, Kept
  <2> QED BY <1>4, <2>2, <2>3, <2>6, <2>8 DEF ClientDid, Kept, Silent, Verdicts
<1>5. CASE do \in {"Continue", "Reauthenticate", "Disconnect"}
  <2>1. PICK what, p : /\ what = IF do = "Continue" THEN "continue"
                               ELSE IF do = "Reauthenticate" THEN "reauthenticate"
                               ELSE "disconnect"
                       /\ p = IF do = "Continue" THEN z.msg.pay ELSE None
    OBVIOUS
  <2>2. p \in Pay
    BY <1>0, <1>5, <2>1 DEF Answers
  <2>3. x = Tell(z, <<what, p>>)
    BY <1>5, <2>1 DEF ClientDo
  <2>4. /\ x \in Clients /\ Kept(z, x) /\ x.told # None /\ x.told[1] = what
        /\ x.last = z.last /\ x.run = z.run /\ x.next = None
    BY <2>1, <2>2, <2>3, TellIs
  <2> QED BY <1>5, <2>1, <2>4 DEF ClientDid, Silent, Verdicts
<1> QED BY <1>1, <1>2, <1>3, <1>4, <1>5 DEF Silent, Verdicts

\* A thread of the client fires the event it has at i: z is the machine as the action
\* finds it, and x what the action makes of it.
ClientFires(i, z, do, x) ==
  /\ i \in 1..Len(c.hand) /\ z \in Clients /\ Quiet(z)
  /\ z.hand = Without(c.hand, i) /\ z.q = c.q /\ z.msg = c.msg /\ z.low = c.low
  /\ z.ret = c.ret /\ z.last = c.last /\ z.run = c.run
  /\ \/ do = "nothing" /\ z.st = c.st
     \/ /\ c.run
        /\ \E r : /\ ClientRowIs(r) /\ r[1] = c.st /\ r[3] = z.st /\ r[4] = do
                  /\ r[2] \in {c.hand[i], "*"}
  /\ c.run /\ c.hand[i] = "Disconnect" => z.st = "Terminated" \/ Unheard("Disconnect")
  /\ c.run /\ c.st = "CheckResultCode" /\ c.hand[i] \in ResultsOf(f.kind)
       => z.st # "CheckResultCode"
  /\ ClientDid(z, x, do)

\* Every step of such a thread is one.
LEMMA ClientServesIs ==
  ASSUME TypeOK, ClientServes,
         Waits(c, "RxAnswer") \/ c.st = "CheckResultCode" => c.msg # None
  PROVE  \E i, z, do, x : /\ ClientFires(i, z, do, x)
                          /\ c' = Settled(Raised(x)) /\ toS' = toS \o x.out
                          /\ IF x.told = None THEN UNCHANGED <<user, access>> ELSE Told(x.told)
                          /\ unheard' = (unheard \/ Unheard(c.hand[i]))
<1>0. c \in Clients /\ Quiet(c) /\ c.hand \in Seq(Event) /\ f \in Config /\ f.kind \in Kinds
  BY DEF TypeOK, Clients, Machines, Config
<1>1. PICK i \in 1..Len(c.hand) :
        LET fired == Fire(c, ClientTable[f.kind], i) IN
        \E x \in ClientDo(f, fired.x, fired.do) :
          /\ c' = Settled(Raised(x)) /\ toS' = toS \o x.out
          /\ IF x.told = None THEN UNCHANGED <<user, access>> ELSE Told(x.told)
          /\ unheard' = (unheard \/ Unheard(c.hand[i]))
  BY DEF ClientServes
<1>2. PICK z, do : /\ z = Fire(c, ClientTable[f.kind], i).x
                   /\ do = Fire(c, ClientTable[f.kind], i).do
  OBVIOUS
<1>3. PICK x \in ClientDo(f, z, do) :
          /\ c' = Settled(Raised(x)) /\ toS' = toS \o x.out
          /\ IF x.told = None THEN UNCHANGED <<user, access>> ELSE Told(x.told)
          /\ unheard' = (unheard \/ Unheard(c.hand[i]))
  BY <1>1, <1>2
<1>4. PICK h, ev, st, row : /\ h = Without(c.hand, i) /\ ev = c.hand[i] /\ st = c.st
                            /\ row = Row(ClientTable[f.kind], st, ev)
  OBVIOUS
<1>5. h \in Seq(Event) /\ ev \in Event /\ In(c.hand, ev)
  BY <1>0, <1>4, WithoutIn DEF In
<1>6. CASE ~c.run \/ row = None
  <2>1. z = [c EXCEPT !.hand = h] /\ do = "nothing"
    BY <1>0, <1>2, <1>4, <1>6 DEF Fire, Clients, Machines
  <2>2. z \in Clients /\ Quiet(z)
    BY <1>0, <1>5, <2>1 DEF Clients, Machines, Quiet
  <2>3. /\ z.hand = h /\ z.q = c.q /\ z.msg = c.msg /\ z.low = c.low /\ z.st = c.st
        /\ z.ret = c.ret /\ z.last = c.last /\ z.run = c.run
    BY <1>0, <1>5, <2>1 DEF Clients, Machines
  <2>4. ClientDid(z, x, do)
    BY <1>0, <1>3, <2>1, <2>2, ClientDoIs DEF Silent, Verdicts
  <2>5. c.run /\ c.hand[i] = "Disconnect" => Unheard("Disconnect")
    BY <1>4, <1>6 DEF Unheard
  <2>6. ~(c.run /\ c.st = "CheckResultCode" /\ c.hand[i] \in ResultsOf(f.kind))
    BY <1>0, <1>4, <1>6, ResultRow
  <2>7. ClientFires(i, z, do, x)
    BY <1>4, <2>1, <2>2, <2>3, <2>4, <2>5, <2>6 DEF ClientFires
  <2> QED BY <1>3, <2>7
<1>7. CASE c.run /\ row # None
  <2>1. RowFound(row, ClientRowsOf(f.kind), st, ev)
    BY <1>0, <1>4, <1>7, RowIsFound, TablesOf
  <2>2. /\ row \in ClientRowsOf(f.kind) /\ row[1] = st /\ row[2] \in {ev, "*"}
    BY <2>1 DEF RowFound, RowFor
  <2>3. ClientRowIs(row)
    BY <1>0, <2>2, ClientRowsAre
  <2>4. PICK to : to = row[3] /\ to \in State
    BY <2>3 DEF ClientRowIs
  <2>5. z = [c EXCEPT !.hand = h, !.st = to] /\ do = row[4]
    BY <1>0, <1>2, <1>4, <1>7, <2>4 DEF Fire, Clients, Machines
  <2>6. z \in Clients /\ Quiet(z)
    BY <1>0, <1>5, <2>4, <2>5 DEF Clients, Machines, Quiet
  <2>7. /\ z.hand = h /\ z.q = c.q /\ z.msg = c.msg /\ z.low = c.low /\ z.st = to
        /\ z.ret = c.ret /\ z.last = c.last /\ z.run = c.run
    BY <1>0, <1>5, <2>4, <2>5 DEF Clients, Machines
  <2>8. do \in Silent \cup Verdicts \cup {"Continue", "Reauthenticate", "Disconnect"}
    BY <2>3, <2>5 DEF ClientRowIs, Silent, Verdicts
  <2>9. do \in Verdicts \cup {"CheckResultCode", "Continue"} => z.msg # None
    <3>1. ASSUME do \in Verdicts \cup {"Continue"} PROVE c.msg # None
      BY <1>4, <2>2, <2>3, <2>5, <3>1 DEF ClientRowIs, Verdicts
    <3>2. ASSUME do = "CheckResultCode" PROVE c.msg # None
      <4>1. ev = "RxAnswer"
        BY <2>2, <2>3, <2>5, <3>2 DEF ClientRowIs
      <4> QED BY <1>5, <4>1 DEF Waits
    <3> QED BY <2>7, <3>1, <3>2
  <2>10. ClientDid(z, x, do)
    BY <1>0, <1>3, <2>6, <2>8, <2>9, ClientDoIs
  <2>11. c.hand[i] = "Disconnect" => z.st = "Terminated"
    BY <1>0, <1>4, <1>7, <2>4, <2>7, DisconnectRow
  <2>12. c.st = "CheckResultCode" => z.st # "CheckResultCode"
    BY <1>4, <2>2, <2>3, <2>4, <2>7 DEF ClientRowIs
  <2>13. \E r : /\ ClientRowIs(r) /\ r[1] = c.st /\ r[3] = z.st /\ r[4] = do
                /\ r[2] \in {c.hand[i], "*"}
    BY <1>4, <2>2, <2>3, <2>4, <2>5, <2>7
  <2>14. ClientFires(i, z, do, x)
    BY <1>4, <1>7, <2>6, <2>7, <2>10, <2>11, <2>12, <2>13 DEF ClientFires
  <2> QED BY <1>3, <2>14
<1> QED BY <1>6, <1>7

\* The threads after one of them has fired the event it had at i, and an action has
\* raised another, or none.
HandAfter(g, h, i, next) ==
  /\ \A e : In(h, e) => In(g, e) \/ (next # None /\ e = next)
  /\ \A e : In(g, e) /\ e # g[i] => In(h, e)
  /\ next # None => In(h, next)
  /\ \A T : One(g, T) /\ (next = None \/ next \notin T)
              => One(h, T) /\ (g[i] \in T => NoneOf(h, T))
  /\ \A T : NoneOf(g, T) => One(h, T)

\* So it is, whatever is raised.
LEMMA HandIs ==
  ASSUME NEW g \in Seq(Event), NEW i \in 1..Len(g), NEW next \in Event \cup {None}
  PROVE  HandAfter(g, IF next = None THEN Without(g, i) ELSE Append(Without(g, i), next), i, next)
<1>1. PICK w : w = Without(g, i)
  OBVIOUS
<1>2. /\ w \in Seq(Event)
      /\ \A e : In(w, e) => In(g, e)
      /\ \A e : In(g, e) /\ e # g[i] => In(w, e)
      /\ \A T : One(g, T) => One(w, T) /\ (g[i] \in T => NoneOf(w, T))
      /\ \A T : NoneOf(g, T) => NoneOf(w, T)
  BY <1>1, WithoutIn
<1>3. \A T : NoneOf(w, T) => One(w, T)
  BY DEF NoneOf, One
<1>4. CASE next = None
  <2>1. HandAfter(g, w, i, next)
    BY <1>2, <1>3, <1>4 DEF HandAfter
  <2> QED BY <1>1, <1>4, <2>1
<1>5. CASE next # None
  <2>1. PICK h : h = Append(w, next)
    OBVIOUS
  <2>2. next \in Event
    BY <1>5
  <2>3. /\ \A e : In(h, e) <=> In(w, e) \/ e = next
        /\ \A T : NoneOf(w, T) => One(h, T)
        /\ \A T : One(w, T) /\ next \notin T => One(h, T)
        /\ \A T : NoneOf(w, T) /\ next \notin T => NoneOf(h, T)
    BY <1>2, <2>1, <2>2, AppendIn
  <2>4. HandAfter(g, h, i, next)
    BY <1>2, <1>5, <2>3 DEF HandAfter
  <2> QED BY <1>1, <1>5, <2>1, <2>4
<1> QED BY <1>4, <1>5

\* No event of T is one that is there.
LEMMA NoneOfIn ==
  ASSUME NEW q, NEW T
  PROVE  NoneOf(q, T) <=> \A e \in T : ~In(q, e)
BY DEF NoneOf, In
----------------------------------------------------------------------------
(* The invariant of the client.                                            *)

\* The client's machine against the session below it: the machine is in
\* CheckResultCode exactly as long as a thread has its result, and an answer makes the
\* handler wait for a verdict.
LowInv ==
  /\ c.last \in {"SUCCESS", "FAILED"}
  /\ c.last = "FAILED" => c.st \in {"Rejected", "Terminated"}
  /\ c.msg # None /\ Up(c) /\ c.last = "SUCCESS" => c.low = "open" \/ c.ret
  /\ Waits(c, "RxAnswer") => c.msg # None
  /\ c.st \in {"CheckResultCode", "Accepted"} => c.msg # None
  /\ NoneOf(c.q, Results) /\ One(c.hand, Results)
  /\ ~NoneOf(c.hand, Results) => c.st = "CheckResultCode"
  /\ c.st = "CheckResultCode" => c.run /\ ~NoneOf(c.hand, ResultsOf(f.kind))

\* The user against the machine: who is in and not authenticated again has an
\* accepted machine; and when the session has ended a disconnection waits for the
\* machine, unless it has come to its end or had no row for it.
UserInv ==
  /\ access /\ c.run /\ ~Again => c.st = "Accepted"
  /\ c.low = "ended" /\ c.run /\ ~unheard =>
       Waits(c, "Disconnect") \/ c.st \in {"Rejected", "Terminated"}

ClientInv == LowInv /\ UserInv

\* What one thread of the client does, field by field.
LEMMA ClientFired ==
  ASSUME TypeOK, NEW i, NEW z, NEW do, NEW x, ClientFires(i, z, do, x), c' = Settled(Raised(x))
  PROVE  /\ c' \in Clients /\ Quiet(c') /\ c'.q = c.q /\ c'.msg = c.msg /\ c'.low = c.low
         /\ c'.ret = c.ret /\ c'.last = x.last /\ c'.run = x.run /\ c'.st = z.st
         /\ HandAfter(c.hand, c'.hand, i, x.next)
         /\ c.hand[i] \in Event /\ In(c.hand, c.hand[i])
<1>1. x \in Clients /\ Kept(z, x) /\ i \in 1..Len(c.hand) /\ c.hand \in Seq(Event)
  BY DEF ClientFires, ClientDid, TypeOK, Clients, Machines
<1>2. x.next \in Event \cup {None} /\ x.hand = Without(c.hand, i)
  BY <1>1 DEF ClientFires, Clients, Machines, Kept
<1>3. PICK y : y = Settled(Raised(x))
  OBVIOUS
<1>4. /\ y \in Clients /\ Quiet(y)
      /\ y.hand = IF x.next = None THEN x.hand ELSE Append(x.hand, x.next)
      /\ y.st = x.st /\ y.q = x.q /\ y.msg = x.msg /\ y.low = x.low /\ y.ret = x.ret
      /\ y.run = x.run /\ y.last = x.last
  BY <1>1, <1>3, SettledIs DEF Clients
<1>5. HandAfter(c.hand, y.hand, i, x.next)
  BY <1>1, <1>2, <1>4, HandIs
<1>6. c' = y
  BY <1>3
<1>7. c.hand[i] \in Event /\ In(c.hand, c.hand[i])
  BY <1>1 DEF In
<1> QED BY <1>1, <1>4, <1>5, <1>6, <1>7 DEF ClientFires, Kept

\* Where an event leads the client: verdicts from CheckResultCode only, and back to
\* StAccepted not at all.
ClientMoved(st, to, do, e) ==
  /\ do = "CheckResultCode" => to = "CheckResultCode" /\ st # "CheckResultCode" /\ e = "RxAnswer"
  /\ do \in Verdicts \cup {"Continue"} => st = "CheckResultCode"
  /\ do = "AccessAccept" => e = "Success" /\ to = "Accepted"
  /\ do = "AccessReject" => to = "Rejected"
  /\ to = "CheckResultCode" => do = "CheckResultCode" \/ (do = "nothing" /\ st = to)
  /\ to = "Accepted" => (st = "Accepted" /\ do = "nothing") \/ do = "AccessAccept"
  /\ st \in {"Rejected", "Terminated"} => to \in {"Rejected", "Terminated"} /\ do = "nothing"
  /\ st = "CheckResultCode" /\ to # st => e \in Results
  /\ st = "Accepted" => \/ to = "Accepted" /\ do = "nothing"
                        \/ do = "Disconnect"
                        \/ do = "Reauthenticate" /\ e = "AuthLifetimeTimeout"
  /\ do = "Reauthenticate" => st = "Accepted"

\* It follows from the tables.
LEMMA ClientMoves ==
  ASSUME NEW i, NEW z, NEW do, NEW x, ClientFires(i, z, do, x), c.hand[i] \in Event
  PROVE  ClientMoved(c.st, z.st, do, c.hand[i])
<1>1. PICK e : e = c.hand[i]
  OBVIOUS
<1>2. CASE do = "nothing" /\ z.st = c.st
  BY <1>2 DEF ClientMoved, Verdicts
<1>3. ASSUME NEW r, ClientRowIs(r), r[1] = c.st, r[3] = z.st, r[4] = do, r[2] \in {e, "*"}
      PROVE  ClientMoved(c.st, z.st, do, e)
  <2>1. "*" \notin Results
    BY DEF Results
  <2>2. e # "*"
    BY <1>1 DEF Event, Results
  <2> QED BY <1>3, <2>1, <2>2 DEF ClientRowIs, ClientMoved, Verdicts
<1> QED BY <1>1, <1>2, <1>3 DEF ClientFires

\* The machine against the session below it, when a thread fires.
LEMMA ServesLow ==
  ASSUME TypeOK, LowInv, f' = f,
         NEW i, NEW z, NEW do, NEW x, ClientFires(i, z, do, x), c' = Settled(Raised(x))
  PROVE  LowInv'
<1>1. PICK d, next, e : d = c' /\ next = x.next /\ e = c.hand[i]
  OBVIOUS
<1>2. /\ d.q = c.q /\ d.msg = c.msg /\ d.low = c.low /\ d.ret = c.ret /\ d.last = x.last
      /\ d.run = x.run /\ d.st = z.st /\ HandAfter(c.hand, d.hand, i, next)
      /\ e \in Event /\ In(c.hand, e) /\ e = c.hand[i]
  BY <1>1, ClientFired
<1>3. \/ do = "nothing" /\ d.st = c.st
      \/ /\ c.run
         /\ \E r : /\ ClientRowIs(r) /\ r[1] = c.st /\ r[3] = d.st /\ r[4] = do
                   /\ r[2] \in {e, "*"}
  BY <1>1, <1>2 DEF ClientFires
<1>4. /\ d.last = IF do = "AccessAccept" THEN "SUCCESS"
                  ELSE IF do = "AccessReject" THEN "FAILED" ELSE c.last
      /\ d.run = c.run \/ do \in Verdicts
      /\ do = "CheckResultCode" => next \in ResultsOf(f.kind)
      /\ do = "SendRequest" => next \in {None, "Disconnect"}
      /\ do \notin {"CheckResultCode", "SendRequest"} => next = None
  BY <1>1, <1>2 DEF ClientFires, ClientDid
<1>5. c.run /\ c.st = "CheckResultCode" /\ e \in ResultsOf(f.kind) => d.st # "CheckResultCode"
  BY <1>1, <1>2 DEF ClientFires
<1>6. ResultsOf(f.kind) \subseteq Results /\ Results \subseteq Event /\ "*" \notin Results
  BY DEF ResultsOf, Results, Event
<1>7. ClientMoved(c.st, d.st, do, e)
  BY <1>1, <1>2, ClientMoves
<1> USE DEF ClientMoved
<1>8. /\ d.last \in {"SUCCESS", "FAILED"}
      /\ d.last = "FAILED" => d.st \in {"Rejected", "Terminated"}
      /\ d.last = "SUCCESS" => c.last = "SUCCESS"
  BY <1>4, <1>7 DEF LowInv, Verdicts
<1>9. d.msg # None /\ Up(d) /\ d.last = "SUCCESS" => d.low = "open" \/ d.ret
  BY <1>2, <1>8 DEF LowInv, Up
<1>10. next = None \/ (do = "CheckResultCode" /\ next \in Results) \/ next = "Disconnect"
  BY <1>4, <1>6
<1>11. Waits(d, "RxAnswer") => Waits(c, "RxAnswer")
  BY <1>2, <1>10 DEF Waits, HandAfter, Results
<1>12. d.st \in {"CheckResultCode", "Accepted"} => d.msg # None
  <2>1. CASE do = "CheckResultCode"
    BY <1>2, <1>7, <2>1 DEF LowInv, Waits
  <2>2. CASE do # "CheckResultCode"
    BY <1>2, <1>7, <2>2 DEF LowInv, Verdicts
  <2> QED BY <2>1, <2>2
<1>13. One(d.hand, Results)
  <2>1. CASE do = "CheckResultCode"
    BY <1>2, <1>7, <2>1 DEF LowInv, HandAfter
  <2>2. CASE do # "CheckResultCode"
    BY <1>2, <1>10, <2>2 DEF LowInv, HandAfter, Results
  <2> QED BY <2>1, <2>2
<1>14. ~NoneOf(d.hand, Results) => d.st = "CheckResultCode"
  <2>1. SUFFICES ASSUME ~NoneOf(d.hand, Results), do # "CheckResultCode"
                 PROVE  d.st = "CheckResultCode"
    BY <1>7
  <2>2. next \notin Results
    BY <1>10, <2>1, NoneIs, <1>6 DEF Results
  <2>3. ~NoneOf(c.hand, Results)
    BY <1>2, <1>10, <2>1, <2>2, NoneOfIn DEF HandAfter
  <2>4. e \notin Results
    BY <1>2, <2>1, <2>2 DEF LowInv, HandAfter
  <2> QED BY <1>7, <2>3, <2>4 DEF LowInv
<1>15. d.st = "CheckResultCode" => d.run /\ ~NoneOf(d.hand, ResultsOf(f.kind))
  <2>1. CASE do = "CheckResultCode"
    <3>1. d.run
      BY <1>3, <1>4, <2>1 DEF Verdicts
    <3>2. next \in ResultsOf(f.kind) /\ next # None /\ In(d.hand, next)
      BY <1>2, <1>4, <1>6, <2>1, NoneIs DEF HandAfter
    <3> QED BY <3>1, <3>2, NoneOfIn
  <2>2. CASE d.st = "CheckResultCode" /\ do = "nothing" /\ c.st = d.st
    <3>1. c.run /\ d.run
      BY <1>4, <2>2 DEF LowInv, Verdicts
    <3>2. PICK v \in ResultsOf(f.kind) : In(c.hand, v)
      BY <2>2, NoneOfIn DEF LowInv
    <3>3. e # v
      BY <1>5, <2>2, <3>1, <3>2
    <3>4. In(d.hand, v)
      BY <1>2, <3>2, <3>3 DEF HandAfter
    <3> QED BY <3>1, <3>2, <3>4, NoneOfIn
  <2> QED BY <1>7, <2>1, <2>2
<1>16. Waits(d, "RxAnswer") => d.msg # None
  BY <1>2, <1>11 DEF LowInv
<1>17. NoneOf(d.q, Results)
  BY <1>2 DEF LowInv
<1> QED BY <1>1, <1>8, <1>9, <1>12, <1>13, <1>14, <1>15, <1>16, <1>17 DEF LowInv

\* What the application is told, and who is in.
LEMMA ToldIs ==
  ASSUME TypeOK, NEW what \in Calls, what[1] # "response", Told(what)
  PROVE  /\ user' \in [st : {"asked", "waits", "in", "out", "elsewhere"}, n : Pay, conv : Nat \ {0}]
         /\ access' = (what[1] = "success" \/ (access /\ what[1] \notin {"failure", "disconnect"}))
         /\ what[1] = "reauthenticate" => Again'
         /\ user'.conv >= user.conv
<1>0. access' = (what[1] = "success" \/ (access /\ what[1] \notin {"failure", "disconnect"}))
  BY DEF Told
<1>1. /\ what[2] \in Pay
      /\ what[1] \in {"success", "failure", "continue", "reauthenticate", "disconnect"}
  BY DEF Calls, Verdict
<1>2. /\ user \in [st : {"asked", "waits", "in", "out", "elsewhere"}, n : Pay, conv : Nat \ {0}]
      /\ 0 \in Pay
  BY DEF TypeOK, Pay
<1>3. CASE what[1] = "continue"
  <2>1. user' = [user EXCEPT !.st = "asked", !.n = what[2]]
    BY <1>3 DEF Told
  <2>2. /\ user' \in [st : {"asked", "waits", "in", "out", "elsewhere"}, n : Pay, conv : Nat \ {0}]
        /\ user'.conv = user.conv /\ user'.st = "asked"
    BY <1>1, <1>2, <2>1
  <2> QED BY <1>0, <1>2, <1>3, <2>2
<1>4. CASE what[1] = "success"
  <2>1. user' = IF Heard(what) THEN [user EXCEPT !.st = "in"] ELSE user
    BY <1>4 DEF Told
  <2> QED BY <1>1, <1>2, <1>4, <2>1 DEF Told
<1>5. CASE what[1] = "failure"
  <2>1. user' = IF Heard(what) THEN [user EXCEPT !.st = "out"] ELSE user
    BY <1>5 DEF Told
  <2> QED BY <1>1, <1>2, <1>5, <2>1 DEF Told
<1>6. CASE what[1] = "disconnect"
  <2>1. user' = [user EXCEPT !.st = "out"]
    BY <1>6 DEF Told
  <2> QED BY <1>1, <1>2, <1>6, <2>1 DEF Told
<1>7. CASE what[1] = "reauthenticate"
  <2>1. user' = IF f.kind = "daemon" THEN [user EXCEPT !.st = "elsewhere", !.conv = @ + 1]
                ELSE [st |-> "asked", n |-> 0, conv |-> user.conv + 1]
    BY <1>7 DEF Told
  <2>2. CASE f.kind = "daemon"
    <3>1. PICK k \in Nat \ {0} : k = user.conv + 1 /\ k > 1 /\ k >= user.conv
      BY <1>2
    <3>2. user' = [user EXCEPT !.st = "elsewhere", !.conv = k]
      BY <2>1, <2>2, <3>1
    <3>3. /\ user' \in [st : {"asked", "waits", "in", "out", "elsewhere"}, n : Pay,
                        conv : Nat \ {0}]
          /\ user'.conv = k
      BY <1>2, <3>2
    <3> QED BY <1>0, <1>1, <1>7, <3>1, <3>3 DEF Again
  <2>3. CASE f.kind # "daemon"
    BY <1>1, <1>2, <1>7, <2>1, <2>3 DEF Told, Again
  <2> QED BY <2>2, <2>3
<1> QED BY <1>1, <1>3, <1>4, <1>5, <1>6, <1>7

\* The user against the machine, when a thread fires.
LEMMA ServesUser ==
  ASSUME TypeOK, LowInv, UserInv, f' = f,
         NEW i, NEW z, NEW do, NEW x, ClientFires(i, z, do, x), c' = Settled(Raised(x)),
         unheard' = (unheard \/ Unheard(c.hand[i])),
         IF x.told = None THEN UNCHANGED <<user, access>> ELSE Told(x.told)
  PROVE  /\ UserInv'
         /\ user' \in [st : {"asked", "waits", "in", "out", "elsewhere"}, n : Pay, conv : Nat \ {0}]
         /\ access' \in BOOLEAN
<1>1. PICK d, next, e, what : d = c' /\ next = x.next /\ e = c.hand[i] /\ what = x.told
  OBVIOUS
<1>2. /\ d.q = c.q /\ d.low = c.low /\ d.last = x.last /\ d.run = x.run /\ d.st = z.st
      /\ HandAfter(c.hand, d.hand, i, next) /\ e \in Event /\ In(c.hand, e) /\ e = c.hand[i]
  BY <1>1, ClientFired
<1>3. ClientMoved(c.st, d.st, do, e)
  BY <1>1, <1>2, ClientMoves
<1>4. /\ d.last = IF do = "AccessAccept" THEN "SUCCESS"
                  ELSE IF do = "AccessReject" THEN "FAILED" ELSE c.last
      /\ d.run => c.run
      /\ do = "CheckResultCode" => next \in ResultsOf(f.kind)
      /\ do = "SendRequest" => next \in {None, "Disconnect"}
      /\ do \notin {"CheckResultCode", "SendRequest"} => next = None
      /\ do \in Silent <=> what = None
      /\ do = "AccessAccept"   => what[1] = "success"
      /\ do = "AccessReject"   => what[1] = "failure"
      /\ do = "Continue"       => what[1] = "continue"
      /\ do = "Reauthenticate" => what[1] = "reauthenticate"
      /\ do = "Disconnect"     => what[1] = "disconnect"
      /\ what \in Calls \cup {None}
  BY <1>1, <1>2 DEF ClientFires, ClientDid, Clients, Machines
<1>5. /\ c.run /\ e = "Disconnect" => d.st = "Terminated" \/ Unheard("Disconnect")
      /\ do \in Silent \cup Verdicts \cup {"Continue", "Reauthenticate", "Disconnect"}
  BY <1>1, <1>2 DEF ClientFires, ClientRowIs, Silent, Verdicts
<1>6. /\ what = None => user' = user /\ access' = access
      /\ what # None =>
           /\ user' \in [st : {"asked", "waits", "in", "out", "elsewhere"}, n : Pay, conv : Nat \ {0}]
           /\ access' = (what[1] = "success" \/ (access /\ what[1] \notin {"failure", "disconnect"}))
           /\ what[1] = "reauthenticate" => Again'
           /\ user'.conv >= user.conv
  <2>1. CASE what = None
    BY <1>1, <2>1
  <2>2. CASE what # None
    <3>1. what \in Calls /\ Told(what)
      BY <1>1, <1>4, <2>2
    <3>2. what[1] # "response"
      BY <1>4, <1>5, <2>2 DEF Verdicts
    <3> QED BY <2>2, <3>1, <3>2, ToldIs
  <2> QED BY <2>1, <2>2
<1>7. /\ user' \in [st : {"asked", "waits", "in", "out", "elsewhere"}, n : Pay, conv : Nat \ {0}]
      /\ access' \in BOOLEAN
  BY <1>6 DEF TypeOK
\* Who is in and not authenticated again was so before, or is let in now.
<1>8. access' /\ d.run /\ ~Again' =>
         do = "AccessAccept" \/ (access /\ c.run /\ ~Again /\ c.st = "Accepted" /\ do = "nothing")
  <2>1. SUFFICES ASSUME access', d.run, ~Again', do # "AccessAccept"
                 PROVE  access /\ c.run /\ ~Again /\ c.st = "Accepted" /\ do = "nothing"
    OBVIOUS
  <2>2. access /\ c.run
    BY <1>4, <1>5, <1>6, <2>1 DEF Verdicts, Silent
  <2>3. do \notin {"AccessReject", "Disconnect", "Reauthenticate"}
    BY <1>4, <1>6, <2>1 DEF Silent
  <2>4. user.conv <= 1
    <3>1. user.conv \in Nat /\ user'.conv \in Nat
      BY <1>7 DEF TypeOK
    <3>2. user'.conv >= user.conv
      BY <1>6, <3>1
    <3>3. ~(user'.conv > 1)
      BY <2>1 DEF Again
    <3> QED BY <3>1, <3>2, <3>3
  <2>5. ~Again
    BY <2>4 DEF Again, TypeOK
  <2>6. c.st = "Accepted"
    BY <2>2, <2>5 DEF UserInv
  <2> QED BY <1>3, <2>2, <2>3, <2>5, <2>6 DEF ClientMoved
<1>9. access' /\ d.run /\ ~Again' => d.st = "Accepted"
  BY <1>3, <1>8 DEF ClientMoved
\* A disconnection that waits is still there, or has terminated the machine.
<1>10. d.low = "ended" /\ d.run /\ ~unheard' =>
         Waits(d, "Disconnect") \/ d.st \in {"Rejected", "Terminated"}
  <2>1. SUFFICES ASSUME d.low = "ended", d.run, ~unheard'
                 PROVE  Waits(d, "Disconnect") \/ d.st \in {"Rejected", "Terminated"}
    OBVIOUS
  <2>2. c.low = "ended" /\ c.run /\ ~unheard /\ ~Unheard(e)
    BY <1>1, <1>2, <1>4, <2>1
  <2>3. CASE c.st \in {"Rejected", "Terminated"}
    BY <1>3, <2>3 DEF ClientMoved
  <2>4. CASE Waits(c, "Disconnect") /\ e # "Disconnect"
    BY <1>2, <2>4 DEF Waits, HandAfter
  <2>5. CASE e = "Disconnect"
    BY <1>5, <2>2, <2>5
  <2> QED BY <2>2, <2>3, <2>4, <2>5 DEF UserInv
<1> QED BY <1>1, <1>7, <1>9, <1>10 DEF UserInv

----------------------------------------------------------------------------
(* The steps that the machines of both sides share.                        *)

\* What a step changes of the two queues, the rest of the machine being as before.
Same(x, y) == /\ y.st = x.st /\ y.run = x.run /\ y.last = x.last
              /\ y.done = x.done /\ y.chosen = x.chosen

\* A thread takes an event: it moves, and none is lost.
Taken(x, y) ==
  /\ Same(x, y) /\ y.msg = x.msg /\ y.low = x.low /\ y.ret = x.ret
  /\ \A e : Waits(y, e) <=> Waits(x, e)
  /\ \A e : In(y.q, e) => In(x.q, e)
  /\ \A e : In(y.hand, e) => In(x.hand, e) \/ In(x.q, e)
  /\ \A e : In(x.hand, e) => In(y.hand, e)
  /\ \A T : NoneOf(x.q, T) /\ One(x.hand, T) => One(y.hand, T)

\* Takes() is that.
LEMMA TakesIs ==
  ASSUME NEW Inbound, NEW Outbound, NEW x \in Machines(Inbound, Outbound), Quiet(x), x.q # <<>>
  PROVE  /\ Takes(x) \in Machines(Inbound, Outbound) /\ Quiet(Takes(x)) /\ Taken(x, Takes(x))
<1>1. PICK d, q : d = Head(x.q) /\ q = Tail(x.q)
  OBVIOUS
<1>2. x.q \in Seq(Event) /\ x.hand \in Seq(Event)
  BY DEF Machines
<1>3. d \in Event /\ q \in Seq(Event) /\ \A e : In(x.q, e) <=> In(q, e) \/ e = d
  BY <1>1, <1>2, TailIn
<1>4. PICK h : h = Append(x.hand, d)
  OBVIOUS
<1>5. /\ h \in Seq(Event) /\ \A e : In(h, e) <=> In(x.hand, e) \/ e = d
      /\ \A T : One(x.hand, T) /\ d \notin T => One(h, T)
  BY <1>2, <1>3, <1>4, AppendIn
<1>6. PICK y : y = [x EXCEPT !.q = q, !.hand = h]
  OBVIOUS
<1>7. Takes(x) = y
  BY <1>1, <1>4, <1>6 DEF Takes, Machines
<1>8. /\ y \in Machines(Inbound, Outbound) /\ Quiet(y) /\ Same(x, y) /\ y.msg = x.msg
      /\ y.low = x.low /\ y.ret = x.ret /\ y.q = q /\ y.hand = h
  BY <1>3, <1>5, <1>6 DEF Machines, Quiet, Same
<1>9. \A T : NoneOf(x.q, T) => d \notin T
  BY <1>3 DEF NoneOf, In
<1>10. Taken(x, y)
  BY <1>3, <1>5, <1>8, <1>9 DEF Taken, Waits
<1> QED BY <1>7, <1>8, <1>10

\* An event that is queued and nothing else of what an invariant is about.
Queued(x, e, y) ==
  /\ Same(x, y) /\ y.hand = x.hand
  /\ \A d : In(y.q, d) <=> In(x.q, d) \/ d = e
  /\ \A d : Waits(y, d) <=> Waits(x, d) \/ d = e
  /\ \A T : NoneOf(x.q, T) /\ e \notin T => NoneOf(y.q, T)

\* Notify() is that.
LEMMA NotifyQueues ==
  ASSUME NEW Inbound, NEW Outbound, NEW x \in Machines(Inbound, Outbound), Quiet(x),
         NEW e \in Event
  PROVE  /\ Notify(x, e) \in Machines(Inbound, Outbound) /\ Quiet(Notify(x, e))
         /\ Queued(x, e, Notify(x, e)) /\ Notify(x, e).msg = x.msg
         /\ Notify(x, e).low = x.low /\ Notify(x, e).ret = x.ret
<1>1. PICK y : y = Notify(x, e)
  OBVIOUS
<1>2. x.q \in Seq(Event)
  BY DEF Machines
<1>3. PICK q : q = Append(x.q, e)
  OBVIOUS
<1>4. /\ q \in Seq(Event) /\ \A d : In(q, d) <=> In(x.q, d) \/ d = e
      /\ \A T : NoneOf(x.q, T) /\ e \notin T => NoneOf(q, T)
  BY <1>2, <1>3, AppendIn
<1>5. y \in Machines(Inbound, Outbound) /\ y = [x EXCEPT !.q = q]
  BY <1>1, <1>3, NotifyIs
<1>6. /\ Same(x, y) /\ y.hand = x.hand /\ y.q = q /\ Quiet(y) /\ y.msg = x.msg
      /\ y.low = x.low /\ y.ret = x.ret
  BY <1>5 DEF Machines, Same, Quiet
<1>7. Queued(x, e, y)
  BY <1>4, <1>6 DEF Queued, Waits
<1> QED BY <1>1, <1>5, <1>6, <1>7

\* A message arrives: the handler keeps it and notifies the machine.
Arrived(x, m, e, y) == /\ Quiet(y) /\ Queued(x, e, y)
                       /\ y.msg = m /\ y.low = x.low /\ y.ret = TRUE

\* Arrives() is that as long as the session below is up.
LEMMA ArrivesIs ==
  ASSUME NEW Inbound, NEW Outbound, NEW x \in Machines(Inbound, Outbound), Quiet(x),
         NEW m \in Inbound, NEW e \in Event, Up(x)
  PROVE  /\ Arrives(x, m, e) \in Machines(Inbound, Outbound)
         /\ Arrived(x, m, e, Arrives(x, m, e))
<1>1. PICK w : w = [x EXCEPT !.msg = m]
  OBVIOUS
<1>2. /\ w \in Machines(Inbound, Outbound) /\ Quiet(w) /\ Same(x, w) /\ w.q = x.q
      /\ w.hand = x.hand /\ w.msg = m /\ w.low = x.low
  BY <1>1 DEF Machines, Quiet, Same
<1>3. PICK n : n = Notify(w, e)
  OBVIOUS
<1>4. /\ n \in Machines(Inbound, Outbound) /\ Quiet(n) /\ Queued(w, e, n) /\ n.msg = w.msg
      /\ n.low = w.low
  BY <1>2, <1>3, NotifyQueues
<1>5. PICK y : y = [n EXCEPT !.ret = TRUE]
  OBVIOUS
<1>6. y = Arrives(x, m, e)
  BY <1>1, <1>3, <1>5 DEF Arrives
<1>7. /\ y \in Machines(Inbound, Outbound) /\ Quiet(y) /\ Same(n, y) /\ y.q = n.q
      /\ y.hand = n.hand /\ y.msg = n.msg /\ y.low = n.low /\ y.ret = TRUE
  BY <1>4, <1>5 DEF Machines, Quiet, Same
<1>8. Queued(x, e, y)
  BY <1>2, <1>4, <1>7 DEF Queued, Same, Waits
<1>9. Arrived(x, m, e, y)
  BY <1>2, <1>4, <1>7, <1>8 DEF Arrived
<1> QED BY <1>6, <1>7, <1>9

\* The handler returns: nothing but the session below changes.
Back(x, y) == /\ Quiet(y) /\ Same(x, y) /\ y.q = x.q
              /\ y.hand = x.hand /\ y.msg = x.msg /\ y.ret = FALSE
              /\ y.low = IF Up(x) /\ x.last = "SUCCESS" THEN "open"
                         ELSE IF Up(x) /\ x.last = "FAILED" THEN "ended" ELSE x.low

\* Returned() is that.
LEMMA ReturnedIs ==
  ASSUME NEW Inbound, NEW Outbound, NEW x \in Machines(Inbound, Outbound), Quiet(x)
  PROVE  Returned(x) \in Machines(Inbound, Outbound) /\ Back(x, Returned(x))
<1>1. x.last \in {"SUCCESS", "CONTINUE", "FAILED"}
  BY DEF Machines
<1>2. CASE x.last = "SUCCESS"
  <2>1. Returned(x) = [x EXCEPT !.ret = FALSE, !.low = IF Up(x) THEN "open" ELSE x.low]
    BY <1>2 DEF Returned, Machines
  <2> QED BY <1>2, <2>1 DEF Machines, Quiet, Same, Back
<1>3. CASE x.last = "FAILED"
  <2>1. Returned(x) = [x EXCEPT !.ret = FALSE, !.low = IF Up(x) THEN "ended" ELSE x.low]
    BY <1>3 DEF Returned, Machines
  <2> QED BY <1>3, <2>1 DEF Machines, Quiet, Same, Back
<1>4. CASE x.last = "CONTINUE"
  <2>1. Returned(x) = [x EXCEPT !.ret = FALSE]
    BY <1>4 DEF Returned, Machines
  <2> QED BY <1>4, <2>1 DEF Machines, Quiet, Same, Back
<1> QED BY <1>1, <1>2, <1>3, <1>4

\* A timer expires: two events are queued.
Over(x, low, es, y) == /\ Quiet(y) /\ Same(x, y) /\ y.low = low
                       /\ y.hand = x.hand /\ y.msg = x.msg /\ y.ret = x.ret
                       /\ \A d : In(y.q, d) <=> In(x.q, d) \/ In(es, d)

\* Expired() is that.
LEMMA ExpiredIs ==
  ASSUME NEW Inbound, NEW Outbound, NEW x \in Machines(Inbound, Outbound), Quiet(x),
         NEW low \in {"ends", "ended"}, NEW es \in Expiry
  PROVE  /\ Expired(x, low, es) \in Machines(Inbound, Outbound)
         /\ Over(x, low, es, Expired(x, low, es))
<1>1. es \in Seq(Event)
  <2>1. /\ "AuthGracePeriodTimeout" \in Event /\ "AuthLifetimeTimeout" \in Event
        /\ "Timeout" \in Event /\ "SessionTimeout" \in Event
    BY DEF Event
  <2>2. CASE es = <<"AuthGracePeriodTimeout", "AuthLifetimeTimeout">>
    BY <2>1, <2>2
  <2>3. CASE es = <<"Timeout", "SessionTimeout">>
    BY <2>1, <2>3
  <2> QED BY <2>2, <2>3 DEF Expiry
<1>2. x.q \in Seq(Event)
  BY DEF Machines
<1>3. PICK q : q = x.q \o es
  OBVIOUS
<1>4. q \in Seq(Event) /\ \A d : In(q, d) <=> In(x.q, d) \/ In(es, d)
  BY <1>1, <1>2, <1>3, ConcatIn
<1>5. PICK y : y = [x EXCEPT !.low = low, !.q = q]
  OBVIOUS
<1>6. y = Expired(x, low, es)
  BY <1>3, <1>5 DEF Expired, Machines
<1>7. /\ y \in Machines(Inbound, Outbound) /\ Quiet(y) /\ Same(x, y) /\ y.low = low
      /\ y.hand = x.hand /\ y.msg = x.msg /\ y.ret = x.ret /\ y.q = q
  BY <1>4, <1>5 DEF Machines, Quiet, Same
<1>8. Over(x, low, es, y)
  BY <1>4, <1>7 DEF Over
<1> QED BY <1>6, <1>7, <1>8

----------------------------------------------------------------------------
(* The steps of the client's side.                                         *)

\* What the invariant of the client reads.
ClientState == <<f, c, user, access, unheard>>

\* A step that changes none of it keeps it.
LEMMA ClientStutters ==
  ASSUME ClientInv, UNCHANGED ClientState
  PROVE  ClientInv'
BY DEF ClientInv, LowInv, UserInv, ClientState, Up, Again, Waits, In, NoneOf, One

\* The user answers.
LEMMA UserAnswersKeeps ==
  ASSUME TypeOK, ClientInv, UserAnswers
  PROVE  TypeOK' /\ ClientInv'
<1>1. PICK w : w = [c EXCEPT !.pay = user.n]
  OBVIOUS
<1>2. /\ w \in Clients /\ Quiet(w) /\ Same(c, w) /\ w.q = c.q /\ w.hand = c.hand
      /\ w.msg = c.msg /\ w.low = c.low /\ w.ret = c.ret
  BY <1>1 DEF TypeOK, Clients, Machines, Quiet, Same
<1>3. PICK d : d = c'
  OBVIOUS
<1>4. d = Notify(w, "RxUser") /\ "RxUser" \in Event
  BY <1>1, <1>3 DEF UserAnswers, Event
<1>5. /\ d \in Clients /\ Quiet(d) /\ Queued(w, "RxUser", d) /\ d.msg = w.msg
      /\ d.low = w.low /\ d.ret = w.ret
  BY <1>2, <1>4, NotifyQueues DEF Clients
<1>6. /\ d.st = c.st /\ d.run = c.run /\ d.last = c.last /\ d.hand = c.hand /\ d.msg = c.msg
      /\ d.low = c.low /\ d.ret = c.ret
      /\ \A e : Waits(d, e) <=> Waits(c, e) \/ e = "RxUser"
      /\ NoneOf(c.q, Results) => NoneOf(d.q, Results)
  BY <1>2, <1>5 DEF Queued, Same, Waits, Results
<1>7. /\ user' = [user EXCEPT !.st = "waits"] /\ user.st = "asked"
      /\ UNCHANGED <<f, s, access, backend, verdict, toS, toC, faults, calls, unheard>>
  BY DEF UserAnswers
<1>8. TypeOK'
  BY <1>3, <1>5, <1>7 DEF TypeOK, Quiet
<1>9. Again' <=> Again
  BY <1>7 DEF TypeOK, Again
<1>10. LowInv'
  BY <1>3, <1>6, <1>7 DEF ClientInv, LowInv, Up
<1>11. UserInv'
  BY <1>3, <1>6, <1>7, <1>9 DEF ClientInv, UserInv
<1> QED BY <1>8, <1>10, <1>11 DEF ClientInv

\* A thread of the client takes an event.
LEMMA ClientTakesKeeps ==
  ASSUME TypeOK, ClientInv, ClientTakes
  PROVE  TypeOK' /\ ClientInv'
<1>1. PICK d : d = c'
  OBVIOUS
<1>2. d \in Clients /\ Quiet(d) /\ Taken(c, d)
  BY <1>1, TakesIs DEF ClientTakes, TypeOK, Clients
<1>3. /\ d.st = c.st /\ d.run = c.run /\ d.last = c.last /\ d.msg = c.msg /\ d.low = c.low
      /\ d.ret = c.ret
  BY <1>2 DEF Taken, Same
<1>4. /\ \A e : Waits(d, e) <=> Waits(c, e)
      /\ NoneOf(c.q, Results) => /\ NoneOf(d.q, Results)
                                 /\ \A e \in Results : In(d.hand, e) <=> In(c.hand, e)
      /\ NoneOf(c.q, Results) /\ One(c.hand, Results) => One(d.hand, Results)
  BY <1>2, NoneOfIn DEF Taken
<1>5. UNCHANGED <<f, s, user, access, backend, verdict, toS, toC, faults, calls, unheard>>
  BY DEF ClientTakes
<1>6. TypeOK'
  BY <1>1, <1>2, <1>5 DEF TypeOK, Quiet
<1>7. LowInv'
  <2>1. ResultsOf(f.kind) \subseteq Results
    BY DEF ResultsOf, Results
  <2>2. /\ ~NoneOf(d.hand, Results) <=> ~NoneOf(c.hand, Results)
        /\ ~NoneOf(d.hand, ResultsOf(f.kind)) <=> ~NoneOf(c.hand, ResultsOf(f.kind))
    BY <1>4, <2>1, NoneOfIn DEF ClientInv, LowInv
  <2> QED BY <1>1, <1>3, <1>4, <1>5, <2>2 DEF ClientInv, LowInv, Up
<1>8. UserInv'
  BY <1>1, <1>3, <1>4, <1>5 DEF ClientInv, UserInv, Again
<1> QED BY <1>6, <1>7, <1>8 DEF ClientInv

\* A thread of the client fires an event.
LEMMA ClientServesKeeps ==
  ASSUME TypeOK, ClientInv, ClientServes
  PROVE  TypeOK' /\ ClientInv'
<1>1. PICK i, z, do, x : /\ ClientFires(i, z, do, x)
                         /\ c' = Settled(Raised(x)) /\ toS' = toS \o x.out
                         /\ IF x.told = None THEN UNCHANGED <<user, access>> ELSE Told(x.told)
                         /\ unheard' = (unheard \/ Unheard(c.hand[i]))
  BY ClientServesIs DEF ClientInv, LowInv
<1>2. UNCHANGED <<f, s, backend, verdict, toC, faults, calls>>
  BY DEF ClientServes
<1>3. c' \in Clients /\ Quiet(c')
  BY <1>1, ClientFired
<1>4. LowInv'
  BY <1>1, <1>2, ServesLow DEF ClientInv
<1>5. /\ UserInv'
      /\ user' \in [st : {"asked", "waits", "in", "out", "elsewhere"}, n : Pay, conv : Nat \ {0}]
      /\ access' \in BOOLEAN
  BY <1>1, <1>2, ServesUser DEF ClientInv
<1>6. toS' \in Seq(Requests)
  <2>1. x.out \in Seq(Requests)
    BY <1>1 DEF ClientFires, ClientDid, Clients, Machines
  <2> QED BY <1>1, <2>1 DEF TypeOK
<1>7. unheard' \in BOOLEAN
  BY <1>1
<1>8. TypeOK'
  BY <1>2, <1>3, <1>5, <1>6, <1>7 DEF TypeOK, Quiet
<1> QED BY <1>4, <1>5, <1>8 DEF ClientInv

\* An answer arrives.
LEMMA ClientReceivesKeeps ==
  ASSUME TypeOK, ClientInv, ClientReceives
  PROVE  TypeOK' /\ ClientInv'
<1>1. PICK d, m : d = c' /\ m = Head(toC)
  OBVIOUS
<1>2. m \in Answers /\ toC' \in Seq(Answers) /\ m # None
  BY <1>1, TailIn, NoneIs DEF ClientReceives, TypeOK
<1>3. UNCHANGED <<f, s, user, access, backend, verdict, toS, faults, calls, unheard>>
  BY DEF ClientReceives
<1>4. CASE ~Up(c)
  <2>1. c' = c
    BY <1>4 DEF ClientReceives, Arrives
  <2>2. TypeOK'
    BY <1>2, <1>3, <2>1 DEF TypeOK, Quiet
  <2> QED BY <1>3, <2>1, <2>2, ClientStutters DEF ClientState
<1>5. CASE Up(c)
  <2>1. d = Arrives(c, m, "RxAnswer") /\ "RxAnswer" \in Event
    BY <1>1 DEF ClientReceives, Event
  <2>2. /\ d \in Clients /\ Quiet(d) /\ Queued(c, "RxAnswer", d)
        /\ d.msg = m /\ d.low = c.low /\ d.ret = TRUE
    <3>1. c \in Machines(Answers, Requests) /\ Quiet(c)
      BY DEF TypeOK, Clients
    <3>2. d \in Clients /\ Arrived(c, m, "RxAnswer", d)
      BY <1>2, <1>5, <2>1, <3>1, ArrivesIs DEF Clients
    <3> QED BY <3>2 DEF Arrived
  <2>3. /\ d.st = c.st /\ d.run = c.run /\ d.last = c.last /\ d.hand = c.hand
        /\ \A e : Waits(d, e) <=> Waits(c, e) \/ e = "RxAnswer"
        /\ NoneOf(c.q, Results) => NoneOf(d.q, Results)
    BY <2>2 DEF Queued, Same, Results
  <2>4. TypeOK'
    BY <1>1, <1>2, <1>3, <2>2 DEF TypeOK, Quiet
  <2>5. c.low # "ended"
    BY <1>5 DEF Up
  <2>6. LowInv'
    BY <1>1, <1>2, <1>3, <2>2, <2>3 DEF ClientInv, LowInv, Up
  <2>7. UserInv'
    BY <1>1, <1>3, <2>2, <2>3, <2>5 DEF ClientInv, UserInv, Again
  <2> QED BY <2>4, <2>6, <2>7 DEF ClientInv
<1> QED BY <1>4, <1>5

\* The handler of an answer returns.
LEMMA ClientReturnsKeeps ==
  ASSUME TypeOK, ClientInv, ClientReturns
  PROVE  TypeOK' /\ ClientInv'
<1>1. PICK d, w : d = c' /\ w = Returned(c)
  OBVIOUS
<1>2. /\ w \in Clients /\ Quiet(w) /\ Same(c, w) /\ w.q = c.q /\ w.hand = c.hand
      /\ w.msg = c.msg /\ w.ret = FALSE
      /\ w.low = IF Up(c) /\ c.last = "SUCCESS" THEN "open"
                 ELSE IF Up(c) /\ c.last = "FAILED" THEN "ended" ELSE c.low
  <2>1. c \in Machines(Answers, Requests) /\ Quiet(c)
    BY DEF TypeOK, Clients
  <2>2. w \in Clients /\ Back(c, w)
    BY <1>1, <2>1, ReturnedIs DEF Clients
  <2> QED BY <2>2 DEF Back
<1>3. UNCHANGED <<f, s, user, access, backend, verdict, toS, toC, faults, calls, unheard>>
  BY DEF ClientReturns
<1>4. CASE c.last = "FAILED" /\ c.low = "open"
  <2>1. d = Notify(w, "Disconnect") /\ "Disconnect" \in Event
    BY <1>1, <1>4 DEF ClientReturns, Event
  <2>2. /\ d \in Clients /\ Quiet(d) /\ Queued(w, "Disconnect", d) /\ d.msg = w.msg
        /\ d.low = w.low /\ d.ret = w.ret
    BY <1>2, <2>1, NotifyQueues DEF Clients
  <2>3. /\ d.st = c.st /\ d.run = c.run /\ d.last = c.last /\ d.hand = c.hand
        /\ d.msg = c.msg /\ d.low = "ended"
        /\ \A e : Waits(d, e) <=> Waits(c, e) \/ e = "Disconnect"
        /\ NoneOf(c.q, Results) => NoneOf(d.q, Results)
    BY <1>2, <1>4, <2>2 DEF Queued, Same, Waits, Results, Up
  <2>4. TypeOK'
    BY <1>1, <1>3, <2>2 DEF TypeOK, Quiet
  <2>5. LowInv'
    BY <1>1, <1>3, <1>4, <2>3 DEF ClientInv, LowInv, Up
  <2>6. UserInv'
    BY <1>1, <1>3, <1>4, <2>3 DEF ClientInv, UserInv, Again
  <2> QED BY <2>4, <2>5, <2>6 DEF ClientInv
<1>5. CASE ~(c.last = "FAILED" /\ c.low = "open")
  <2>1. d = w
    BY <1>1, <1>5 DEF ClientReturns
  <2>2. /\ d.st = c.st /\ d.run = c.run /\ d.last = c.last /\ d.hand = c.hand
        /\ d.msg = c.msg /\ d.q = c.q /\ \A e : Waits(d, e) <=> Waits(c, e)
    BY <1>2, <2>1 DEF Same, Waits
  <2>3. /\ d.low \in {"ends", "ended"} => c.last = "FAILED" \/ d.low = c.low
        /\ c.last = "SUCCESS" /\ d.low \in {"pending", "open"} => d.low = "open"
        /\ c.low \in {"ends", "ended"} => d.low = c.low
    BY <1>2, <2>1 DEF Up
  <2>4. TypeOK'
    BY <1>1, <1>2, <1>3, <2>1 DEF TypeOK, Quiet
  <2>5. LowInv'
    BY <1>1, <1>3, <2>2, <2>3 DEF ClientInv, LowInv, Up
  <2>6. c.last = "FAILED" => c.st \in {"Rejected", "Terminated"}
    BY DEF ClientInv, LowInv
  <2>7. UserInv'
    BY <1>1, <1>3, <2>2, <2>3, <2>6 DEF ClientInv, UserInv, Again
  <2> QED BY <2>4, <2>5, <2>7 DEF ClientInv
<1> QED BY <1>4, <1>5

----------------------------------------------------------------------------
(* The actions of the server's machine.                                    *)

\* What the authenticator of NASREQ is told at once.
Judged(what) == IF what = "success" THEN "BackendSuccess" ELSE "BackendFailure"

\* r has the events of q and e.
OneMore(q, r, e) == \A d : In(r, d) <=> In(q, d) \/ d = e

\* What an action of the server makes of the machine.
ServerDid(z, x, do) ==
  /\ x \in Servers /\ x.st = z.st /\ x.hand = z.hand /\ x.msg = z.msg
  /\ x.low = z.low /\ x.ret = z.ret
  /\ z.done => x.done
  /\ \A i \in DOMAIN x.out : x.out[i].res = "SUCCESS" => do = "AnswerSuccess"
  /\ do # "CheckRequest" => x.chosen = z.chosen
  /\ do # "Forward" => x.told = None /\ x.q = z.q
  /\ do \notin {"CheckRequest", "Authorize"} => x.next = None
  /\ do = "CheckRequest" => \/ x.next = "Invalid" /\ x.chosen = z.chosen
                            \/ /\ x.next = "Valid"
                               /\ f.kind = "nasreq" => x.chosen /\ ~z.chosen
  /\ do = "Authorize" => \/ x.next = "AuthorizationSuccess" /\ (x.done \/ f.only)
                         \/ x.next = "AuthorizationFailure"
  /\ do = "Forward" => x.told # None
  /\ do = "Forward" /\ f.kind = "nasreq" =>
       /\ x.told[1] \in Verdict
       /\ OneMore(z.q, x.q, Judged(x.told[1]))
  /\ do = "Forward" /\ f.kind # "nasreq" => x.told[1] = "response" /\ x.q = z.q

\* An answer of the server.
LEMMA ServerSendIs ==
  ASSUME NEW z \in Servers, Quiet(z), NEW x, NEW m \in Answers, Sent(z, m, x, Answers)
  PROVE  /\ x \in Servers /\ Kept(z, x) /\ x.run = z.run /\ x.last = z.last /\ x.done = z.done
         /\ x.chosen = z.chosen /\ x.next = None /\ x.told = None
         /\ \A i \in DOMAIN x.out : x.out[i] = m
<1>1. PICK out \in Seq(Answers) : x = [z EXCEPT !.out = out] /\ out \in {z.out, Append(z.out, m)}
  BY DEF Sent
<1>2. /\ x \in Servers /\ Kept(z, x) /\ x.run = z.run /\ x.last = z.last /\ x.done = z.done
      /\ x.chosen = z.chosen /\ x.next = None /\ x.told = None /\ x.out = out
  BY <1>1 DEF Servers, Machines, Kept, Quiet
<1>3. out = <<>> \/ out = Append(<<>>, m)
  BY <1>1 DEF Quiet
<1>4. \A i \in DOMAIN out : out[i] = m
  <2>1. CASE out = <<>>
    BY <2>1
  <2>2. CASE out = Append(<<>>, m)
    BY <2>2
  <2> QED BY <1>3, <2>1, <2>2
<1> QED BY <1>2, <1>4

\* A last word of m_LastEvent, and nothing else.
Updated(x, v, y) == /\ Kept(x, y) /\ y.run = x.run /\ y.last = v /\ y.done = x.done
                    /\ y.chosen = x.chosen /\ y.next = x.next /\ y.told = x.told
                    /\ y.out = x.out

\* Update() is that.
LEMMA UpdateIs ==
  ASSUME NEW x \in Servers, NEW v \in {"SUCCESS", "CONTINUE", "FAILED"}
  PROVE  Update(x, v) \in Servers /\ Updated(x, v, Update(x, v))
BY DEF Update, Updated, Servers, Machines, Kept

\* The answer of a state and the last event of the session below.
LEMMA ServerAnswersIs ==
  ASSUME NEW z \in Servers, Quiet(z), f \in Config,
         NEW do \in {"AnswerInvalid", "AnswerContinue", "AnswerSuccess", "AnswerFailure",
                     "AnswerUnauthorized"}
  PROVE  ServerDid(z, ServerAnswers(f, z, do), do)
<1>0. z.pay \in Pay /\ None \in Pay /\ z.next = None /\ z.told = None /\ z.out = <<>>
  BY DEF Servers, Machines, Pay, Quiet
<1>1. CASE do = "AnswerContinue" /\ f.kind = "nasreq"
  <2>1. PICK x : x = Stop(z)
    OBVIOUS
  <2>2. x = ServerAnswers(f, z, do)
    BY <1>1, <2>1 DEF ServerAnswers
  <2>3. /\ x \in Servers /\ Kept(z, x) /\ x.done = z.done /\ x.chosen = z.chosen
        /\ x.next = None /\ x.told = None /\ x.out = <<>>
    BY <1>0, <2>1 DEF Stop, Servers, Machines, Kept
  <2>4. ServerDid(z, x, do)
    BY <1>1, <2>3 DEF ServerDid, Kept
  <2> QED BY <2>2, <2>4
<1>2. ASSUME NEW m \in Answers, NEW v \in {"SUCCESS", "CONTINUE", "FAILED"}, NEW y, NEW x,
             \/ Sent(z, m, y, Answers) /\ x = Update(y, v)
             \/ y = Update(z, v) /\ Sent(y, m, x, Answers),
             m.res = "SUCCESS" => do = "AnswerSuccess"
      PROVE  ServerDid(z, x, do)
  <2>1. CASE Sent(z, m, y, Answers) /\ x = Update(y, v)
    <3>1. /\ y \in Servers /\ Kept(z, y) /\ y.run = z.run /\ y.last = z.last /\ y.done = z.done
          /\ y.chosen = z.chosen /\ y.next = None /\ y.told = None
          /\ \A i \in DOMAIN y.out : y.out[i] = m
      BY <2>1, ServerSendIs
    <3>2. x \in Servers /\ Updated(y, v, x)
      BY <2>1, <3>1, UpdateIs
    <3> QED BY <1>2, <3>1, <3>2 DEF ServerDid, Kept, Updated
  <2>2. CASE y = Update(z, v) /\ Sent(y, m, x, Answers)
    <3>1. y \in Servers /\ Updated(z, v, y)
      BY <2>2, UpdateIs
    <3>2. Quiet(y)
      BY <3>1 DEF Quiet, Updated
    <3>3. /\ x \in Servers /\ Kept(y, x) /\ x.run = y.run /\ x.last = y.last /\ x.done = y.done
          /\ x.chosen = y.chosen /\ x.next = None /\ x.told = None
          /\ \A i \in DOMAIN x.out : x.out[i] = m
      BY <2>2, <3>1, <3>2, ServerSendIs
    <3> QED BY <1>2, <3>1, <3>3 DEF ServerDid, Kept, Updated
  <2> QED BY <1>2, <2>1, <2>2
<1>3. ASSUME NEW res \in {"SUCCESS", "MULTI_ROUND", "AUTHENTICATION_REJECTED",
                          "AUTHORIZATION_REJECTED", "INVALID_AVP_VALUE"}, NEW p \in Pay
      PROVE  Answer(res, p) \in Answers /\ Answer(res, p).res = res
  BY DEF Answer, Answers
<1>4. ASSUME NEW y \in Servers, NEW m \in Answers PROVE Sent(y, m, Send(y, m), Answers)
  BY SendIs DEF Servers
<1>5. CASE do = "AnswerContinue" /\ f.kind # "nasreq"
  <2>1. PICK m : m = Answer("MULTI_ROUND", z.pay)
    OBVIOUS
  <2>2. m \in Answers /\ m.res = "MULTI_ROUND"
    BY <1>0, <1>3, <2>1
  <2>3. ServerAnswers(f, z, do) = Update(Send(z, m), "CONTINUE")
    BY <1>5, <2>1 DEF ServerAnswers
  <2> QED BY <1>2, <1>4, <2>2, <2>3
<1>6. CASE do = "AnswerSuccess"
  <2>1. PICK m : m = Answer("SUCCESS", z.pay)
    OBVIOUS
  <2>2. m \in Answers /\ m.res = "SUCCESS"
    BY <1>0, <1>3, <2>1
  <2>3. ServerAnswers(f, z, do) = Update(Send(z, m), "SUCCESS")
    BY <1>6, <2>1 DEF ServerAnswers
  <2> QED BY <1>2, <1>4, <1>6, <2>2, <2>3
<1>7. CASE do = "AnswerFailure"
  <2>1. PICK m : m = Answer("AUTHENTICATION_REJECTED", z.pay)
    OBVIOUS
  <2>2. m \in Answers /\ m.res = "AUTHENTICATION_REJECTED"
    BY <1>0, <1>3, <2>1
  <2>3. ServerAnswers(f, z, do) = Update(Send(z, m), "FAILED")
    BY <1>7, <2>1 DEF ServerAnswers
  <2> QED BY <1>2, <1>4, <2>2, <2>3
<1>8. CASE do = "AnswerUnauthorized"
  <2>1. PICK m : m = Answer("AUTHORIZATION_REJECTED", None)
    OBVIOUS
  <2>2. m \in Answers /\ m.res = "AUTHORIZATION_REJECTED"
    BY <1>0, <1>3, <2>1
  <2>3. ServerAnswers(f, z, do) = Update(Send(z, m), "FAILED")
    BY <1>8, <2>1 DEF ServerAnswers
  <2> QED BY <1>2, <1>4, <2>2, <2>3
<1>9. CASE do = "AnswerInvalid"
  <2>1. PICK m, y : m = Answer("INVALID_AVP_VALUE", z.pay) /\ y = Update(z, "CONTINUE")
    OBVIOUS
  <2>2. m \in Answers /\ m.res = "INVALID_AVP_VALUE" /\ y \in Servers
    BY <1>0, <1>3, <2>1, UpdateIs
  <2>3. y.pay = z.pay
    BY <2>1 DEF Update, Servers, Machines
  <2>4. ServerAnswers(f, z, do) = Send(y, m)
    BY <1>9, <2>1, <2>3 DEF ServerAnswers
  <2> QED BY <1>2, <1>4, <2>1, <2>2, <2>4
<1> QED BY <1>1, <1>5, <1>6, <1>7, <1>8, <1>9

\* Each action of the server.
LEMMA ServerDoIs ==
  ASSUME NEW z \in Servers, Quiet(z), NEW do, NEW x \in ServerDo(f, z, do), f \in Config,
         do \in {"CheckRequest", "Forward", "Authorize", "AnswerInvalid", "AnswerContinue",
                 "AnswerSuccess", "AnswerFailure", "AnswerUnauthorized", "nothing"},
         do = "Forward" => z.msg # None
  PROVE  ServerDid(z, x, do)
<1>0. /\ z.next = None /\ z.told = None /\ z.out = <<>> /\ z.msg \in Requests \cup {None}
      /\ f.only \in BOOLEAN /\ None \in Pay
  BY DEF Servers, Machines, Quiet, Config, Pay
<1>1. CASE do = "nothing"
  <2>1. x = z
    BY <1>1 DEF ServerDo
  <2> QED BY <1>0, <1>1, <2>1 DEF ServerDid
<1>2. CASE do = "CheckRequest"
  <2>1. PICK ok : ok = IF f.kind = "nasreq" THEN CheckAA_Request(f, z) ELSE CheckDER(f)
    OBVIOUS
  <2>2. x = IF ok THEN Raise([z EXCEPT !.chosen = f.kind = "nasreq"], "Valid")
            ELSE Raise(z, "Invalid")
    BY <1>2, <2>1 DEF ServerDo
  <2>3. CASE ok
    <3>1. PICK chosen \in BOOLEAN : chosen = (f.kind = "nasreq")
      OBVIOUS
    <3>2. x = [[z EXCEPT !.chosen = chosen] EXCEPT !.next = "Valid"]
      BY <2>2, <2>3, <3>1 DEF Raise
    <3>3. /\ x \in Servers /\ x.st = z.st /\ x.hand = z.hand /\ x.msg = z.msg /\ x.low = z.low
          /\ x.ret = z.ret /\ x.done = z.done /\ x.out = z.out /\ x.told = None /\ x.q = z.q
          /\ x.next = "Valid" /\ x.chosen = chosen
      BY <1>0, <3>2 DEF Servers, Machines, Event
    <3>4. f.kind = "nasreq" => x.chosen /\ ~z.chosen
      BY <2>1, <2>3, <3>1, <3>3 DEF CheckAA_Request
    <3> QED BY <1>0, <1>2, <3>3, <3>4 DEF ServerDid
  <2>4. CASE ~ok
    <3>1. x = [z EXCEPT !.next = "Invalid"]
      BY <2>2, <2>4 DEF Raise
    <3>2. /\ x \in Servers /\ x.st = z.st /\ x.hand = z.hand /\ x.msg = z.msg /\ x.low = z.low
          /\ x.ret = z.ret /\ x.done = z.done /\ x.out = z.out /\ x.told = None /\ x.q = z.q
          /\ x.next = "Invalid" /\ x.chosen = z.chosen
      BY <1>0, <3>1 DEF Servers, Machines, Event
    <3> QED BY <1>0, <1>2, <3>2 DEF ServerDid
  <2> QED BY <2>3, <2>4
<1>3. CASE do = "Authorize"
  <2>1. x \in Authorize(f, z)
    BY <1>3 DEF ServerDo
  <2>2. CASE x = Raise([z EXCEPT !.done = @ \/ ~f.only], "AuthorizationSuccess")
    <3>1. PICK done \in BOOLEAN : done = (z.done \/ ~f.only)
      OBVIOUS
    <3>2. x = [[z EXCEPT !.done = done] EXCEPT !.next = "AuthorizationSuccess"]
      BY <2>2, <3>1 DEF Raise, Servers, Machines
    <3>3. /\ x \in Servers /\ x.st = z.st /\ x.hand = z.hand /\ x.msg = z.msg /\ x.low = z.low
          /\ x.ret = z.ret /\ x.done = done /\ x.out = z.out /\ x.told = None /\ x.q = z.q
          /\ x.next = "AuthorizationSuccess" /\ x.chosen = z.chosen
      BY <1>0, <3>2 DEF Servers, Machines, Event
    <3>4. (z.done => x.done) /\ (x.done \/ f.only)
      BY <3>1, <3>3
    <3> QED BY <1>0, <1>3, <3>3, <3>4 DEF ServerDid
  <2>3. CASE x = Raise(z, "AuthorizationFailure")
    <3>1. x = [z EXCEPT !.next = "AuthorizationFailure"]
      BY <2>3 DEF Raise
    <3>2. /\ x \in Servers /\ x.st = z.st /\ x.hand = z.hand /\ x.msg = z.msg /\ x.low = z.low
          /\ x.ret = z.ret /\ x.done = z.done /\ x.out = z.out /\ x.told = None /\ x.q = z.q
          /\ x.next = "AuthorizationFailure" /\ x.chosen = z.chosen
      BY <1>0, <3>1 DEF Servers, Machines, Event
    <3> QED BY <1>0, <1>3, <3>2 DEF ServerDid
  <2> QED BY <2>1, <2>2, <2>3 DEF Authorize
<1>4. CASE do = "Forward" /\ f.kind # "nasreq"
  <2>1. PICK what : what = <<"response", z.msg.pay>>
    OBVIOUS
  <2>2. what \in Calls /\ what # None /\ what[1] = "response"
    BY <1>0, <1>4, <2>1, NoneIs DEF Calls, Requests
  <2>3. x = [z EXCEPT !.told = what]
    BY <1>4, <2>1 DEF ServerDo, Forwards, Tell
  <2>4. /\ x \in Servers /\ x.st = z.st /\ x.hand = z.hand /\ x.msg = z.msg /\ x.low = z.low
        /\ x.ret = z.ret /\ x.done = z.done /\ x.out = z.out /\ x.told = what /\ x.q = z.q
        /\ x.next = None /\ x.chosen = z.chosen
    BY <1>0, <2>2, <2>3 DEF Servers, Machines
  <2> QED BY <1>0, <1>4, <2>2, <2>4 DEF ServerDid
<1>5. CASE do = "Forward" /\ f.kind = "nasreq"
  <2>1. PICK v \in Verdict : x = Notify(Tell(z, <<v, None>>), Judged(v))
    <3>1. \/ x = Notify(Tell(z, <<"success", None>>), "BackendSuccess")
          \/ x = Notify(Tell(z, <<"failure", None>>), "BackendFailure")
      BY <1>5 DEF ServerDo, Forwards
    <3> QED BY <3>1 DEF Verdict, Judged
  <2>2. PICK what, e : what = <<v, None>> /\ e = Judged(v)
    OBVIOUS
  <2>3. what \in Calls /\ what # None /\ what[1] = v /\ e \in Event
    BY <1>0, <2>2, NoneIs DEF Calls, Judged, Event
  <2>4. PICK w : w = [z EXCEPT !.told = what]
    OBVIOUS
  <2>5. PICK q : q = Append(z.q, e)
    OBVIOUS
  <2>6. z.q \in Seq(Event)
    BY DEF Servers, Machines
  <2>7. q \in Seq(Event) /\ \A d : In(q, d) <=> In(z.q, d) \/ d = e
    BY <2>3, <2>5, <2>6, AppendIn
  <2>8. x = [w EXCEPT !.q = q]
    BY <2>1, <2>2, <2>4, <2>5 DEF Notify, Tell, Servers, Machines
  <2>9. /\ x \in Servers /\ x.st = z.st /\ x.hand = z.hand /\ x.msg = z.msg /\ x.low = z.low
        /\ x.ret = z.ret /\ x.done = z.done /\ x.out = z.out /\ x.told = what /\ x.q = q
        /\ x.next = None /\ x.chosen = z.chosen
    BY <1>0, <2>3, <2>4, <2>7, <2>8 DEF Servers, Machines
  <2>10. x.told[1] = v /\ x.told # None
    BY <2>3, <2>9
  <2>11. OneMore(z.q, x.q, Judged(x.told[1]))
    BY <2>2, <2>7, <2>9, <2>10 DEF OneMore
  <2> QED BY <1>0, <1>5, <2>9, <2>10, <2>11 DEF ServerDid
<1>6. CASE do \in {"AnswerInvalid", "AnswerContinue", "AnswerSuccess", "AnswerFailure",
                   "AnswerUnauthorized"}
  <2>1. x = ServerAnswers(f, z, do)
    BY <1>6 DEF ServerDo
  <2> QED BY <1>6, <2>1, ServerAnswersIs
<1> QED BY <1>1, <1>2, <1>3, <1>4, <1>5, <1>6

\* A thread of the server fires the event it has at i.
ServerFires(i, z, do, x) ==
  /\ i \in 1..Len(s.hand) /\ z \in Servers /\ Quiet(z)
  /\ z.hand = Without(s.hand, i) /\ z.q = s.q /\ z.msg = s.msg /\ z.low = s.low
  /\ z.done = s.done /\ z.chosen = s.chosen
  /\ \/ do = "nothing" /\ z.st = s.st
     \/ \E r : /\ ServerRowIs(r) /\ r[3] = z.st /\ r[4] = do /\ r[2] \in {s.hand[i], "*"}
  /\ ServerDid(z, x, do)

\* Every step of such a thread is one.
LEMMA ServerServesIs ==
  ASSUME TypeOK, ServerServes, s.st = "CheckRequest" => s.msg # None
  PROVE  \E i, z, do, x : /\ ServerFires(i, z, do, x)
                          /\ s' = Settled(Raised(x)) /\ toC' = toC \o x.out
                          /\ IF x.told = None THEN UNCHANGED <<backend, verdict>>
                             ELSE Handed(x.told)
<1>0. s \in Servers /\ Quiet(s) /\ s.hand \in Seq(Event) /\ f \in Config /\ f.kind \in Kinds
  BY DEF TypeOK, Servers, Machines, Config
<1>1. PICK i \in 1..Len(s.hand) :
        LET fired == Fire(s, ServerTable[f.kind], i) IN
        \E x \in ServerDo(f, fired.x, fired.do) :
          /\ s' = Settled(Raised(x)) /\ toC' = toC \o x.out
          /\ IF x.told = None THEN UNCHANGED <<backend, verdict>> ELSE Handed(x.told)
  BY DEF ServerServes
<1>2. PICK z, do : /\ z = Fire(s, ServerTable[f.kind], i).x
                   /\ do = Fire(s, ServerTable[f.kind], i).do
  OBVIOUS
<1>3. PICK x \in ServerDo(f, z, do) :
          /\ s' = Settled(Raised(x)) /\ toC' = toC \o x.out
          /\ IF x.told = None THEN UNCHANGED <<backend, verdict>> ELSE Handed(x.told)
  BY <1>1, <1>2
<1>4. PICK h, ev, st, row : /\ h = Without(s.hand, i) /\ ev = s.hand[i] /\ st = s.st
                            /\ row = Row(ServerTable[f.kind], st, ev)
  OBVIOUS
<1>5. h \in Seq(Event) /\ ev \in Event
  BY <1>0, <1>4, WithoutIn
<1>6. CASE ~s.run \/ row = None
  <2>1. z = [s EXCEPT !.hand = h] /\ do = "nothing"
    BY <1>0, <1>2, <1>4, <1>6 DEF Fire, Servers, Machines
  <2>2. z \in Servers /\ Quiet(z)
    BY <1>0, <1>5, <2>1 DEF Servers, Machines, Quiet
  <2>3. /\ z.hand = h /\ z.q = s.q /\ z.msg = s.msg /\ z.low = s.low /\ z.st = s.st
        /\ z.done = s.done /\ z.chosen = s.chosen
    BY <1>0, <1>5, <2>1 DEF Servers, Machines
  <2>4. ServerDid(z, x, do)
    BY <1>0, <1>3, <2>1, <2>2, ServerDoIs
  <2>5. ServerFires(i, z, do, x)
    BY <1>4, <2>1, <2>2, <2>3, <2>4 DEF ServerFires
  <2> QED BY <1>3, <2>5
<1>7. CASE s.run /\ row # None
  <2>1. RowFound(row, ServerRowsOf(f.kind), st, ev)
    BY <1>0, <1>4, <1>7, RowIsFound, TablesOf
  <2>2. /\ row \in ServerRowsOf(f.kind) /\ row[1] = st /\ row[2] \in {ev, "*"}
    BY <2>1 DEF RowFound, RowFor
  <2>3. ServerRowIs(row)
    BY <1>0, <2>2, ServerRowsAre
  <2>4. PICK to : to = row[3] /\ to \in State
    BY <2>3 DEF ServerRowIs
  <2>5. z = [s EXCEPT !.hand = h, !.st = to] /\ do = row[4]
    BY <1>0, <1>2, <1>4, <1>7, <2>4 DEF Fire, Servers, Machines
  <2>6. z \in Servers /\ Quiet(z)
    BY <1>0, <1>5, <2>4, <2>5 DEF Servers, Machines, Quiet
  <2>7. /\ z.hand = h /\ z.q = s.q /\ z.msg = s.msg /\ z.low = s.low /\ z.st = to
        /\ z.done = s.done /\ z.chosen = s.chosen
    BY <1>0, <1>5, <2>4, <2>5 DEF Servers, Machines
  <2>8. do \in {"CheckRequest", "Forward", "Authorize", "AnswerInvalid", "AnswerContinue",
                "AnswerSuccess", "AnswerFailure", "AnswerUnauthorized", "nothing"}
    BY <2>3, <2>5 DEF ServerRowIs
  <2>9. do = "Forward" => z.msg # None
    BY <1>4, <2>2, <2>3, <2>5, <2>7 DEF ServerRowIs
  <2>10. ServerDid(z, x, do)
    BY <1>0, <1>3, <2>6, <2>8, <2>9, ServerDoIs
  <2>11. \E r : ServerRowIs(r) /\ r[3] = z.st /\ r[4] = do /\ r[2] \in {s.hand[i], "*"}
    BY <1>4, <2>2, <2>3, <2>4, <2>5, <2>7
  <2>12. ServerFires(i, z, do, x)
    BY <1>4, <2>6, <2>7, <2>10, <2>11 DEF ServerFires
  <2> QED BY <1>3, <2>12
<1> QED BY <1>6, <1>7

\* What one thread of the server does, field by field.
LEMMA ServerFired ==
  ASSUME TypeOK, NEW i, NEW z, NEW do, NEW x, ServerFires(i, z, do, x), s' = Settled(Raised(x))
  PROVE  /\ s' \in Servers /\ Quiet(s') /\ s'.q = x.q /\ s'.msg = s.msg /\ s'.st = z.st
         /\ s'.done = x.done /\ s'.chosen = x.chosen
         /\ HandAfter(s.hand, s'.hand, i, x.next)
         /\ s.hand[i] \in Event /\ In(s.hand, s.hand[i])
<1>1. x \in Servers /\ i \in 1..Len(s.hand) /\ s.hand \in Seq(Event)
  BY DEF ServerFires, ServerDid, TypeOK, Servers, Machines
<1>2. x.next \in Event \cup {None} /\ x.hand = Without(s.hand, i)
  BY <1>1 DEF ServerFires, ServerDid, Servers, Machines
<1>3. PICK y : y = Settled(Raised(x))
  OBVIOUS
<1>4. /\ y \in Servers /\ Quiet(y)
      /\ y.hand = IF x.next = None THEN x.hand ELSE Append(x.hand, x.next)
      /\ y.st = x.st /\ y.q = x.q /\ y.msg = x.msg /\ y.done = x.done /\ y.chosen = x.chosen
  BY <1>1, <1>3, SettledIs DEF Servers
<1>5. HandAfter(s.hand, y.hand, i, x.next)
  BY <1>1, <1>2, <1>4, HandIs
<1>6. s' = y
  BY <1>3
<1>7. s.hand[i] \in Event /\ In(s.hand, s.hand[i])
  BY <1>1 DEF In
<1> QED BY <1>1, <1>4, <1>5, <1>6, <1>7 DEF ServerFires, ServerDid

----------------------------------------------------------------------------
(* The invariant of the verdict.                                           *)

\* The authenticator has judged so and the server has authorized the user.
Granted == verdict = "success" /\ (s.done \/ f.only)

\* The server checks, and hands on, requests it has.
ServerMsg == Waits(s, "RxRequest") \/ s.st = "CheckRequest" => s.msg # None

\* The authenticator judges once: that of EAP stops, and that of NASREQ is asked only for
\* the first request, before which authenticationInfo is not set.
JudgeInv ==
  /\ backend.on => ~backend.fresh
  /\ f.kind = "eap" /\ (backend.fresh \/ backend.on) => verdict = None
  /\ f.kind = "nasreq" => /\ backend.fresh
                          /\ ~s.chosen \/ In(s.hand, "Valid") => verdict = None
                          /\ ~s.chosen => ~In(s.hand, "Valid")
                          /\ One(s.hand, {"Valid"})
  /\ Waits(s, "BackendSuccess") => verdict = "success"
  /\ ~In(s.q, "Valid")

\* A success among the messages under way.
SuccessIn(q) == \E m \in Answers : m.res = "SUCCESS" /\ In(q, m)

\* What grants the access on its way from the server to the user: the event, the answer,
\* the message that was parsed, the result code.
GrantInv ==
  /\ ~In(s.q, "AuthorizationSuccess")
  /\ In(s.hand, "AuthorizationSuccess") => Granted
  /\ SuccessIn(toC) => Granted
  /\ c.msg # None /\ c.msg.res = "SUCCESS" => Granted
  /\ In(c.hand, "Success") => Granted
  /\ access => Granted

VerdictInv == f.kind # "daemon" => JudgeInv /\ GrantInv

\* What the two parts of it read.
JudgeState == <<f, s, backend, verdict>>

\* A step of the client's side keeps what the server has judged.
LEMMA JudgeStutters ==
  ASSUME UNCHANGED JudgeState
  PROVE  (JudgeInv => JudgeInv') /\ (ServerMsg => ServerMsg') /\ (Granted => Granted')
BY DEF JudgeInv, ServerMsg, Granted, JudgeState, Waits, In, One

\* A step that leaves the messages of the server alone, and what the client has of them.
LEMMA GrantStutters ==
  ASSUME UNCHANGED <<f, c, access, toC>>, Granted => Granted', GrantInv,
         In(s'.q, "AuthorizationSuccess") => In(s.q, "AuthorizationSuccess"),
         In(s'.hand, "AuthorizationSuccess")
           => In(s.hand, "AuthorizationSuccess") \/ In(s.q, "AuthorizationSuccess")
  PROVE  GrantInv'
<1>1. SuccessIn(toC)' <=> SuccessIn(toC)
  BY DEF SuccessIn, In
<1>2. In(c.hand, "Success")' <=> In(c.hand, "Success")
  BY DEF In
<1> QED BY <1>1, <1>2 DEF GrantInv, In

\* The messages under way.
LEMMA SuccessIs ==
  ASSUME NEW q \in Seq(Answers)
  PROVE  /\ q # <<>> => /\ SuccessIn(Tail(q)) => SuccessIn(q)
                        /\ Head(q).res = "SUCCESS" => SuccessIn(q)
         /\ \A r \in Seq(Answers) : SuccessIn(q \o r) => SuccessIn(q) \/ SuccessIn(r)
<1>1. ASSUME q # <<>>
      PROVE  /\ SuccessIn(Tail(q)) => SuccessIn(q)
             /\ Head(q).res = "SUCCESS" => SuccessIn(q)
  <2>1. Head(q) \in Answers /\ \A e : In(q, e) <=> In(Tail(q), e) \/ e = Head(q)
    BY <1>1, TailIn
  <2> QED BY <2>1 DEF SuccessIn
<1>2. ASSUME NEW r \in Seq(Answers) PROVE SuccessIn(q \o r) => SuccessIn(q) \/ SuccessIn(r)
  <2>1. \A e : In(q \o r, e) <=> In(q, e) \/ In(r, e)
    BY <1>2, ConcatIn
  <2> QED BY <2>1 DEF SuccessIn
<1> QED BY <1>1, <1>2

\* The client grants nothing that the server has not.
LEMMA GrantFollows ==
  ASSUME UNCHANGED JudgeState, VerdictInv,
         SuccessIn(toC)' => SuccessIn(toC),
         c'.msg # None /\ c'.msg.res = "SUCCESS"
           => SuccessIn(toC) \/ (c.msg # None /\ c.msg.res = "SUCCESS"),
         In(c'.hand, "Success")
           => In(c.hand, "Success") \/ (c.msg # None /\ c.msg.res = "SUCCESS"),
         access' => access \/ In(c.hand, "Success")
  PROVE  VerdictInv'
<1>1. SUFFICES ASSUME f.kind # "daemon" PROVE JudgeInv' /\ GrantInv'
  BY DEF VerdictInv, JudgeState
<1>2. JudgeInv /\ GrantInv
  BY <1>1 DEF VerdictInv
<1>3. JudgeInv' /\ (Granted => Granted')
  BY <1>2, JudgeStutters
<1>4. s' = s
  BY DEF JudgeState
<1>5. In(s.q, "AuthorizationSuccess")' = In(s.q, "AuthorizationSuccess")
      /\ In(s.hand, "AuthorizationSuccess")' = In(s.hand, "AuthorizationSuccess")
      /\ In(c.hand, "Success")' = In(c'.hand, "Success")
  BY <1>4 DEF In
<1> QED BY <1>2, <1>3, <1>5 DEF GrantInv

\* A thread of the client that fires lets in only for a result code of success, which
\* comes from an answer of success.
LEMMA ClientServesGrants ==
  ASSUME TypeOK, ClientInv, VerdictInv, ClientServes
  PROVE  VerdictInv'
<1>1. PICK i, z, do, x : /\ ClientFires(i, z, do, x)
                         /\ c' = Settled(Raised(x)) /\ toS' = toS \o x.out
                         /\ IF x.told = None THEN UNCHANGED <<user, access>> ELSE Told(x.told)
  BY ClientServesIs DEF ClientInv, LowInv
<1>2. UNCHANGED <<f, s, backend, verdict, toC>>
  BY DEF ClientServes
<1>3. PICK d, next, e, what : d = c' /\ next = x.next /\ e = c.hand[i] /\ what = x.told
  OBVIOUS
<1>4. /\ d.msg = c.msg /\ HandAfter(c.hand, d.hand, i, next) /\ e \in Event /\ In(c.hand, e)
  BY <1>1, <1>3, ClientFired
<1>5. ClientMoved(c.st, z.st, do, e)
  BY <1>1, <1>3, <1>4, ClientMoves
<1>6. /\ do = "CheckResultCode" /\ next = "Success" => c.msg.res = "SUCCESS"
      /\ do \notin {"CheckResultCode", "SendRequest"} => next = None
      /\ do = "SendRequest" => next \in {None, "Disconnect"}
      /\ do \in Silent <=> what = None
      /\ do = "AccessReject"   => what[1] = "failure"
      /\ do = "Continue"       => what[1] = "continue"
      /\ do = "Reauthenticate" => what[1] = "reauthenticate"
      /\ do = "Disconnect"     => what[1] = "disconnect"
      /\ do \in Silent \cup Verdicts \cup {"Continue", "Reauthenticate", "Disconnect"}
  BY <1>1, <1>3 DEF ClientFires, ClientDid, ClientRowIs, Silent, Verdicts
<1>7. In(d.hand, "Success") => In(c.hand, "Success") \/ (c.msg # None /\ c.msg.res = "SUCCESS")
  <2>1. SUFFICES ASSUME In(d.hand, "Success"), ~In(c.hand, "Success")
                 PROVE  c.msg # None /\ c.msg.res = "SUCCESS"
    OBVIOUS
  <2>2. next # None /\ next = "Success"
    BY <1>4, <2>1 DEF HandAfter
  <2>3. do = "CheckResultCode"
    BY <1>6, <2>2
  <2>4. Waits(c, "RxAnswer")
    BY <1>4, <1>5, <2>3 DEF ClientMoved, Waits
  <2> QED BY <1>6, <2>2, <2>3, <2>4 DEF ClientInv, LowInv
<1>8. access' => access \/ In(c.hand, "Success")
  <2>1. CASE what = None
    BY <1>1, <1>3, <2>1
  <2>2. CASE what # None
    <3>1. access' = (what[1] = "success" \/ (access /\ what[1] \notin {"failure", "disconnect"}))
      BY <1>1, <1>3, <2>2 DEF Told
    <3>2. what[1] = "success" => do = "AccessAccept"
      BY <1>6, <2>2 DEF Silent, Verdicts
    <3> QED BY <1>4, <1>5, <3>1, <3>2 DEF ClientMoved
  <2> QED BY <2>1, <2>2
<1>9. SuccessIn(toC)' => SuccessIn(toC)
  BY <1>2 DEF SuccessIn, In
<1> QED BY <1>2, <1>3, <1>4, <1>7, <1>8, <1>9, GrantFollows DEF JudgeState

\* The other steps of the client's side.
LEMMA ClientGrants ==
  ASSUME TypeOK, ClientInv, VerdictInv,
         UserAnswers \/ ClientTakes \/ ClientReceives \/ ClientReturns
  PROVE  VerdictInv'
<1>1. UNCHANGED <<f, s, access, backend, verdict>>
  BY DEF UserAnswers, ClientTakes, ClientReceives, ClientReturns
<1>2. c \in Machines(Answers, Requests) /\ Quiet(c) /\ NoneOf(c.q, Results)
  BY DEF TypeOK, Clients, ClientInv, LowInv
<1>3. CASE UserAnswers
  <2>1. PICK w : w = [c EXCEPT !.pay = user.n]
    OBVIOUS
  <2>2. w.hand = c.hand /\ w.msg = c.msg
    BY <1>2, <2>1 DEF Machines
  <2>3. c'.hand = w.hand /\ c'.msg = w.msg
    BY <1>2, <1>3, <2>1 DEF UserAnswers, Notify, Machines
  <2>4. SuccessIn(toC)' => SuccessIn(toC)
    BY <1>3 DEF UserAnswers, SuccessIn, In
  <2> QED BY <1>1, <2>2, <2>3, <2>4, GrantFollows DEF JudgeState
<1>4. CASE ClientTakes
  <2>1. Taken(c, c')
    BY <1>2, <1>4, TakesIs DEF ClientTakes
  <2>2. /\ In(c'.hand, "Success") => In(c.hand, "Success")
        /\ c'.msg = c.msg
    BY <1>2, <2>1, NoneOfIn DEF Taken, Results
  <2>3. SuccessIn(toC)' => SuccessIn(toC)
    BY <1>4 DEF ClientTakes, SuccessIn, In
  <2> QED BY <1>1, <2>2, <2>3, GrantFollows DEF JudgeState
<1>5. CASE ClientReceives
  <2>1. PICK m : m = Head(toC)
    OBVIOUS
  <2>2. toC \in Seq(Answers) /\ toC # <<>> /\ toC' = Tail(toC)
    BY <1>5 DEF ClientReceives, TypeOK
  <2>3. m \in Answers
    BY <2>1, <2>2, TailIn
  <2>4. SuccessIn(toC)' => SuccessIn(toC)
    BY <2>2, SuccessIs DEF SuccessIn, In
  <2>5. m.res = "SUCCESS" => SuccessIn(toC)
    BY <2>1, <2>2, SuccessIs
  <2>6. c'.hand = c.hand /\ (c'.msg = c.msg \/ c'.msg = m)
    <3>1. CASE ~Up(c)
      BY <1>5, <3>1 DEF ClientReceives, Arrives
    <3>2. CASE Up(c)
      <4>1. c' = Arrives(c, m, "RxAnswer") /\ "RxAnswer" \in Event
        BY <1>5, <2>1 DEF ClientReceives, Event
      <4>2. Arrived(c, m, "RxAnswer", c')
        BY <1>2, <2>3, <3>2, <4>1, ArrivesIs
      <4> QED BY <4>2 DEF Arrived, Queued
    <3> QED BY <3>1, <3>2
  <2> QED BY <1>1, <2>4, <2>5, <2>6, GrantFollows DEF JudgeState
<1>6. CASE ClientReturns
  <2>1. PICK w : w = Returned(c)
    OBVIOUS
  <2>2. w \in Machines(Answers, Requests) /\ Back(c, w)
    BY <1>2, <2>1, ReturnedIs
  <2>3. c' = w \/ c' = Notify(w, "Disconnect")
    BY <1>6, <2>1 DEF ClientReturns
  <2>4. c'.hand = c.hand /\ c'.msg = c.msg
    BY <2>2, <2>3 DEF Back, Notify, Machines
  <2>5. SuccessIn(toC)' => SuccessIn(toC)
    BY <1>6 DEF ClientReturns, SuccessIn, In
  <2> QED BY <1>1, <2>4, <2>5, GrantFollows DEF JudgeState
<1> QED BY <1>3, <1>4, <1>5, <1>6

----------------------------------------------------------------------------
(* The steps of the server's side.                                         *)

\* What the application of the server does when it is called back.
LEMMA HandedIs ==
  ASSUME TypeOK, NEW what \in Calls, what[1] \in Verdict \cup {"response"}, Handed(what)
  PROVE  /\ backend' \in [fresh : BOOLEAN, on : BOOLEAN, n : Nat, ask : Pay]
         /\ verdict' \in Verdict \cup {None}
         /\ what[1] \in Verdict => verdict' = what[1] /\ backend' = backend
         /\ what[1] = "response" => /\ verdict' = verdict /\ ~backend'.fresh
                                    /\ backend'.on => backend.fresh \/ backend.on
<1>1. what[2] \in Pay /\ backend \in [fresh : BOOLEAN, on : BOOLEAN, n : Nat, ask : Pay]
      /\ verdict \in Verdict \cup {None} /\ "response" \notin Verdict
  BY DEF Calls, TypeOK, Verdict
<1>2. CASE what[1] = "response"
  <2>1. /\ backend' = IF backend.fresh
                      THEN [fresh |-> FALSE, on |-> TRUE, n |-> 0, ask |-> what[2]]
                      ELSE IF backend.on THEN [backend EXCEPT !.ask = what[2]] ELSE backend
        /\ verdict' = verdict
    BY <1>2 DEF Handed
  <2> QED BY <1>1, <1>2, <2>1
<1>3. CASE what[1] \in Verdict
  <2>1. verdict' = what[1] /\ backend' = backend
    BY <1>1, <1>3 DEF Handed
  <2> QED BY <1>1, <1>3, <2>1
<1> QED BY <1>2, <1>3

\* A thread of the server that fires: what it grants was judged and authorized.
LEMMA ServerServesJudges ==
  ASSUME TypeOK, VerdictInv, f.kind # "daemon", UNCHANGED <<f, c, access>>,
         NEW i, NEW z, NEW do, NEW x, ServerFires(i, z, do, x),
         s' = Settled(Raised(x)), toC' = toC \o x.out,
         IF x.told = None THEN UNCHANGED <<backend, verdict>> ELSE Handed(x.told)
  PROVE  JudgeInv' /\ GrantInv'
<1>0. JudgeInv /\ GrantInv /\ f.kind \in {"eap", "nasreq"}
  BY DEF VerdictInv, TypeOK, Config, Kinds
<1>1. PICK d, next, e, what : d = s' /\ next = x.next /\ e = s.hand[i] /\ what = x.told
  OBVIOUS
<1>2. /\ d.q = x.q /\ d.done = x.done /\ d.chosen = x.chosen
      /\ HandAfter(s.hand, d.hand, i, next) /\ e \in Event /\ In(s.hand, e) /\ e = s.hand[i]
  BY <1>1, ServerFired
<1>3. z.done = s.done /\ z.chosen = s.chosen /\ z.q = s.q
  BY DEF ServerFires
<1>4. ServerDid(z, x, do)
  BY DEF ServerFires
\* Where the actions that matter come from.
<1>5. /\ do = "Forward" => e = "Valid"
      /\ do = "Authorize" => e = "BackendSuccess"
      /\ do = "AnswerSuccess" => e = "AuthorizationSuccess"
  <2>1. e # "*"
    BY <1>2 DEF Event, Results
  <2> QED BY <1>1, <2>1 DEF ServerFires, ServerRowIs
<1>6. do = "Forward" /\ f.kind = "nasreq" => /\ what[1] \in Verdict
                                             /\ OneMore(s.q, d.q, Judged(what[1]))
  BY <1>1, <1>2, <1>3, <1>4 DEF ServerDid
<1>7. /\ do # "Forward" => what = None /\ d.q = s.q
      /\ do = "Forward" => what # None
      /\ do = "Forward" /\ f.kind # "nasreq" => what[1] = "response" /\ d.q = s.q
      /\ do # "CheckRequest" => d.chosen = s.chosen
      /\ do \notin {"CheckRequest", "Authorize"} => next = None
      /\ s.done => d.done
      /\ do = "CheckRequest" => \/ next = "Invalid" /\ d.chosen = s.chosen
                                \/ /\ next = "Valid"
                                   /\ f.kind = "nasreq" => d.chosen /\ ~s.chosen
      /\ do = "Authorize" => \/ next = "AuthorizationSuccess" /\ (d.done \/ f.only)
                             \/ next = "AuthorizationFailure"
  BY <1>1, <1>2, <1>3, <1>4 DEF ServerDid
<1>8. what # None => what \in Calls /\ what[1] \in Verdict \cup {"response"} /\ Handed(what)
  <2>1. SUFFICES ASSUME what # None
                 PROVE  what \in Calls /\ what[1] \in Verdict \cup {"response"} /\ Handed(what)
    OBVIOUS
  <2>2. what \in Calls /\ Handed(what)
    BY <1>1, <1>4, <2>1 DEF ServerDid, Servers, Machines
  <2> QED BY <1>6, <1>7, <2>1, <2>2
<1>9. what = None => backend' = backend /\ verdict' = verdict
  BY <1>1
<1>10. what # None => /\ what[1] \in Verdict => verdict' = what[1] /\ backend' = backend
                      /\ what[1] = "response" => /\ verdict' = verdict /\ ~backend'.fresh
                                                 /\ backend'.on => backend.fresh \/ backend.on
  BY <1>8, HandedIs
<1>11. "response" \notin Verdict
  BY DEF Verdict
\* NASREQ: who is asked for a verdict has given none.
<1>12. do = "Forward" /\ f.kind = "nasreq" => verdict = None /\ ~Waits(s, "BackendSuccess") /\ s.chosen
  <2>1. SUFFICES ASSUME do = "Forward", f.kind = "nasreq"
                 PROVE  verdict = None /\ ~Waits(s, "BackendSuccess") /\ s.chosen
    OBVIOUS
  <2>2. In(s.hand, "Valid")
    BY <1>2, <1>5, <2>1
  <2>3. verdict = None /\ s.chosen
    BY <1>0, <2>1, <2>2 DEF JudgeInv
  <2>4. None # "success"
    BY NoneIs DEF Verdict
  <2> QED BY <1>0, <2>3, <2>4 DEF JudgeInv
<1>13. ~(do = "Forward" /\ f.kind = "nasreq") => verdict' = verdict
  BY <1>7, <1>9, <1>10
<1>14. Granted => Granted'
  <2>1. verdict = "success" => verdict' = "success"
    <3>1. None # "success"
      BY NoneIs DEF Verdict
    <3> QED BY <1>12, <1>13, <3>1
  <2> QED BY <1>1, <1>7, <2>1 DEF Granted
<1>15. /\ backend'.on => ~backend'.fresh
       /\ f.kind = "eap" /\ (backend'.fresh \/ backend'.on) => verdict' = None
  BY <1>0, <1>6, <1>7, <1>9, <1>10 DEF JudgeInv
<1>16. In(d.hand, "Valid") => In(s.hand, "Valid") \/ (do = "CheckRequest" /\ next = "Valid")
  <2>1. SUFFICES ASSUME In(d.hand, "Valid"), ~In(s.hand, "Valid")
                 PROVE  do = "CheckRequest" /\ next = "Valid"
    OBVIOUS
  <2>2. next # None /\ next = "Valid"
    BY <1>2, <2>1 DEF HandAfter
  <2> QED BY <1>7, <2>2
<1>17. f.kind = "nasreq" => /\ backend'.fresh
                            /\ ~d.chosen \/ In(d.hand, "Valid") => verdict' = None
                            /\ ~d.chosen => ~In(d.hand, "Valid")
                            /\ One(d.hand, {"Valid"})
  <2>1. SUFFICES ASSUME f.kind = "nasreq"
                 PROVE  /\ backend'.fresh
                        /\ ~d.chosen \/ In(d.hand, "Valid") => verdict' = None
                        /\ ~d.chosen => ~In(d.hand, "Valid")
                        /\ One(d.hand, {"Valid"})
    OBVIOUS
  <2>2. /\ backend.fresh
        /\ ~s.chosen \/ In(s.hand, "Valid") => verdict = None
        /\ ~s.chosen => ~In(s.hand, "Valid")
        /\ One(s.hand, {"Valid"})
    BY <1>0, <2>1 DEF JudgeInv
  <2>3. backend'.fresh
    BY <1>6, <1>7, <1>9, <1>10, <2>1, <2>2
  <2>4. CASE do = "Forward"
    <3>1. NoneOf(d.hand, {"Valid"}) /\ One(d.hand, {"Valid"})
      BY <1>2, <1>5, <1>7, <2>2, <2>4 DEF HandAfter
    <3>2. ~In(d.hand, "Valid") /\ d.chosen
      BY <1>7, <1>12, <2>1, <2>4, <3>1, NoneOfIn
    <3> QED BY <2>3, <3>1, <3>2
  <2>5. CASE do # "Forward"
    <3>1. verdict' = verdict
      BY <1>13, <2>5
    <3>2. CASE do = "CheckRequest" /\ next = "Valid"
      <4>1. d.chosen /\ ~s.chosen
        BY <1>7, <2>1, <3>2
      <4>2. NoneOf(s.hand, {"Valid"})
        BY <2>2, <4>1, NoneOfIn
      <4>3. One(d.hand, {"Valid"})
        BY <1>2, <4>2 DEF HandAfter
      <4> QED BY <2>2, <2>3, <3>1, <4>1, <4>3
    <3>3. CASE ~(do = "CheckRequest" /\ next = "Valid")
      <4>1. d.chosen = s.chosen /\ (In(d.hand, "Valid") => In(s.hand, "Valid"))
        BY <1>7, <1>16, <3>3
      <4>2. next = None \/ next \notin {"Valid"}
        BY <1>7, <3>3
      <4>3. One(d.hand, {"Valid"})
        BY <1>2, <2>2, <4>2 DEF HandAfter
      <4> QED BY <2>2, <2>3, <3>1, <4>1, <4>3
    <3> QED BY <3>2, <3>3
  <2> QED BY <2>4, <2>5
<1>18. /\ In(d.q, "BackendSuccess") => In(s.q, "BackendSuccess") \/ verdict' = "success"
       /\ In(d.q, "Valid") => In(s.q, "Valid")
       /\ In(d.q, "AuthorizationSuccess") => In(s.q, "AuthorizationSuccess")
  <2>1. CASE do = "Forward" /\ f.kind = "nasreq"
    <3>1. /\ what[1] \in Verdict /\ verdict' = what[1]
          /\ \A b : In(d.q, b) <=> In(s.q, b) \/ b = Judged(what[1])
      BY <1>6, <1>7, <1>10, <2>1 DEF OneMore
    <3> QED BY <3>1 DEF Judged, Verdict
  <2>2. CASE ~(do = "Forward" /\ f.kind = "nasreq")
    BY <1>7, <2>2
  <2> QED BY <2>1, <2>2
<1>19. In(d.hand, "BackendSuccess") => In(s.hand, "BackendSuccess")
  <2>1. next = None \/ next # "BackendSuccess"
    BY <1>7
  <2> QED BY <1>2, <2>1 DEF HandAfter
<1>20. Waits(d, "BackendSuccess") => verdict' = "success"
  BY <1>0, <1>12, <1>13, <1>18, <1>19 DEF JudgeInv, Waits
<1>21. JudgeInv'
  BY <1>0, <1>1, <1>15, <1>17, <1>18, <1>20 DEF JudgeInv
\* The event that grants, and the answer.
<1>22. In(d.hand, "AuthorizationSuccess") => Granted'
  <2>1. SUFFICES ASSUME In(d.hand, "AuthorizationSuccess"), ~In(s.hand, "AuthorizationSuccess")
                 PROVE  Granted'
    BY <1>0, <1>14 DEF GrantInv
  <2>2. next # None /\ next = "AuthorizationSuccess"
    BY <1>2, <2>1 DEF HandAfter
  <2>3. do = "Authorize" /\ (d.done \/ f.only)
    BY <1>7, <2>2
  <2>4. verdict' = "success"
    BY <1>0, <1>2, <1>5, <1>13, <2>3 DEF JudgeInv, Waits
  <2> QED BY <1>1, <2>3, <2>4 DEF Granted
<1>23. SuccessIn(toC') => Granted'
  <2>1. x.out \in Seq(Answers) /\ toC \in Seq(Answers)
    BY <1>4 DEF ServerDid, Servers, Machines, TypeOK
  <2>2. SuccessIn(toC') => SuccessIn(toC) \/ SuccessIn(x.out)
    BY <2>1, SuccessIs
  <2>3. SuccessIn(x.out) => do = "AnswerSuccess"
    BY <1>4 DEF SuccessIn, In, ServerDid
  <2>4. do = "AnswerSuccess" => Granted
    BY <1>0, <1>2, <1>5 DEF GrantInv
  <2> QED BY <1>0, <1>14, <2>2, <2>3, <2>4 DEF GrantInv
<1>24. SuccessIn(toC)' = SuccessIn(toC')
  BY DEF SuccessIn, In
<1>25. GrantInv'
  <2>1. In(c.hand, "Success")' => In(c.hand, "Success")
    BY DEF In
  <2>2. /\ In(s.hand, "AuthorizationSuccess")' => In(d.hand, "AuthorizationSuccess")
        /\ In(s.q, "AuthorizationSuccess")' => In(d.q, "AuthorizationSuccess")
    BY <1>1 DEF In
  <2> QED BY <1>0, <1>14, <1>18, <1>22, <1>23, <1>24, <2>1, <2>2 DEF GrantInv
<1> QED BY <1>21, <1>25

\* A step of the server's machine that takes or queues an event, none of them a verdict
\* of the authenticator, of the check of a request or of Authorize().
LEMMA ServerQueues ==
  ASSUME UNCHANGED <<f, c, access, toC, backend, verdict>>, VerdictInv,
         s'.done = s.done, s'.chosen = s.chosen,
         \A e \in {"Valid", "AuthorizationSuccess"} : In(s'.q, e) => In(s.q, e),
         \A e \in {"Valid", "AuthorizationSuccess"} : In(s'.hand, e) => In(s.hand, e) \/ In(s.q, e),
         Waits(s', "BackendSuccess") => Waits(s, "BackendSuccess"),
         NoneOf(s.q, {"Valid"}) /\ One(s.hand, {"Valid"}) => One(s'.hand, {"Valid"})
  PROVE  VerdictInv'
<1>1. SUFFICES ASSUME f.kind # "daemon" PROVE JudgeInv' /\ GrantInv'
  BY DEF VerdictInv
<1>2. JudgeInv /\ GrantInv
  BY <1>1 DEF VerdictInv
<1>3. PICK d : d = s'
  OBVIOUS
<1>4. NoneOf(s.q, {"Valid"})
  BY <1>2, NoneOfIn DEF JudgeInv
<1>5. In(d.hand, "Valid") => In(s.hand, "Valid")
  BY <1>2, <1>3 DEF JudgeInv
<1>6. JudgeInv'
  BY <1>2, <1>3, <1>4, <1>5 DEF JudgeInv
<1>7. Granted => Granted'
  BY DEF Granted
<1>8. GrantInv'
  BY <1>2, <1>7, GrantStutters
<1> QED BY <1>6, <1>8

\* A thread of the server fires an event.
LEMMA ServerServesKeeps ==
  ASSUME TypeOK, ServerMsg, VerdictInv, ServerServes
  PROVE  TypeOK' /\ ServerMsg' /\ VerdictInv'
<1>1. PICK i, z, do, x : /\ ServerFires(i, z, do, x)
                         /\ s' = Settled(Raised(x)) /\ toC' = toC \o x.out
                         /\ IF x.told = None THEN UNCHANGED <<backend, verdict>>
                            ELSE Handed(x.told)
  BY ServerServesIs DEF ServerMsg
<1>2. UNCHANGED <<f, c, user, access, toS, faults, calls, unheard>>
  BY DEF ServerServes
<1>3. PICK d, next, e, what : d = s' /\ next = x.next /\ e = s.hand[i] /\ what = x.told
  OBVIOUS
<1>4. /\ d \in Servers /\ Quiet(d) /\ d.q = x.q /\ d.msg = s.msg /\ d.st = z.st
      /\ HandAfter(s.hand, d.hand, i, next) /\ e \in Event /\ In(s.hand, e)
  BY <1>1, <1>3, ServerFired
<1>5. ServerDid(z, x, do) /\ z.q = s.q
  BY <1>1 DEF ServerFires
<1>6. /\ backend' \in [fresh : BOOLEAN, on : BOOLEAN, n : Nat, ask : Pay]
      /\ verdict' \in Verdict \cup {None}
  <2>1. CASE what = None
    BY <1>1, <1>3, <2>1 DEF TypeOK
  <2>2. CASE what # None
    <3>1. what \in Calls /\ Handed(what)
      BY <1>1, <1>3, <1>5, <2>2 DEF ServerDid, Servers, Machines
    <3>2. what[1] \in Verdict \cup {"response"}
      BY <1>3, <1>5, <2>2 DEF ServerDid
    <3> QED BY <3>1, <3>2, HandedIs
  <2> QED BY <2>1, <2>2
<1>7. toC' \in Seq(Answers)
  <2>1. x.out \in Seq(Answers) /\ toC \in Seq(Answers)
    BY <1>5 DEF ServerDid, Servers, Machines, TypeOK
  <2> QED BY <1>1, <2>1
<1>8. TypeOK'
  BY <1>2, <1>3, <1>4, <1>6, <1>7 DEF TypeOK, Quiet
<1>9. ServerMsg'
  <2>1. Waits(d, "RxRequest") => Waits(s, "RxRequest")
    <3>1. next = None \/ next # "RxRequest"
      BY <1>3, <1>5 DEF ServerDid
    <3>2. In(d.hand, "RxRequest") => In(s.hand, "RxRequest")
      BY <1>4, <3>1 DEF HandAfter
    <3>3. In(d.q, "RxRequest") => In(s.q, "RxRequest")
      <4>1. CASE do = "Forward" /\ f.kind = "nasreq"
        BY <1>3, <1>4, <1>5, <4>1 DEF ServerDid, OneMore, Judged
      <4>2. CASE ~(do = "Forward" /\ f.kind = "nasreq")
        BY <1>4, <1>5, <4>2 DEF ServerDid
      <4> QED BY <4>1, <4>2
    <3> QED BY <3>2, <3>3 DEF Waits
  <2>2. d.st = "CheckRequest" => s.st = "CheckRequest" \/ Waits(s, "RxRequest")
    <3>1. CASE do = "nothing" /\ z.st = s.st
      BY <1>4, <3>1
    <3>2. ASSUME NEW r, ServerRowIs(r), r[3] = z.st, r[4] = do, r[2] \in {e, "*"},
                 z.st = "CheckRequest"
          PROVE  Waits(s, "RxRequest")
      <4>1. e = "RxRequest"
        BY <3>2 DEF ServerRowIs
      <4> QED BY <1>4, <4>1 DEF Waits
    <3> QED BY <1>1, <1>3, <1>4, <3>1, <3>2 DEF ServerFires
  <2> QED BY <1>3, <1>4, <2>1, <2>2 DEF ServerMsg
<1>10. VerdictInv'
  <2>1. CASE f.kind = "daemon"
    BY <1>2, <2>1 DEF VerdictInv
  <2>2. CASE f.kind # "daemon"
    BY <1>1, <1>2, <2>2, ServerServesJudges DEF VerdictInv
  <2> QED BY <2>1, <2>2
<1> QED BY <1>8, <1>9, <1>10

\* The other steps of the server's machine and of the session below it.
LEMMA ServerKeeps ==
  ASSUME TypeOK, ServerMsg, VerdictInv, ServerTakes \/ ServerReceives \/ ServerReturns
  PROVE  TypeOK' /\ ServerMsg' /\ VerdictInv'
<1>0. s \in Machines(Requests, Answers) /\ Quiet(s)
  BY DEF TypeOK, Servers
<1>1. PICK d : d = s'
  OBVIOUS
<1>2. UNCHANGED <<f, c, user, access, backend, verdict, toC, faults, calls, unheard>>
  BY DEF ServerTakes, ServerReceives, ServerReturns
<1>3. CASE ServerTakes
  <2>1. d \in Servers /\ Quiet(d) /\ Taken(s, d)
    BY <1>0, <1>1, <1>3, TakesIs DEF ServerTakes, Servers
  <2>2. TypeOK'
    BY <1>1, <1>2, <1>3, <2>1 DEF TypeOK, Quiet, ServerTakes
  <2>3. ServerMsg'
    BY <1>1, <2>1 DEF Taken, Same, ServerMsg
  <2>4. VerdictInv'
    BY <1>1, <1>2, <2>1, ServerQueues DEF Taken, Same
  <2> QED BY <2>2, <2>3, <2>4
<1>4. CASE ServerReceives
  <2>1. PICK m : m = Head(toS)
    OBVIOUS
  <2>2. m \in Requests /\ toS' \in Seq(Requests) /\ m # None
    BY <1>4, <2>1, TailIn, NoneIs DEF ServerReceives, TypeOK
  <2>3. CASE ~Up(s)
    <3>1. s' = s
      BY <1>4, <2>3 DEF ServerReceives, Arrives
    <3>2. TypeOK'
      BY <1>2, <2>2, <3>1 DEF TypeOK, Quiet
    <3>3. VerdictInv' /\ ServerMsg'
      BY <1>2, <3>1, ServerQueues DEF ServerMsg, Waits, In
    <3> QED BY <3>2, <3>3
  <2>4. CASE Up(s)
    <3>1. d = Arrives(s, m, "RxRequest") /\ "RxRequest" \in Event
      BY <1>1, <1>4, <2>1 DEF ServerReceives, Event
    <3>2. d \in Servers /\ Arrived(s, m, "RxRequest", d)
      BY <1>0, <2>2, <2>4, <3>1, ArrivesIs DEF Servers
    <3>3. TypeOK'
      BY <1>1, <1>2, <2>2, <3>2 DEF TypeOK, Quiet, Arrived
    <3>4. ServerMsg'
      BY <1>1, <2>2, <3>2 DEF ServerMsg, Arrived
    <3>5. VerdictInv'
      BY <1>1, <1>2, <3>2, ServerQueues DEF Arrived, Queued, Same
    <3> QED BY <3>3, <3>4, <3>5
  <2> QED BY <2>3, <2>4
<1>5. CASE ServerReturns
  <2>1. d = Returned(s)
    BY <1>1, <1>5 DEF ServerReturns
  <2>2. d \in Servers /\ Back(s, d)
    BY <1>0, <2>1, ReturnedIs DEF Servers
  <2>3. TypeOK'
    BY <1>1, <1>2, <1>5, <2>2 DEF TypeOK, Quiet, Back, ServerReturns
  <2>4. ServerMsg'
    BY <1>1, <2>2 DEF ServerMsg, Back, Same, Waits
  <2>5. VerdictInv'
    BY <1>1, <1>2, <2>2, ServerQueues DEF Back, Same, Waits
  <2> QED BY <2>3, <2>4, <2>5
<1> QED BY <1>3, <1>4, <1>5

\* The authenticator signals an event to the server's machine.
LEMMA SignalsIs ==
  ASSUME TypeOK, NEW pay \in Pay, NEW e \in Event, Signals(pay, e)
  PROVE  /\ s' \in Servers /\ Quiet(s') /\ Queued(s, e, s') /\ s'.msg = s.msg
<1>1. PICK w : w = [s EXCEPT !.pay = pay]
  OBVIOUS
<1>2. /\ w \in Servers /\ Quiet(w) /\ Same(s, w) /\ w.q = s.q /\ w.hand = s.hand
      /\ w.msg = s.msg
  BY <1>1 DEF TypeOK, Servers, Machines, Quiet, Same
<1>3. PICK d : d = Notify(w, e)
  OBVIOUS
<1>4. d \in Servers /\ Quiet(d) /\ Queued(w, e, d) /\ d.msg = w.msg
  BY <1>2, <1>3, NotifyQueues DEF Servers
<1>5. Queued(s, e, d)
  BY <1>2, <1>4 DEF Queued, Same, Waits
<1>6. s' = d
  BY <1>1, <1>3 DEF Signals
<1> QED BY <1>2, <1>4, <1>5, <1>6

\* The authenticator asks for another response.
LEMMA BackendAsksKeeps ==
  ASSUME TypeOK, ServerMsg, VerdictInv, BackendAsks
  PROVE  TypeOK' /\ ServerMsg' /\ VerdictInv'
<1>1. PICK e, pay : /\ e = IF f.kind = "daemon" THEN "BackendSuccess" ELSE "BackendContinue"
                    /\ pay = backend.n + 1
  OBVIOUS
<1>2. /\ backend \in [fresh : BOOLEAN, on : BOOLEAN, n : Nat, ask : Pay]
      /\ None \in Pay /\ pay \in Pay /\ pay \in Nat /\ e \in Event /\ e # "RxRequest"
  BY <1>1 DEF TypeOK, Pay, Event
<1>3. /\ backend' = [backend EXCEPT !.n = @ + 1, !.ask = None] /\ Signals(pay, e)
      /\ UNCHANGED <<f, c, user, access, verdict, toS, toC, faults, calls, unheard>>
  BY <1>1 DEF BackendAsks
<1>4. s' \in Servers /\ Quiet(s') /\ Queued(s, e, s') /\ s'.msg = s.msg
  BY <1>2, <1>3, SignalsIs
<1>5. /\ backend' \in [fresh : BOOLEAN, on : BOOLEAN, n : Nat, ask : Pay]
      /\ backend'.fresh = backend.fresh /\ backend'.on = backend.on
  <2>1. backend' = [backend EXCEPT !.n = pay, !.ask = None]
    BY <1>1, <1>2, <1>3
  <2> QED BY <1>2, <2>1
<1>6. TypeOK'
  BY <1>3, <1>4, <1>5 DEF TypeOK, Quiet
<1>7. ServerMsg'
  BY <1>2, <1>4 DEF ServerMsg, Queued, Same
<1>8. ASSUME f.kind # "daemon" PROVE JudgeInv' /\ GrantInv'
  <2>1. JudgeInv /\ GrantInv
    BY <1>8 DEF VerdictInv
  <2>2. PICK d, b : d = s' /\ b = backend'
    OBVIOUS
  <2>3. e = "BackendContinue" /\ f' = f /\ verdict' = verdict
    BY <1>1, <1>3, <1>8
  <2>4. /\ d.hand = s.hand /\ d.chosen = s.chosen /\ d.done = s.done
        /\ Waits(d, "BackendSuccess") => Waits(s, "BackendSuccess")
        /\ In(d.q, "Valid") => In(s.q, "Valid")
        /\ In(d.q, "AuthorizationSuccess") => In(s.q, "AuthorizationSuccess")
    BY <1>4, <2>2, <2>3 DEF Queued, Same
  <2>5. JudgeInv'
    BY <1>5, <2>1, <2>2, <2>3, <2>4 DEF JudgeInv
  <2>6. Granted => Granted'
    BY <2>2, <2>3, <2>4 DEF Granted
  <2>7. GrantInv'
    BY <1>3, <2>1, <2>2, <2>4, <2>6, GrantStutters
  <2> QED BY <2>5, <2>7
<1> QED BY <1>3, <1>6, <1>7, <1>8 DEF VerdictInv

\* The authenticator judges, once.
LEMMA BackendJudgesKeeps ==
  ASSUME TypeOK, ServerMsg, VerdictInv, BackendJudges
  PROVE  TypeOK' /\ ServerMsg' /\ VerdictInv'
<1>1. PICK pay \in {None, Rounds + 1}, e \in {"BackendSuccess", "BackendFailure"} :
        /\ Signals(pay, e)
        /\ verdict' = IF e = "BackendSuccess" THEN "success" ELSE "failure"
  BY DEF BackendJudges
<1>2. /\ backend \in [fresh : BOOLEAN, on : BOOLEAN, n : Nat, ask : Pay]
      /\ None \in Pay /\ pay \in Pay /\ e \in Event /\ e # "RxRequest"
  BY <1>1, AuthAppAssumption DEF TypeOK, Pay, Event
<1>3. /\ backend.on /\ backend' = [backend EXCEPT !.on = FALSE, !.ask = None]
      /\ UNCHANGED <<f, c, user, access, toS, toC, faults, calls, unheard>>
  BY DEF BackendJudges
<1>4. s' \in Servers /\ Quiet(s') /\ Queued(s, e, s') /\ s'.msg = s.msg
  BY <1>1, <1>2, SignalsIs
<1>5. /\ backend' \in [fresh : BOOLEAN, on : BOOLEAN, n : Nat, ask : Pay]
      /\ backend'.fresh = backend.fresh /\ ~backend'.on
  BY <1>2, <1>3
<1>6. TypeOK'
  BY <1>1, <1>3, <1>4, <1>5 DEF TypeOK, Quiet, Verdict
<1>7. ServerMsg'
  BY <1>2, <1>4 DEF ServerMsg, Queued, Same
<1>8. ASSUME f.kind # "daemon" PROVE JudgeInv' /\ GrantInv'
  <2>1. JudgeInv /\ GrantInv
    BY <1>8 DEF VerdictInv
  <2>2. PICK d, b : d = s' /\ b = backend'
    OBVIOUS
  <2>3. f.kind = "eap" /\ verdict = None /\ ~backend.fresh
    BY <1>3, <1>8, <2>1 DEF JudgeInv, TypeOK, Config, Kinds
  <2>4. ~Granted /\ ~Waits(s, "BackendSuccess")
    BY <2>1, <2>3, NoneIs DEF Granted, JudgeInv, Verdict
  <2>5. /\ d.hand = s.hand
        /\ Waits(d, "BackendSuccess") => e = "BackendSuccess"
        /\ In(d.q, "Valid") => In(s.q, "Valid")
        /\ In(d.q, "AuthorizationSuccess") => In(s.q, "AuthorizationSuccess")
    BY <1>1, <1>4, <2>2, <2>4 DEF Queued
  <2>6. JudgeInv'
    BY <1>1, <1>3, <1>5, <2>1, <2>2, <2>3, <2>5 DEF JudgeInv
  <2>7. GrantInv'
    BY <1>3, <2>1, <2>2, <2>4, <2>5, GrantStutters
  <2> QED BY <2>6, <2>7
<1> QED BY <1>3, <1>6, <1>7, <1>8 DEF VerdictInv

\* The authenticator throws a response away.
LEMMA BackendDiscardsKeeps ==
  ASSUME TypeOK, ServerMsg, VerdictInv, BackendDiscards
  PROVE  TypeOK' /\ ServerMsg' /\ VerdictInv'
<1>1. /\ backend \in [fresh : BOOLEAN, on : BOOLEAN, n : Nat, ask : Pay] /\ None \in Pay
      /\ backend' = [backend EXCEPT !.ask = None]
      /\ UNCHANGED <<f, c, s, user, access, verdict, toS, toC, faults, calls, unheard>>
  BY DEF BackendDiscards, TypeOK, Pay
<1>2. /\ backend' \in [fresh : BOOLEAN, on : BOOLEAN, n : Nat, ask : Pay]
      /\ backend'.fresh = backend.fresh /\ backend'.on = backend.on
  BY <1>1
<1>3. TypeOK'
  BY <1>1, <1>2 DEF TypeOK, Quiet
<1>4. ServerMsg'
  BY <1>1 DEF ServerMsg, Waits, In
<1>5. JudgeInv => JudgeInv'
  BY <1>1, <1>2 DEF JudgeInv, Waits, In, One
<1>6. Granted => Granted'
  BY <1>1 DEF Granted
<1>7. GrantInv => GrantInv'
  BY <1>1, <1>6, GrantStutters
<1> QED BY <1>1, <1>3, <1>4, <1>5, <1>7 DEF VerdictInv
----------------------------------------------------------------------------
(* The sessions below, and the network.                                    *)

\* The events of the timers.
LEMMA ExpiryIs ==
  ASSUME NEW es \in Expiry, NEW e, In(es, e)
  PROVE  e \in {"AuthGracePeriodTimeout", "AuthLifetimeTimeout", "Timeout", "SessionTimeout"}
<1>1. CASE es = <<"AuthGracePeriodTimeout", "AuthLifetimeTimeout">>
  BY <1>1 DEF In
<1>2. CASE es = <<"Timeout", "SessionTimeout">>
  BY <1>2 DEF In
<1> QED BY <1>1, <1>2 DEF Expiry

\* The timers of one of the sessions expire.
LEMMA TimersExpireKeeps ==
  ASSUME TypeOK, ClientInv, ServerMsg, VerdictInv, TimersExpire
  PROVE  TypeOK' /\ ClientInv' /\ ServerMsg' /\ VerdictInv'
<1>0. /\ UNCHANGED <<f, user, access, backend, verdict, toS, toC, faults, unheard>>
      /\ calls' = calls + 1
  BY DEF TimersExpire
<1>1. PICK es \in Expiry :
        \/ c.low = "open" /\ c' = Expired(c, "ends", es) /\ UNCHANGED s
        \/ s.low = "open" /\ s' = Expired(s, "ended", es) /\ UNCHANGED c
  BY DEF TimersExpire
<1>2. \A e : In(es, e) => e \notin Results \cup {"RxAnswer", "RxRequest", "Valid",
                                                 "BackendSuccess", "AuthorizationSuccess"}
  BY ExpiryIs DEF Results
<1>3. calls' \in Nat
  BY <1>0 DEF TypeOK
<1>4. CASE c.low = "open" /\ c' = Expired(c, "ends", es) /\ UNCHANGED s
  <2>1. c \in Machines(Answers, Requests) /\ Quiet(c)
    BY DEF TypeOK, Clients
  <2>2. PICK d : d = c'
    OBVIOUS
  <2>3. d \in Clients /\ Over(c, "ends", es, d)
    BY <1>4, <2>1, <2>2, ExpiredIs DEF Clients
  <2>4. TypeOK'
    BY <1>0, <1>3, <1>4, <2>2, <2>3 DEF TypeOK, Quiet, Over
  <2>5. /\ d.st = c.st /\ d.run = c.run /\ d.last = c.last /\ d.msg = c.msg
        /\ d.hand = c.hand /\ d.ret = c.ret /\ d.low = "ends"
        /\ \A e : In(d.q, e) <=> In(c.q, e) \/ In(es, e)
    BY <2>3 DEF Over, Same
  <2>6. /\ Waits(d, "RxAnswer") => Waits(c, "RxAnswer")
        /\ NoneOf(c.q, Results) => NoneOf(d.q, Results)
    BY <1>2, <2>5, NoneOfIn DEF Waits
  <2>9. LowInv'
    BY <1>0, <2>2, <2>5, <2>6 DEF ClientInv, LowInv, Up
  <2>10. UserInv'
    BY <1>0, <1>4, <2>2, <2>5 DEF ClientInv, UserInv, Again
  <2>11. SuccessIn(toC)' => SuccessIn(toC)
    BY <1>0 DEF SuccessIn, In
  <2>12. VerdictInv'
    BY <1>0, <1>4, <2>2, <2>5, <2>11, GrantFollows DEF JudgeState
  <2>13. ServerMsg'
    BY <1>0, <1>4, JudgeStutters DEF JudgeState
  <2> QED BY <2>4, <2>9, <2>10, <2>12, <2>13 DEF ClientInv
<1>5. CASE s.low = "open" /\ s' = Expired(s, "ended", es) /\ UNCHANGED c
  <2>1. s \in Machines(Requests, Answers) /\ Quiet(s)
    BY DEF TypeOK, Servers
  <2>2. PICK d : d = s'
    OBVIOUS
  <2>3. d \in Servers /\ Over(s, "ended", es, d)
    BY <1>5, <2>1, <2>2, ExpiredIs DEF Servers
  <2>4. TypeOK'
    BY <1>0, <1>3, <1>5, <2>2, <2>3 DEF TypeOK, Quiet, Over
  <2>5. ClientInv'
    BY <1>0, <1>5, ClientStutters DEF ClientState
  <2>6. /\ \A e : In(d.q, e) <=> In(s.q, e) \/ In(es, e)
        /\ d.hand = s.hand /\ d.st = s.st /\ d.msg = s.msg /\ d.done = s.done
        /\ d.chosen = s.chosen
    BY <2>3 DEF Over, Same
  <2>7. ServerMsg'
    BY <1>2, <2>2, <2>6 DEF ServerMsg, Waits
  <2>8. VerdictInv'
    BY <1>0, <1>2, <1>5, <2>2, <2>6, ServerQueues DEF Waits
  <2> QED BY <2>4, <2>5, <2>7, <2>8
<1> QED BY <1>1, <1>4, <1>5

\* A session ends at the request of the client, or for want of an answer to it.
LEMMA TerminatesKeeps ==
  ASSUME TypeOK, ClientInv, ServerMsg, VerdictInv, Terminates
  PROVE  TypeOK' /\ ClientInv' /\ ServerMsg' /\ VerdictInv'
<1>0. UNCHANGED <<f, user, access, backend, verdict, toS, toC, faults, calls, unheard>>
  BY DEF Terminates
<1>3. PICK e \in Event : e = "Disconnect"
  BY DEF Event
<1>1. CASE s' = Notify([s EXCEPT !.low = "ended"], "Disconnect") /\ UNCHANGED c
  <2>1. PICK w, d : w = [s EXCEPT !.low = "ended"] /\ d = s'
    OBVIOUS
  <2>2. /\ w \in Servers /\ Quiet(w) /\ Same(s, w) /\ w.q = s.q /\ w.hand = s.hand
        /\ w.msg = s.msg
    BY <2>1 DEF TypeOK, Servers, Machines, Quiet, Same
  <2>3. d \in Servers /\ Quiet(d) /\ Queued(w, e, d) /\ d.msg = w.msg
    <3>1. d = Notify(w, e)
      BY <1>1, <1>3, <2>1
    <3> QED BY <2>2, <3>1, NotifyQueues DEF Servers
  <2>4. TypeOK'
    BY <1>0, <1>1, <2>1, <2>3 DEF TypeOK, Quiet
  <2>5. ClientInv'
    BY <1>0, <1>1, ClientStutters DEF ClientState
  <2>6. /\ \A b : In(d.q, b) <=> In(s.q, b) \/ b = "Disconnect"
        /\ d.hand = s.hand /\ d.st = s.st /\ d.msg = s.msg /\ d.done = s.done
        /\ d.chosen = s.chosen
    BY <1>3, <2>2, <2>3 DEF Queued, Same
  <2>7. ServerMsg'
    BY <2>1, <2>6 DEF ServerMsg, Waits
  <2>8. VerdictInv'
    BY <1>0, <1>1, <2>1, <2>6, ServerQueues DEF Waits
  <2> QED BY <2>4, <2>5, <2>7, <2>8
<1>2. CASE c.low = "ends" /\ c' = Notify([c EXCEPT !.low = "ended"], "Disconnect") /\ UNCHANGED s
  <2>1. PICK w, d : w = [c EXCEPT !.low = "ended"] /\ d = c'
    OBVIOUS
  <2>2. /\ w \in Clients /\ Quiet(w) /\ Same(c, w) /\ w.q = c.q /\ w.hand = c.hand
        /\ w.msg = c.msg /\ w.low = "ended" /\ w.ret = c.ret
    BY <2>1 DEF TypeOK, Clients, Machines, Quiet, Same
  <2>3. /\ d \in Clients /\ Quiet(d) /\ Queued(w, e, d) /\ d.msg = w.msg
        /\ d.low = w.low /\ d.ret = w.ret
    <3>1. d = Notify(w, e)
      BY <1>2, <1>3, <2>1
    <3> QED BY <2>2, <3>1, NotifyQueues DEF Clients
  <2>4. TypeOK'
    BY <1>0, <1>2, <2>1, <2>3 DEF TypeOK, Quiet
  <2>5. /\ d.st = c.st /\ d.run = c.run /\ d.last = c.last /\ d.hand = c.hand
        /\ d.msg = c.msg /\ d.low = "ended" /\ d.ret = c.ret
        /\ \A b : Waits(d, b) <=> Waits(c, b) \/ b = "Disconnect"
        /\ NoneOf(c.q, Results) => NoneOf(d.q, Results)
    BY <1>3, <2>2, <2>3 DEF Queued, Same, Waits, Results
  <2>6. LowInv'
    BY <1>0, <1>2, <2>1, <2>5 DEF ClientInv, LowInv, Up
  <2>7. UserInv'
    BY <1>0, <1>2, <2>1, <2>5 DEF ClientInv, UserInv, Again
  <2>8. SuccessIn(toC)' => SuccessIn(toC)
    BY <1>0 DEF SuccessIn, In
  <2>9. VerdictInv'
    BY <1>0, <1>2, <2>1, <2>5, <2>8, GrantFollows DEF JudgeState
  <2>10. ServerMsg'
    BY <1>0, <1>2, JudgeStutters DEF JudgeState
  <2> QED BY <2>4, <2>6, <2>7, <2>9, <2>10 DEF ClientInv
<1> QED BY <1>1, <1>2 DEF Terminates

\* A message is lost or sent again.
LEMMA DisturbKeeps ==
  ASSUME TypeOK, ClientInv, ServerMsg, VerdictInv, Disturb
  PROVE  TypeOK' /\ ClientInv' /\ ServerMsg' /\ VerdictInv'
<1>0. /\ UNCHANGED <<f, c, s, user, access, backend, verdict, calls, unheard>>
      /\ faults' = faults + 1
  BY DEF Disturb
<1>1. faults' \in Nat
  BY <1>0 DEF TypeOK
<1>2. toS' \in Seq(Requests) /\ toC' \in Seq(Answers) /\ (SuccessIn(toC') => SuccessIn(toC))
  <2>0. toS \in Seq(Requests) /\ toC \in Seq(Answers)
    BY DEF TypeOK
  <2>1. CASE toS # <<>> /\ toS' \in {Tail(toS), <<Head(toS)>> \o toS} /\ UNCHANGED toC
    <3>1. Head(toS) \in Requests /\ Tail(toS) \in Seq(Requests)
      BY <2>0, <2>1, TailIn
    <3>2. <<Head(toS)>> \o toS \in Seq(Requests)
      <4>1. <<Head(toS)>> \in Seq(Requests)
        BY <3>1
      <4> QED BY <2>0, <4>1
    <3> QED BY <2>0, <2>1, <3>1, <3>2
  <2>2. CASE toC # <<>> /\ toC' = Tail(toC) /\ UNCHANGED toS
    <3>1. Tail(toC) \in Seq(Answers)
      BY <2>0, <2>2, TailIn
    <3>2. SuccessIn(Tail(toC)) => SuccessIn(toC)
      BY <2>0, <2>2, SuccessIs
    <3> QED BY <2>0, <2>2, <3>1, <3>2
  <2> QED BY <2>1, <2>2 DEF Disturb
<1>3. TypeOK'
  BY <1>0, <1>1, <1>2 DEF TypeOK, Quiet
<1>4. ClientInv'
  BY <1>0, ClientStutters DEF ClientState
<1>5. ServerMsg'
  BY <1>0, JudgeStutters DEF JudgeState
<1>6. SuccessIn(toC)' => SuccessIn(toC)
  BY <1>2 DEF SuccessIn, In
<1>7. In(c'.hand, "Success") => In(c.hand, "Success")
  BY <1>0
<1>8. VerdictInv'
  BY <1>0, <1>6, <1>7, GrantFollows DEF JudgeState
<1> QED BY <1>3, <1>4, <1>5, <1>8
----------------------------------------------------------------------------
(* The theorems.                                                           *)

AppInv == TypeOK /\ ClientInv /\ ServerMsg /\ VerdictInv

\* It holds in the beginning.
LEMMA AppInit == Init => AppInv
<1> SUFFICES ASSUME Init PROVE AppInv
  OBVIOUS
<1>1. /\ f \in Config /\ c = Machine /\ s = Machine
      /\ user = [st |-> "asked", n |-> 0, conv |-> 1] /\ access = FALSE
      /\ backend = [fresh |-> TRUE, on |-> FALSE, n |-> 0, ask |-> None] /\ verdict = None
      /\ toS = <<>> /\ toC = <<>> /\ faults = 0 /\ calls = 0 /\ unheard = FALSE
  BY DEF Init
<1>2. PICK e : e = <<>>
  OBVIOUS
<1>3. /\ e \in Seq(Event) /\ e \in Seq(Answers) /\ e \in Seq(Requests)
      /\ \A d : ~In(e, d)
  BY <1>2 DEF In
<1>4. /\ Machine \in Clients /\ Machine \in Servers /\ Quiet(Machine)
      /\ Machine.st = "Initialize" /\ Machine.run /\ Machine.q = e /\ Machine.hand = e
      /\ Machine.msg = None /\ Machine.last = "SUCCESS" /\ Machine.low = "pending"
      /\ ~Machine.ret /\ ~Machine.chosen
  BY <1>2, <1>3 DEF Machine, Clients, Servers, Machines, Quiet, State, Pay
<1>5. TypeOK
  <2>1. /\ user \in [st : {"asked", "waits", "in", "out", "elsewhere"}, n : Pay, conv : Nat \ {0}]
        /\ backend \in [fresh : BOOLEAN, on : BOOLEAN, n : Nat, ask : Pay]
    BY <1>1 DEF Pay
  <2> QED BY <1>1, <1>2, <1>3, <1>4, <2>1 DEF TypeOK
<1>6. ClientInv
  BY <1>1, <1>3, <1>4, NoneOfIn DEF ClientInv, LowInv, UserInv, Up, Waits, One, In
<1>7. ServerMsg
  BY <1>1, <1>3, <1>4 DEF ServerMsg, Waits
<1>8. VerdictInv
  <2>1. One(e, {"Valid"})
    BY <1>2 DEF One
  <2> QED BY <1>1, <1>2, <1>3, <1>4, <2>1 DEF VerdictInv, JudgeInv, GrantInv, SuccessIn, Waits
<1> QED BY <1>5, <1>6, <1>7, <1>8 DEF AppInv

\* Every step keeps it.
LEMMA AppStep == AppInv /\ [Next]_vars => AppInv'
<1> SUFFICES ASSUME AppInv, [Next]_vars PROVE AppInv'
  OBVIOUS
<1> USE DEF AppInv
<1>1. ASSUME UserAnswers \/ ClientTakes \/ ClientServes \/ ClientReceives \/ ClientReturns
      PROVE  AppInv'
  <2>1. TypeOK' /\ ClientInv'
    BY <1>1, UserAnswersKeeps, ClientTakesKeeps, ClientServesKeeps, ClientReceivesKeeps,
       ClientReturnsKeeps
  <2>2. VerdictInv'
    BY <1>1, ClientServesGrants, ClientGrants
  <2>3. UNCHANGED JudgeState
    BY <1>1 DEF UserAnswers, ClientTakes, ClientServes, ClientReceives, ClientReturns, JudgeState
  <2> QED BY <2>1, <2>2, <2>3, JudgeStutters
<1>2. ASSUME \/ ServerTakes \/ ServerServes \/ ServerReceives \/ ServerReturns
             \/ BackendAsks \/ BackendJudges \/ BackendDiscards
      PROVE  AppInv'
  <2>1. TypeOK' /\ ServerMsg' /\ VerdictInv'
    BY <1>2, ServerServesKeeps, ServerKeeps, BackendAsksKeeps, BackendJudgesKeeps,
       BackendDiscardsKeeps
  <2>2. UNCHANGED ClientState
    BY <1>2 DEF ServerTakes, ServerServes, ServerReceives, ServerReturns, BackendAsks,
                BackendJudges, BackendDiscards, ClientState
  <2> QED BY <2>1, <2>2, ClientStutters
<1>3. ASSUME TimersExpire \/ Terminates \/ Disturb PROVE AppInv'
  BY <1>3, TimersExpireKeeps, TerminatesKeeps, DisturbKeeps
<1>4. ASSUME UNCHANGED vars PROVE AppInv'
  <2>1. UNCHANGED <<f, c, s, user, access, backend, verdict, toS, toC, faults, calls, unheard>>
    BY <1>4 DEF vars
  <2>2. TypeOK'
    BY <2>1 DEF TypeOK, Quiet
  <2>3. ClientInv'
    BY <2>1, ClientStutters DEF ClientState
  <2>4. ServerMsg' /\ (JudgeInv => JudgeInv') /\ (Granted => Granted')
    BY <2>1, JudgeStutters DEF JudgeState
  <2>5. GrantInv => GrantInv'
    BY <2>1, <2>4, GrantStutters
  <2> QED BY <2>1, <2>2, <2>3, <2>4, <2>5 DEF VerdictInv
<1> QED BY <1>1, <1>2, <1>3, <1>4 DEF Next

\* The invariant of the application: the types of both machines, the client's machine
\* against the session below it and against the user, and the verdict on its way.
THEOREM AlwaysAppInv == Spec => []AppInv
<1>1. Init => AppInv
  BY AppInit
<1>2. AppInv /\ [Next]_vars => AppInv'
  BY AppStep
<1> QED BY <1>1, <1>2, PTL DEF Spec

\* A user is let in only after the server's authenticator has judged so and, where the
\* request asks for it, Authorize() has returned true.
THEOREM AlwaysGrantedByVerdict == Spec => []GrantedByVerdict
<1>1. AppInv => GrantedByVerdict
  BY DEF AppInv, VerdictInv, GrantInv, Granted, GrantedByVerdict
<1> QED BY <1>1, AlwaysAppInv, PTL

\* While the client's machine is in StAccepted the session below it is open, or its
\* handler is about to open it.
THEOREM AlwaysAcceptedIsTimed == Spec => []AcceptedIsTimed
<1>1. AppInv => AcceptedIsTimed
  <2>1. SUFFICES ASSUME LowInv, c.st = "Accepted", Up(c) PROVE c.low = "open" \/ c.ret
    BY DEF AppInv, ClientInv, AcceptedIsTimed
  <2>2. c.msg # None /\ c.last = "SUCCESS"
    BY <2>1 DEF LowInv
  <2> QED BY <2>1, <2>2 DEF LowInv
<1> QED BY <1>1, AlwaysAppInv, PTL

\* A session that has ended leaves no user in, in whatever order the threads of the
\* client fire its events, unless the machine had no row for the disconnection.
THEOREM AlwaysAccessEnds == Spec => []AccessEnds
<1>1. AppInv => AccessEnds
  <2>1. SUFFICES ASSUME UserInv, AtRest, c.run, ~Again, ~unheard, c.low = "ended", access
               PROVE  FALSE
    BY DEF AppInv, ClientInv, AccessEnds
  <2>2. c.st = "Accepted" /\ Waits(c, "Disconnect")
    BY <2>1 DEF UserInv
  <2>3. c.q = <<>> /\ c.hand = <<>>
    BY <2>1 DEF AtRest, Idle
  <2> QED BY <2>2, <2>3 DEF Waits, In
<1> QED BY <1>1, AlwaysAppInv, PTL
============================================================================
