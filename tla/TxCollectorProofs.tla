------------------------- MODULE TxCollectorProofs -------------------------
(***************************************************************************)
(* The transmitter implements Outbox: for any number of senders, with lost *)
(* signals and spurious wakeups, what Send() took is sent in that order    *)
(* and once.  The mutexes are not what makes it so: only one thread        *)
(* dequeues, and TypeOK, which says who holds what, is needed only to know *)
(* that the queue and the datum are what they are.                         *)
(***************************************************************************)
EXTENDS TxCollector, SequenceTheorems, TLAPS

\* Every step keeps the types and the ownership of the two mutexes.
LEMMA TypeStep == TypeOK /\ [Next]_vars => TypeOK'
<1> SUFFICES ASSUME TypeOK, [Next]_vars
             PROVE  TypeOK'
  OBVIOUS
<1> USE TxCollectorAssumption
<1>1. CASE Activate
  BY <1>1 DEF Activate, TypeOK
<1>2. CASE SetActive
  BY <1>2 DEF SetActive, TypeOK
<1>3. CASE StopClears
  BY <1>3 DEF StopClears, TypeOK
<1>4. CASE StopSignals
  BY <1>4 DEF StopSignals, Signal, TypeOK
<1>5. CASE StopJoins
  BY <1>5 DEF StopJoins, TypeOK
<1>6. CASE TxStarts
  BY <1>6 DEF TxStarts, TypeOK
<1>7. CASE TxLocks
  BY <1>7 DEF TxLocks, TypeOK
<1>8. CASE TxWaits
  BY <1>8 DEF TxWaits, TypeOK
<1>9. CASE TxSpuriouslyWoken
  BY <1>9 DEF TxSpuriouslyWoken, TypeOK
<1>10. CASE TxWakes
  BY <1>10 DEF TxWakes, TypeOK
<1>11. CASE TxDequeues
  <2>1. Head(queue) \in Sender /\ Tail(queue) \in Seq(Sender)
    BY <1>11 DEF TxDequeues, TypeOK
  <2> QED
    BY <1>11, <2>1 DEF TxDequeues, TypeOK
<1>12. CASE TxSends
  BY <1>12 DEF TxSends, TypeOK
<1>13. CASE TxDrained
  BY <1>13 DEF TxDrained, TypeOK
<1>14. CASE TxChecks
  BY <1>14 DEF TxChecks, TypeOK
<1>15. ASSUME NEW s \in Sender, SendEnqueues(s)
       PROVE  TypeOK'
  <2>1. Append(queue, s) \in Seq(Sender)
    BY DEF TypeOK
  <2> QED
    BY <1>15, <2>1 DEF SendEnqueues, TypeOK
<1>16. ASSUME NEW s \in Sender, SendLocks(s)
       PROVE  TypeOK'
  BY <1>16 DEF SendLocks, TypeOK
<1>17. ASSUME NEW s \in Sender, SendSignals(s)
       PROVE  TypeOK'
  BY <1>17 DEF SendSignals, Signal, TypeOK
<1>18. CASE UNCHANGED vars
  BY <1>18 DEF vars, TypeOK
<1> QED
  BY <1>1, <1>2, <1>3, <1>4, <1>5, <1>6, <1>7, <1>8, <1>9, <1>10, <1>11,
     <1>12, <1>13, <1>14, <1>15, <1>16, <1>17, <1>18
  DEF Next, Owner, Svc

\* Types and mutex ownership hold in every state of every behaviour.
THEOREM TxTypeCorrect == Spec => []TypeOK
<1>1. ASSUME Init
      PROVE  TypeOK
  <2>1. queue \in Seq(Sender)
    BY <1>1 DEF Init
  <2>2. "free" \notin Sender
    BY TxCollectorAssumption
  <2> QED
    BY <1>1, <2>1, <2>2 DEF Init, TypeOK
<1> QED
  BY <1>1, TypeStep, PTL DEF Spec

\* Outbox's queue, as the transmitter holds it.
Held == InFlight \o queue

\* Steps that take or send nothing: what is held and the wire stay.
Idle == Held' = Held /\ wire' = wire

\* A signal, or any other step that leaves the queue, the datum and the wire
\* alone and does not enter or leave the sending of a datum, is invisible.
LEMMA IdleStep ==
  ASSUME queue' = queue, datum' = datum, wire' = wire,
         tx' = "sending" <=> tx = "sending"
  PROVE  Idle
  BY DEF Idle, Held, InFlight

\* What follows the head of a sequence is its tail.
LEMMA HeadThenTail ==
  ASSUME NEW S, NEW q \in Seq(S), q # <<>>
  PROVE  <<Head(q)>> \o Tail(q) = q
<1>1. /\ Len(q) \in Nat \ {0}
      /\ Head(q) = q[1]
      /\ Tail(q) \in Seq(S) /\ Len(Tail(q)) = Len(q) - 1
      /\ \A i \in 1 .. Len(q) - 1 : Tail(q)[i] = q[i + 1]
  BY HeadTailProperties, EmptySeq
<1> DEFINE r == <<Head(q)>> \o Tail(q)
<1>2. Head(q) \in S /\ <<Head(q)>> \in Seq(S) /\ Len(<<Head(q)>>) = 1
  BY HeadTailProperties
<1>3. /\ r \in Seq(S) /\ Len(r) = Len(q)
      /\ \A i \in 1 .. Len(q) : r[i] = IF i = 1 THEN Head(q) ELSE Tail(q)[i - 1]
  BY <1>1, <1>2, ConcatProperties
<1>4. \A i \in 1 .. Len(q) : r[i] = q[i]
  <2> SUFFICES ASSUME NEW i \in 1 .. Len(q)
               PROVE  r[i] = q[i]
    OBVIOUS
  <2>1. CASE i = 1
    BY <1>1, <1>3, <2>1
  <2>2. CASE i # 1
    <3>1. i - 1 \in 1 .. Len(q) - 1 /\ (i - 1) + 1 = i
      BY <1>1, <2>2
    <3> QED
      BY <1>1, <1>3, <2>2, <3>1
  <2> QED
    BY <2>1, <2>2
<1> HIDE DEF r
<1>5. r = q
  BY <1>3, <1>4, SeqEqual
<1> QED
  BY <1>5 DEF r

\* The head and tail of a sequence put together from them.
LEMMA HeadTailOfJoin ==
  ASSUME NEW S, NEW d \in S, NEW q \in Seq(S)
  PROVE  /\ <<d>> \o q # <<>>
         /\ Head(<<d>> \o q) = d
         /\ Tail(<<d>> \o q) = q
<1> DEFINE r == <<d>> \o q
<1>1. <<d>> \in Seq(S) /\ Len(<<d>>) = 1 /\ <<d>>[1] = d
  OBVIOUS
<1>2. Len(q) \in Nat
  BY LenProperties
<1>3. /\ r \in Seq(S) /\ Len(r) = Len(q) + 1
      /\ \A i \in 1 .. Len(q) + 1 : r[i] = IF i = 1 THEN d ELSE q[i - 1]
  BY <1>1, <1>2, ConcatProperties
<1> HIDE DEF r
<1>4. r # <<>>
  BY <1>2, <1>3, EmptySeq
<1>5. Head(r) = d
  BY <1>2, <1>3, <1>4
<1>6. /\ Tail(r) \in Seq(S) /\ Len(Tail(r)) = Len(q)
      /\ \A i \in 1 .. Len(q) : Tail(r)[i] = r[i + 1]
  BY <1>2, <1>3, <1>4, HeadTailProperties
<1>7. \A i \in 1 .. Len(q) : Tail(r)[i] = q[i]
  <2> SUFFICES ASSUME NEW i \in 1 .. Len(q)
               PROVE  Tail(r)[i] = q[i]
    OBVIOUS
  <2>1. i + 1 \in 1 .. Len(q) + 1 /\ i + 1 # 1 /\ (i + 1) - 1 = i
    BY <1>2
  <2> QED
    BY <1>3, <1>6, <2>1
<1>8. Tail(r) = q
  BY <1>6, <1>7, SeqEqual
<1> QED
  BY <1>4, <1>5, <1>8 DEF r

\* Send() appends to what is held, whether or not a datum is being sent.
LEMMA TakeStep ==
  ASSUME TypeOK, NEW s \in Sender, SendEnqueues(s)
  PROVE  Held' = Append(Held, s) /\ wire' = wire
<1>1. /\ queue \in Seq(Sender) /\ datum \in Sender
      /\ queue' = Append(queue, s) /\ tx' = tx /\ datum' = datum /\ wire' = wire
  BY DEF TypeOK, SendEnqueues
<1>2. Append(queue, s) = queue \o <<s>>
  BY <1>1, AppendIsConcat
<1>3. CASE tx = "sending"
  <2>1. Held = <<datum>> \o queue /\ Held' = <<datum>> \o (queue \o <<s>>)
    BY <1>1, <1>2, <1>3 DEF Held, InFlight
  <2>2. <<datum>> \in Seq(Sender) /\ <<s>> \in Seq(Sender)
    BY <1>1
  <2>3. Held' = (<<datum>> \o queue) \o <<s>>
    BY <1>1, <2>1, <2>2, ConcatAssociative
  <2>4. <<datum>> \o queue \in Seq(Sender)
    BY <1>1, <2>2, ConcatProperties
  <2> QED
    BY <1>1, <2>1, <2>3, <2>4, AppendIsConcat
<1>4. CASE tx # "sending"
  <2>1. Held = <<>> \o queue /\ Held' = <<>> \o Append(queue, s)
    BY <1>1, <1>4 DEF Held, InFlight
  <2>2. Append(queue, s) \in Seq(Sender)
    BY <1>1
  <2> QED
    BY <1>1, <2>1, <2>2, ConcatEmptySeq
<1> QED
  BY <1>3, <1>4

\* Every step of the transmitter's world is a step of Outbox or a stutter.
LEMMA OutboxStep ==
  ASSUME TypeOK, [Next]_vars
  PROVE  [Outgoing!Next]_<<Held, wire>>
<1> SUFFICES Idle \/ Outgoing!Next
  BY DEF Idle
<1>1. CASE UNCHANGED vars
  BY <1>1, IdleStep DEF vars
<1>2. CASE Owner
  BY <1>2, IdleStep
  DEF Owner, Activate, SetActive, StopClears, StopSignals, StopJoins, Signal,
      TypeOK
<1>3. CASE TxStarts \/ TxLocks \/ TxWaits \/ TxSpuriouslyWoken \/ TxWakes
           \/ TxDrained
  BY <1>3, IdleStep
  DEF TxStarts, TxLocks, TxWaits, TxSpuriouslyWoken, TxWakes, TxDrained
<1>4. CASE TxChecks
  BY <1>4, IdleStep DEF TxChecks
<1>5. CASE TxDequeues
  <2>1. /\ tx = "draining" /\ tx' = "sending" /\ wire' = wire
        /\ queue \in Seq(Sender) /\ queue # <<>>
        /\ datum' = Head(queue) /\ queue' = Tail(queue)
    BY <1>5 DEF TxDequeues, TypeOK
  <2>2. Held = <<>> \o queue /\ Held' = <<Head(queue)>> \o Tail(queue)
    BY <2>1 DEF Held, InFlight
  <2>3. Held = queue /\ Held' = queue
    BY <2>1, <2>2, HeadThenTail, ConcatEmptySeq
  <2> QED
    BY <2>1, <2>3 DEF Idle
<1>6. CASE TxSends
  <2>1. /\ tx = "sending" /\ tx' = "draining" /\ wire' = datum
        /\ queue' = queue /\ queue \in Seq(Sender) /\ datum \in Sender
    BY <1>6 DEF TxSends, TypeOK
  <2>2. Held = <<datum>> \o queue /\ Held' = <<>> \o queue
    BY <2>1 DEF Held, InFlight
  <2>3. Held # <<>> /\ Head(Held) = datum /\ Tail(Held) = queue
    BY <2>1, <2>2, HeadTailOfJoin
  <2>4. Held' = queue
    BY <2>1, <2>2, ConcatEmptySeq
  <2> QED
    BY <2>1, <2>3, <2>4 DEF Outgoing!Next, Outgoing!Transmit, Held
<1>7. ASSUME NEW s \in Sender, SendEnqueues(s)
      PROVE  Outgoing!Next
  BY <1>7, TakeStep DEF Outgoing!Next, Outgoing!Take, Held
<1>8. ASSUME NEW s \in Sender, SendLocks(s) \/ SendSignals(s)
      PROVE  Idle
  BY <1>8, IdleStep DEF SendLocks, SendSignals, Signal
<1> QED
  BY <1>1, <1>2, <1>3, <1>4, <1>5, <1>6, <1>7, <1>8 DEF Next, Svc

\* The collector implements Outbox: whatever Send() took is transmitted in
\* order, once, in spite of lost signals, spurious wakeups and messages
\* enqueued without the lock.
THEOREM ImplementsOutbox == Spec => OutboxSpec
<1>1. Init => Outgoing!Init
  <2> SUFFICES ASSUME Init
               PROVE  InFlight \o queue = <<>> /\ wire \in Sender
    BY DEF Outgoing!Init
  <2>1. InFlight = <<>> /\ queue = <<>>
    BY DEF Init, InFlight
  <2>2. <<>> \in Seq(Sender)
    BY EmptySeq
  <2> QED
    BY <2>1, <2>2, ConcatEmptySeq DEF Init
<1>2. TypeOK /\ [Next]_vars => [Outgoing!Next]_<<InFlight \o queue, wire>>
  BY OutboxStep DEF Held
<1> QED
  BY <1>1, <1>2, TxTypeCorrect, PTL DEF Spec, OutboxSpec, Outgoing!Spec
=============================================================================
