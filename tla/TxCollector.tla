---------------------------- MODULE TxCollector ----------------------------
(***************************************************************************)
(* DiameterTxMsgCollector (aaa_transport_collector.h): the transmitter     *)
(* thread of a peer, the threads that hand it messages, and the thread     *)
(* that constructs and destroys it.  One action per step between two       *)
(* operations on a mutex or on the condition variable.                     *)
(*                                                                         *)
(* A message is named by its sender.  The serialisation of a message       *)
(* (SafeSend) and the connection it is sent on are left out.               *)
(*                                                                         *)
(* As in PeerFsm, an operator named after the one that follows it, with a  *)
(* suffix, is a mistake no specification makes (TxDequeuesLast, ...).      *)
(***************************************************************************)
EXTENDS Integers, Sequences

CONSTANTS
  Sender,     \* job, router and application threads that call Send()
  Watchdog,   \* the job thread that serves the WATCHDOG timer's event
  MaxQueue,   \* bound: Send() is not called while more are queued and the
              \* transmitter is busy with them
  Spurious    \* whether wait() may return without a signal

ASSUME TxCollectorAssumption ==
  /\ Watchdog \in Sender
  /\ {"tx", "free"} \cap Sender = {}
  /\ MaxQueue \in Nat
  /\ Spurious \in BOOLEAN

VARIABLES
  active,     \* m_Active
  exitMutex,  \* m_ExitMutex: "free", or "tx"
  mutex,      \* m_Condition.mutex(): "free", "tx", or the sender in it
  queue,      \* m_SendQueue
  tx,         \* where the transmitter thread is in svc()
  datum,      \* the message it took last
  wire,       \* the message it sent last
  sender,     \* where each sender is in Send()
  owner       \* where the owner is in the constructor or the destructor

vars == <<active, exitMutex, mutex, queue, tx, datum, wire, sender, owner>>

Init ==
  /\ active = FALSE
  /\ exitMutex = "free"
  /\ mutex = "free"
  /\ queue = <<>>
  /\ tx = "none"
  /\ datum \in Sender
  /\ wire \in Sender
  /\ sender = [s \in Sender |-> "idle"]
  /\ owner = "new"

\* A signal wakes the transmitter if it waits at that moment, and is lost
\* otherwise.
Signal == tx' = IF tx = "waiting" THEN "woken" ELSE tx
----------------------------------------------------------------------------
(* Start() and Stop().                                                     *)

\* activate() makes the thread, which runs before m_Active is set.
Activate ==
  /\ owner = "new"
  /\ owner' = "activated"
  /\ tx' = "start"
  /\ UNCHANGED <<active, exitMutex, mutex, queue, datum, wire, sender>>

SetActive ==
  /\ owner = "activated"
  /\ owner' = "running"
  /\ active' = TRUE
  /\ UNCHANGED <<exitMutex, mutex, queue, tx, datum, wire, sender>>

StopClears ==
  /\ owner = "running"
  /\ owner' = "signalling"
  /\ active' = FALSE
  /\ UNCHANGED <<exitMutex, mutex, queue, tx, datum, wire, sender>>

\* Without the mutex.
StopSignals ==
  /\ owner = "signalling"
  /\ owner' = "joining"
  /\ Signal
  /\ UNCHANGED <<active, exitMutex, mutex, queue, datum, wire, sender>>

StopJoins ==
  /\ owner = "joining"
  /\ exitMutex = "free"
  /\ owner' = "stopped"
  /\ UNCHANGED <<active, exitMutex, mutex, queue, tx, datum, wire, sender>>
----------------------------------------------------------------------------
(* Send().                                                                 *)

SendEnqueues(s) ==
  /\ owner = "running"
  /\ sender[s] = "idle"
  /\ Len(queue) < MaxQueue \/ tx = "waiting"
  /\ queue' = Append(queue, s)
  /\ sender' = [sender EXCEPT ![s] = "enqueued"]
  /\ UNCHANGED <<active, exitMutex, mutex, tx, datum, wire, owner>>

SendLocks(s) ==
  /\ sender[s] = "enqueued"
  /\ mutex = "free"
  /\ mutex' = s
  /\ sender' = [sender EXCEPT ![s] = "locked"]
  /\ UNCHANGED <<active, exitMutex, queue, tx, datum, wire, owner>>

SendSignals(s) ==
  /\ sender[s] = "locked"
  /\ Signal
  /\ mutex' = "free"
  /\ sender' = [sender EXCEPT ![s] = "idle"]
  /\ UNCHANGED <<active, exitMutex, queue, datum, wire, owner>>
----------------------------------------------------------------------------
(* svc().                                                                  *)

TxStarts ==
  /\ tx = "start"
  /\ exitMutex = "free"
  /\ exitMutex' = "tx"
  /\ tx' = "entering"
  /\ UNCHANGED <<active, mutex, queue, datum, wire, sender, owner>>

TxLocks ==
  /\ tx = "entering"
  /\ mutex = "free"
  /\ mutex' = "tx"
  /\ tx' = "locked"
  /\ UNCHANGED <<active, exitMutex, queue, datum, wire, sender, owner>>

\* wait() releases the mutex, without a look at the queue or at m_Active.
TxWaits ==
  /\ tx = "locked"
  /\ mutex' = "free"
  /\ tx' = "waiting"
  /\ UNCHANGED <<active, exitMutex, queue, datum, wire, sender, owner>>

TxSpuriouslyWoken ==
  /\ Spurious
  /\ tx = "waiting"
  /\ tx' = "woken"
  /\ UNCHANGED <<active, exitMutex, mutex, queue, datum, wire, sender, owner>>

TxWakes ==
  /\ tx = "woken"
  /\ mutex = "free"
  /\ mutex' = "tx"
  /\ tx' = "draining"
  /\ UNCHANGED <<active, exitMutex, queue, datum, wire, sender, owner>>

TxDequeuesLast ==
  /\ tx = "draining"
  /\ queue # <<>>
  /\ datum' = queue[Len(queue)]
  /\ queue' = SubSeq(queue, 1, Len(queue) - 1)
  /\ tx' = "sending"
  /\ UNCHANGED <<active, exitMutex, mutex, wire, sender, owner>>
TxDequeues ==
  /\ tx = "draining"
  /\ queue # <<>>
  /\ datum' = Head(queue)
  /\ queue' = Tail(queue)
  /\ tx' = "sending"
  /\ UNCHANGED <<active, exitMutex, mutex, wire, sender, owner>>

\* The thread tests the queue again only after another signal.
TxSendsOne ==
  /\ tx = "sending"
  /\ wire' = datum
  /\ tx' = "checking"
  /\ mutex' = "free"
  /\ UNCHANGED <<active, exitMutex, queue, datum, sender, owner>>
TxSends ==
  /\ tx = "sending"
  /\ wire' = datum
  /\ tx' = "draining"
  /\ UNCHANGED <<active, exitMutex, mutex, queue, datum, sender, owner>>

\* The queue is empty: the scope ends, and with it the lock.
TxDrained ==
  /\ tx = "draining"
  /\ queue = <<>>
  /\ mutex' = "free"
  /\ tx' = "checking"
  /\ UNCHANGED <<active, exitMutex, queue, datum, wire, sender, owner>>

TxChecks ==
  /\ tx = "checking"
  /\ IF active THEN tx' = "entering" /\ UNCHANGED exitMutex
               ELSE tx' = "done" /\ exitMutex' = "free"
  /\ UNCHANGED <<active, mutex, queue, datum, wire, sender, owner>>
----------------------------------------------------------------------------
Owner == Activate \/ SetActive \/ StopClears \/ StopSignals \/ StopJoins
Svc   == \/ TxStarts \/ TxLocks \/ TxWaits \/ TxSpuriouslyWoken \/ TxWakes
         \/ TxDequeues \/ TxSends \/ TxDrained \/ TxChecks

Next ==
  \/ Owner
  \/ Svc
  \/ \E s \in Sender : SendEnqueues(s) \/ SendLocks(s) \/ SendSignals(s)

Spec == Init /\ [][Next]_vars

\* Threads run, and a mutex that is free again and again is obtained.
\* Nobody has to call Stop(), and only the watchdog has to call Send().
Fairness ==
  /\ WF_vars(Activate) /\ WF_vars(SetActive)
  /\ WF_vars(StopSignals) /\ WF_vars(StopJoins)
  /\ WF_vars(TxStarts) /\ SF_vars(TxLocks) /\ WF_vars(TxWaits)
  /\ SF_vars(TxWakes) /\ WF_vars(TxDequeues) /\ WF_vars(TxSends)
  /\ WF_vars(TxDrained) /\ WF_vars(TxChecks)
  /\ \A s \in Sender : SF_vars(SendLocks(s)) /\ WF_vars(SendSignals(s))
  /\ WF_vars(SendEnqueues(Watchdog))
FairSpec == Spec /\ Fairness
----------------------------------------------------------------------------
(* Properties.                                                             *)

\* Types, and who holds a mutex: the transmitter in its loop's body except in
\* wait(), or one sender; m_ExitMutex for as long as the thread runs.
TypeOK ==
  /\ active \in BOOLEAN
  /\ exitMutex \in {"free", "tx"}
  /\ mutex \in Sender \cup {"free", "tx"}
  /\ queue \in Seq(Sender)
  /\ tx \in {"none", "start", "entering", "locked", "waiting", "woken",
             "draining", "sending", "checking", "done"}
  /\ datum \in Sender
  /\ wire \in Sender
  /\ sender \in [Sender -> {"idle", "enqueued", "locked"}]
  /\ owner \in {"new", "activated", "running", "signalling", "joining", "stopped"}
  /\ mutex = "tx" <=> tx \in {"locked", "draining", "sending"}
  /\ \A s \in Sender : mutex = s <=> sender[s] = "locked"
  /\ exitMutex = "tx" <=> tx \notin {"none", "start", "done"}
  /\ owner = "new" <=> tx = "none"

\* The collector is a first-in first-out queue, whatever its locks do: what
\* Send() took is transmitted in the order in which it was taken, once.
InFlight == IF tx = "sending" THEN <<datum>> ELSE <<>>
Outgoing == INSTANCE Outbox WITH pending <- InFlight \o queue,
                                 last <- wire
OutboxSpec == Outgoing!Spec

\* Messages do not stay: as long as the transmitter runs and the watchdog
\* keeps sending, the queue is empty again and again, although a message whose
\* signal was lost waits for the next Send(), and although threads enqueue
\* without the lock.  (A transmitter that is woken by no signal before Start()
\* has set m_Active finds it false, and ends.)
DrainsAgain ==
  []<>(queue = <<>> \/ tx = "done" \/ owner \notin {"new", "activated", "running"})
============================================================================
