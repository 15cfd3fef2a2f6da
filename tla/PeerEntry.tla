----------------------------- MODULE PeerEntry -----------------------------
(***************************************************************************)
(* One entry of the peer table in an open environment: the state machine   *)
(* of PeerFsm, served by the job threads, and everything that notifies it: *)
(* the connector's thread, the acceptor and its PendingResponders, the     *)
(* reader thread of every connection, the reactor's timers, the garbage    *)
(* collector of IO objects, application threads that send, stop a peer, or *)
(* close the library (DiameterApplication::Close).  The remote node is     *)
(* arbitrary.                                                              *)
(***************************************************************************)
EXTENDS PeerFsm

CONSTANTS
  Sender,     \* application and router threads that send
  MayClose,   \* whether the application closes the library
  MaxQueue,   \* bound: other threads notify while fewer events are queued
  MaxRx       \* bound: requests arrive while fewer ids are queued

ASSUME PeerEntryAssumption ==
  MayClose \in BOOLEAN /\ MaxQueue \in Nat /\ MaxRx \in Nat

VARIABLES
  peer,       \* the DiameterPeerStateMachine
  conn,       \* the IO objects
  connector,  \* PeerInitiator: "idle", or "busy" with a connection attempt
  app,        \* DiameterApplication::Close
  sender      \* "idle", or inside Send() with the state it has read

vars == <<peer, conn, connector, app, sender>>

\* kind: which factory made it ("P": accepted, still with its
\* PendingResponder).  reader: its thread runs.  gc: handed to the garbage
\* collector, whose grace period leaves the reader running.
Link == [kind : {"none", "I", "P", "R"}, reader : BOOLEAN, gc : BOOLEAN]
Free == [kind |-> "none", reader |-> FALSE, gc |-> FALSE]
Fresh(kind) == [kind |-> kind, reader |-> TRUE, gc |-> FALSE]

Discard(cs, gone) ==
  [c \in Conn |-> IF c \in gone THEN [cs[c] EXCEPT !.gc = TRUE] ELSE cs[c]]

Init ==
  /\ peer \in {NewPeer(e) : e \in {"win", "lose", "same"}}
  /\ conn = [c \in Conn |-> Free]
  /\ connector = "idle"
  /\ app = "run"
  /\ sender = [s \in Sender |-> "idle"]

\* A NULL dereference ends the process.
Alive == ~peer.fault
Room  == Alive /\ Len(peer.queue) < MaxQueue

\* The machine becomes p; what it deleted goes to the garbage collector.
Becomes(p, cs) == peer' = Settled(p) /\ conn' = Discard(cs, p.gone)

\* Connect(): may fail at once (no attempt, no event); while an attempt is
\* under way Activate() does not start another.
Connect == connector' \in {connector, "busy"}
----------------------------------------------------------------------------
\* Serve() by a job thread.  The lock m_EventFsmMtx makes it one step.
ServeEvent ==
  /\ Alive
  /\ peer.queue # <<>>
  /\ Becomes(Serve(peer), conn)
  /\ IF Serve(peer).start THEN Connect ELSE UNCHANGED connector
  /\ UNCHANGED <<app, sender>>

\* A timer is periodic: it stays armed.  Bound: no second event of a timer
\* is queued while the first waits.
TimerFires(t) ==
  /\ Alive
  /\ t \in peer.timers
  /\ \A i \in 1 .. Len(peer.queue) : peer.queue[i].ev # t
  /\ peer' = Notify(peer, Simple(t))
  /\ UNCHANGED <<conn, connector, app, sender>>

\* DiameterPeerConnector::Start, or the application starting one peer.
AppStart ==
  /\ Room
  /\ app = "run"
  /\ peer' = Notify(peer, Simple("START"))
  /\ Connect
  /\ UNCHANGED <<conn, app, sender>>

AppStop(reboot) ==
  /\ Room
  /\ app = "run"
  /\ peer' = Stop(peer, reboot)
  /\ UNCHANGED <<conn, connector, app, sender>>

ConnectorSuccess(c) ==
  /\ Room
  /\ connector = "busy"
  /\ conn[c] = Free
  /\ Becomes(ConnectionRequestAccepted(peer, c),
             [conn EXCEPT ![c] = Fresh("I")])
  /\ connector' = "idle"
  /\ UNCHANGED <<app, sender>>

ConnectorFailed ==
  /\ Room
  /\ connector = "busy"
  /\ peer' = ConnectionRequestFailed(peer)
  /\ connector' = "idle"
  /\ UNCHANGED <<conn, app, sender>>

\* The acceptor hands each new connection to a PendingResponder.
AcceptorSuccess(c) ==
  /\ Alive
  /\ app = "run"
  /\ conn[c] = Free
  /\ conn' = [conn EXCEPT ![c] = Fresh("P")]
  /\ UNCHANGED <<peer, connector, app, sender>>

\* A CER whose Origin-Host is this entry's.
PendingCER(c, ok) ==
  /\ Room
  /\ conn[c].kind = "P"
  /\ conn[c].reader
  /\ ~conn[c].gc
  /\ Len(peer.rx) < MaxRx
  /\ \E id \in 1 .. IdMod :
       Becomes(IncommingConnectionRequest(peer, c,
                 [cmd |-> "CER", id |-> id, ok |-> ok]),
               [conn EXCEPT ![c].kind = "R"])
  /\ UNCHANGED <<connector, app, sender>>

\* Any other message, an unknown Origin-Host, a transport error.
PendingError(c) ==
  /\ Alive
  /\ conn[c].kind = "P"
  /\ conn[c].reader
  /\ ~conn[c].gc
  /\ conn' = Discard(conn, {c})
  /\ UNCHANGED <<peer, connector, app, sender>>

\* The reader thread of a connection registered with this entry, which
\* includes a connection waiting for deletion.
ReaderMessage(c, m) ==
  /\ Room
  /\ conn[c].kind \in Role
  /\ conn[c].reader
  /\ m.cmd \in Request => Len(peer.rx) < MaxRx
  /\ peer' = Message(peer, m)
  /\ UNCHANGED <<conn, connector, app, sender>>

ReaderError(c) ==
  /\ Room
  /\ conn[c].kind \in Role
  /\ conn[c].reader
  /\ peer' = TransportError(peer, conn[c].kind)
  /\ conn' = [conn EXCEPT ![c].reader = FALSE]
  /\ UNCHANGED <<connector, app, sender>>

\* DiameterGarbageCollector::Serve.
Collect(c) ==
  /\ Alive
  /\ conn[c].gc
  /\ conn' = [conn EXCEPT ![c] = Free]
  /\ UNCHANGED <<peer, connector, app, sender>>

\* Send() by an application or router thread, without the lock of Serve: it
\* reads the state, then the connection of that role.
SendReadsState(s) ==
  /\ Alive
  /\ peer.running
  /\ sender[s] = "idle"
  /\ peer.state \in Open
  /\ sender' = [sender EXCEPT ![s] = peer.state]
  /\ UNCHANGED <<peer, conn, connector, app>>

SendReadsIO(s) ==
  /\ Alive
  /\ sender[s] \in Open
  /\ peer' = Settled(Send(peer,
                IF sender[s] = "I_OPEN" THEN peer.ini ELSE peer.res, NoMsg))
  /\ sender' = [sender EXCEPT ![s] = "idle"]
  /\ UNCHANGED <<conn, connector, app>>
----------------------------------------------------------------------------
(* DiameterApplication::Close: stop the peers, poll until none is open,    *)
(* then delete the entries.                                                *)
CloseStops ==
  /\ MayClose
  /\ Room
  /\ app = "run"
  /\ peer' = Stop(peer, TRUE)
  /\ app' = "polling"
  /\ UNCHANGED <<conn, connector, sender>>

\* GetNumOpenPeers() = 0: "All peers connection(s) closed" is logged.
CloseSeesNoneOpen ==
  /\ Alive
  /\ app = "polling"
  /\ peer.state \notin Open
  /\ app' = "clearing"
  /\ UNCHANGED <<peer, conn, connector, sender>>

\* The destructors: stop the machine, and wait for a Cleanup unless CLOSED.
CloseDeletes ==
  /\ Alive
  /\ app = "clearing"
  /\ peer' = [peer EXCEPT !.running = FALSE]
  /\ app' = IF peer.state = "CLOSED" THEN "closed" ELSE "waiting"
  /\ UNCHANGED <<conn, connector, sender>>
----------------------------------------------------------------------------
RemoteMsg ==
  {m \in Msg : /\ m.cmd \in Request => m.id # 0
               /\ m.cmd \notin {"CER", "CEA", "DWA"} => m.ok
               /\ m.cmd = "APP" => m.id = 0}

Next ==
  \/ ServeEvent
  \/ \E t \in TimerEvent : TimerFires(t)
  \/ AppStart
  \/ \E reboot \in BOOLEAN : AppStop(reboot)
  \/ \E c \in Conn : ConnectorSuccess(c)
  \/ ConnectorFailed
  \/ \E c \in Conn : AcceptorSuccess(c)
  \/ \E c \in Conn, ok \in BOOLEAN : PendingCER(c, ok)
  \/ \E c \in Conn : PendingError(c)
  \/ \E c \in Conn, m \in RemoteMsg : ReaderMessage(c, m)
  \/ \E c \in Conn : ReaderError(c)
  \/ \E c \in Conn : Collect(c)
  \/ \E s \in Sender : SendReadsState(s) \/ SendReadsIO(s)
  \/ CloseStops
  \/ CloseSeesNoneOpen
  \/ CloseDeletes

Spec == Init /\ [][Next]_vars

\* The reactor fires armed timers, the job threads serve the queue, and the
\* thread in Close() runs.  Nothing is assumed of the remote node, the
\* connector or the application.
Fairness ==
  /\ WF_vars(ServeEvent)
  /\ \A t \in TimerEvent : WF_vars(TimerFires(t))
  /\ WF_vars(CloseSeesNoneOpen)
  /\ WF_vars(CloseDeletes)
FairSpec == Spec /\ Fairness
----------------------------------------------------------------------------
(* Properties.                                                             *)

\* Types of the peer and its environment; also that a retry budget is never
\* overrun and that no event of Serve() outlives it.
TypeOK ==
  /\ peer \in Peer
  /\ Quiet(peer)
  /\ peer.attempt <= ReconnectMax
  /\ conn \in [Conn -> Link]
  /\ connector \in {"idle", "busy"}
  /\ app \in {"run", "polling", "clearing", "waiting", "closed"}
  /\ sender \in [Sender -> Open \cup {"idle"}]

\* Whatever the machine waits for, its timer is armed; no stale TIMEOUT can
\* close an open peer; a closed one runs no timer but the retry (some twenty
\* actions schedule and cancel timers, Cleanup in the middle of several).
TimerInv == TimersMatch(peer)

\* Where the machine owns a connection: in a role, or in an event that still
\* carries it.
Queued(i) == peer.queue[i].io
Held(c)   == c \in {peer.ini, peer.res}
             \/ \E i \in 1 .. Len(peer.queue) : Queued(i) = c

\* A connection handed to the entry and not yet discarded is owned, so it
\* cannot leak; what is owned has not been discarded, so nothing the machine
\* uses is deleted; and no connection is owned twice, so no discard is
\* repeated (the auto_ptr assignments and ScheduleForDeletion calls of the
\* actions, a Cleanup in the middle of some of them).
OwnedOnce ==
  /\ \A c \in Conn : Held(c) <=> (conn[c].kind \in Role /\ ~conn[c].gc)
  /\ peer.ini # NoConn => peer.ini # peer.res
  /\ \A i \in 1 .. Len(peer.queue) : Queued(i) # NoConn =>
       /\ Queued(i) \notin {peer.ini, peer.res}
       /\ \A j \in 1 .. Len(peer.queue) : i # j => Queued(i) # Queued(j)

\* Every state has the connections it uses and none it would leak: no order
\* of acknowledgements, CERs and disconnections during the handshake and the
\* election leaves a handshaking or open machine without its connection.
ConnInv == ConnsMatch(peer)

\* The router and the application are told of every open peer.
OpenAnnounced == peer.state \in Open => peer.up

\* A machine that has won its election has the event that ends it in its
\* queue: Elect() posts it to the queue of the machine that is just serving,
\* and no step may lose it.
WinIsPending ==
  peer.state = "WAIT_RETURNS" /\ peer.elect = "win" /\ peer.running =>
    \E i \in 1 .. Len(peer.queue) : peer.queue[i].ev = "WIN_ELECTION"

\* Whatever the remote node does, no wait is for ever: a machine that is
\* served, and whose timers fire, leaves its handshake or its closing.
WaitEnds ==
  peer.state \in Waiting ~>
    (peer.state \notin Waiting \/ peer.fault \/ ~peer.running)
============================================================================
