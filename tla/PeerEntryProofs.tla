-------------------------- MODULE PeerEntryProofs --------------------------
(***************************************************************************)
(* Theorems about PeerEntry, for every number of connections and sender    *)
(* threads, every id space and retry limit, every queue length.            *)
(*                                                                         *)
(* First what the handlers of PeerFsm preserve: what each helper does to   *)
(* the fields the invariants speak about, then one lemma per handler, then *)
(* one per state of the table, and Serve as a whole (ServeGood).           *)
(*                                                                         *)
(* The inductive invariant is Inv: the machine is Good and Quiet, and the  *)
(* variables of its environment have their types.  Good alone is not       *)
(* inductive for the whole entry: the handlers of                          *)
(* CONN_ACK and R_CONN_CER leave a machine that owns a connection only     *)
(* because exactly these events carry one, which is the constraint in      *)
(* Param that every Notify() respects; and a step of another thread keeps  *)
(* what the last Serve() left only because nothing of its event outlives   *)
(* it (Quiet).                                                             *)
(***************************************************************************)
EXTENDS PeerEntry, TLAPS

\* What an operation that turns p into q leaves alone.
SameTimers(p, q) == q.timers = p.timers /\ q.attempt = p.attempt
SameConns(p, q)  == q.ini = p.ini /\ q.res = p.res
SameFlags(p, q)  == q.state = p.state /\ q.up = p.up /\ q.fault = p.fault

\* The inductive invariant of one machine.
Good(p) ==
  /\ p \in Peer
  /\ p.attempt <= ReconnectMax
  /\ TimersMatch(p)
  /\ ConnsMatch(p)
  /\ p.state \in Open => p.up

USE DEF SameTimers, SameConns, SameFlags
----------------------------------------------------------------------------
(* Queue, timers, ownership.                                               *)

\* Notify() may queue an event or refuse it; nothing else of the machine
\* changes.
LEMMA NotifyOK ==
  ASSUME NEW p \in Peer, NEW e \in Param
  PROVE  LET q == Notify(p, e)
         IN q \in Peer /\ SameTimers(p, q) /\ SameConns(p, q)
            /\ SameFlags(p, q) /\ q.cio = p.cio
<1>1. p.queue \in Seq(Param) /\ e.io \in Conn \cup {NoConn}
      /\ p.gone \in SUBSET Conn
  BY DEF Param, Peer
<1>2. PICK l \in Seq(Param) : l = Append(p.queue, e)
  <2>1. Append(p.queue, e) \in Seq(Param)
    BY <1>1
  <2> QED
    BY <2>1, Zenon
<1>3. PICK g \in SUBSET Conn : g = p.gone \cup ({e.io} \ {NoConn})
  <2>1. p.gone \cup ({e.io} \ {NoConn}) \in SUBSET Conn
    BY <1>1
  <2> QED
    BY <2>1, Zenon
<1>4. CASE p.running
  <2>1. Notify(p, e) = [p EXCEPT !.queue = l]
    BY <1>2, <1>4 DEF Notify
  <2> QED
    BY <2>1 DEF Peer
<1>5. CASE ~p.running
  <2>1. Notify(p, e) = [p EXCEPT !.gone = g]
    BY <1>3, <1>5 DEF Notify
  <2> QED
    BY <2>1 DEF Peer
<1> QED
  BY <1>4, <1>5

\* The state change Event() makes before an action keeps everything but
\* the state.
LEMMA GotoOK ==
  ASSUME NEW p \in Peer, NEW s \in State
  PROVE  LET q == Goto(p, s)
         IN q \in Peer /\ SameTimers(p, q) /\ SameConns(p, q)
            /\ q.state = s /\ q.up = p.up /\ q.fault = p.fault
            /\ q.cio = p.cio
  BY DEF Goto, Peer

\* ScheduleTimer() arms one timer and changes nothing else.
LEMMA ArmOK ==
  ASSUME NEW p \in Peer, NEW t \in TimerEvent
  PROVE  LET q == Arm(p, t)
         IN q \in Peer /\ SameConns(p, q) /\ SameFlags(p, q)
            /\ q.timers = p.timers \cup {t} /\ q.attempt = p.attempt
<1>1. PICK ts \in SUBSET TimerEvent : ts = p.timers \cup {t}
  <2>1. p.timers \cup {t} \in SUBSET TimerEvent
    BY DEF Peer
  <2> QED
    BY <2>1, Zenon
<1>2. Arm(p, t) = [p EXCEPT !.timers = ts]
  BY <1>1 DEF Arm
<1>3. LET q == Arm(p, t)
      IN q \in Peer /\ SameConns(p, q) /\ SameFlags(p, q)
         /\ q.timers = ts /\ q.attempt = p.attempt
  BY <1>2 DEF Peer
<1> QED
  BY <1>1, <1>3

\* CancelTimer() disarms one timer and changes nothing else.
LEMMA CancelOK ==
  ASSUME NEW p \in Peer, NEW t \in TimerEvent
  PROVE  LET q == Cancel(p, t)
         IN q \in Peer /\ SameConns(p, q) /\ SameFlags(p, q)
            /\ q.timers = p.timers \ {t} /\ q.attempt = p.attempt
<1>1. PICK ts \in SUBSET TimerEvent : ts = p.timers \ {t}
  <2>1. p.timers \ {t} \in SUBSET TimerEvent
    BY DEF Peer
  <2> QED
    BY <2>1, Zenon
<1>2. Cancel(p, t) = [p EXCEPT !.timers = ts]
  BY <1>1 DEF Cancel
<1>3. LET q == Cancel(p, t)
      IN q \in Peer /\ SameConns(p, q) /\ SameFlags(p, q)
         /\ q.timers = ts /\ q.attempt = p.attempt
  BY <1>2 DEF Peer
<1> QED
  BY <1>1, <1>3

\* StopReConnect() disarms CONN_RETRY and changes nothing else.
LEMMA StopReConnectOK ==
  ASSUME NEW p \in Peer
  PROVE  LET q == StopReConnect(p)
         IN q \in Peer /\ SameConns(p, q) /\ SameFlags(p, q)
            /\ q.timers = p.timers \ {"CONN_RETRY"} /\ q.attempt = p.attempt
<1>1. "CONN_RETRY" \in TimerEvent
  BY DEF TimerEvent
<1> QED
  BY <1>1, CancelOK DEF StopReConnect

\* The responder becomes the connection of the event.
LEMMA TakeResponderOK ==
  ASSUME NEW p \in Peer
  PROVE  LET q == TakeResponder(p)
         IN q \in Peer /\ SameTimers(p, q) /\ SameFlags(p, q)
            /\ q.res = p.cio /\ q.ini = p.ini
  BY DEF TakeResponder, Peer

\* The initiator becomes the connection of the event.
LEMMA TakeInitiatorOK ==
  ASSUME NEW p \in Peer
  PROVE  LET q == TakeInitiator(p)
         IN q \in Peer /\ SameTimers(p, q) /\ SameFlags(p, q)
            /\ q.ini = p.cio /\ q.res = p.res
  BY DEF TakeInitiator, Peer

\* After the responder is discarded, m_IOResponder is NULL.
LEMMA DropResponderOK ==
  ASSUME NEW p \in Peer
  PROVE  LET q == DropResponder(p)
         IN q \in Peer /\ SameTimers(p, q) /\ SameFlags(p, q)
            /\ q.res = NoConn /\ q.ini = p.ini
  BY DEF DropResponder, Peer

\* After the initiator is discarded, m_IOInitiator is NULL.
LEMMA DropInitiatorOK ==
  ASSUME NEW p \in Peer
  PROVE  LET q == DropInitiator(p)
         IN q \in Peer /\ SameTimers(p, q) /\ SameFlags(p, q)
            /\ q.ini = NoConn /\ q.res = p.res
  BY DEF DropInitiator, Peer

\* The end of Serve() only discards the connection left in the event.
LEMMA DropCurrentOK ==
  ASSUME NEW p \in Peer
  PROVE  LET q == DropCurrent(p)
         IN q \in Peer /\ SameTimers(p, q) /\ SameFlags(p, q)
            /\ SameConns(p, q) /\ q.cio = NoConn
  BY DEF DropCurrent, Peer

\* A Cleanup without CLEANUP_IO_I leaves a closed machine, nothing
\* armed, no responder.
LEMMA CleanupKeepIOK ==
  ASSUME NEW p \in Peer
  PROVE  LET q == CleanupKeepI(p)
         IN q \in Peer /\ q.state = "CLOSED" /\ q.timers = {}
            /\ q.attempt = p.attempt /\ q.res = NoConn
  BY DEF CleanupKeepI, DropCurrent, DropResponder, Peer, State

\* Cleanup leaves a closed machine with nothing armed and no connection.
LEMMA CleanupOK ==
  ASSUME NEW p \in Peer
  PROVE  LET q == Cleanup(p)
         IN q \in Peer /\ q.state = "CLOSED" /\ q.timers = {}
            /\ q.attempt = p.attempt /\ q.res = NoConn
<1> DEFINE d == DropInitiator(p)
<1>1. d \in Peer /\ d.attempt = p.attempt
  BY DropInitiatorOK
<1>2. Cleanup(p) = CleanupKeepI(d)
  BY DEF Cleanup
<1> HIDE DEF d
<1> QED
  BY <1>1, <1>2, CleanupKeepIOK

\* Connected() announces the peer and changes nothing else.
LEMMA ConnectedOK ==
  ASSUME NEW p \in Peer
  PROVE  LET q == Connected(p)
         IN q \in Peer /\ SameTimers(p, q) /\ SameConns(p, q)
            /\ q.state = p.state /\ q.fault = p.fault /\ q.up = TRUE
  BY DEF Connected, Peer

\* Disconnected() withdraws the announcement and changes nothing else.
LEMMA DisconnectedOK ==
  ASSUME NEW p \in Peer
  PROVE  LET q == Disconnected(p)
         IN q \in Peer /\ SameTimers(p, q) /\ SameConns(p, q)
            /\ q.state = p.state /\ q.fault = p.fault
  BY DEF Disconnected, Peer

\* The attempt counter is independent of every other field.
LEMMA SetAttemptOK ==
  ASSUME NEW p \in Peer, NEW n \in Nat
  PROVE  LET q == [p EXCEPT !.attempt = n]
         IN q \in Peer /\ SameConns(p, q) /\ SameFlags(p, q)
            /\ q.timers = p.timers /\ q.attempt = n
  BY DEF Peer

\* The retry never exceeds its limit, and touches only its own timer.
LEMMA DoReConnectOK ==
  ASSUME NEW p \in Peer, p.attempt <= ReconnectMax
  PROVE  LET q == DoReConnect(p)
         IN q \in Peer /\ SameConns(p, q) /\ SameFlags(p, q)
            /\ q.timers \subseteq p.timers \cup {"CONN_RETRY"}
            /\ q.attempt <= ReconnectMax
<1>1. p.attempt \in Nat /\ ReconnectMax \in Nat
  BY PeerFsmAssumption DEF Peer
<1>2. CASE p.attempt >= ReconnectMax
  <2> DEFINE a == [p EXCEPT !.attempt = 0]
  <2>1. DoReConnect(p) = a
    BY <1>2 DEF DoReConnect
  <2>2. 0 \in Nat /\ 0 <= ReconnectMax
    BY <1>1
  <2>3. a \in Peer /\ SameConns(p, a) /\ SameFlags(p, a)
        /\ a.timers = p.timers /\ a.attempt = 0
    BY <2>2, SetAttemptOK, Zenon
  <2> HIDE DEF a
  <2> QED
    BY <2>1, <2>2, <2>3
<1>3. CASE p.attempt < ReconnectMax /\ ReconnectOn
  <2> DEFINE a == [p EXCEPT !.attempt = p.attempt + 1]
  <2>1. DoReConnect(p) = Arm(a, "CONN_RETRY")
    BY <1>1, <1>3 DEF DoReConnect
  <2>2. a \in Peer /\ SameConns(p, a) /\ SameFlags(p, a)
        /\ a.timers = p.timers /\ a.attempt = p.attempt + 1
    <3>1. p.attempt + 1 \in Nat
      BY <1>1
    <3> QED
      BY <3>1, SetAttemptOK, Zenon
  <2>3. "CONN_RETRY" \in TimerEvent
    BY DEF TimerEvent
  <2> HIDE DEF a
  <2> QED
    BY <2>1, <2>2, <2>3, <1>1, <1>3, ArmOK
<1>4. CASE p.attempt < ReconnectMax /\ ~ReconnectOn
  BY <1>1, <1>4 DEF DoReConnect
<1> QED
  BY <1>1, <1>2, <1>3, <1>4
----------------------------------------------------------------------------
(* Messages.                                                               *)

\* Sending changes no timer, connection or announcement; NULL is a
\* fault.
LEMMA SendOK ==
  ASSUME NEW p \in Peer, NEW io \in Conn \cup {NoConn}, NEW m \in Msg
  PROVE  LET q == Send(p, io, m)
         IN q \in Peer /\ SameTimers(p, q) /\ SameConns(p, q)
            /\ q.state = p.state /\ q.up = p.up /\ q.cio = p.cio
            /\ (io = NoConn => q.fault)
<1>1. CASE io = NoConn
  <2>1. Send(p, io, m) = [p EXCEPT !.fault = TRUE]
    BY <1>1 DEF Send
  <2> QED
    BY <2>1, <1>1 DEF Peer
<1>2. CASE io # NoConn
  <2>1. Append(p.sent, [io |-> io, msg |-> m]) \in Seq([io : Conn, msg : Msg])
    BY <1>2 DEF Peer
  <2>2. PICK l \in Seq([io : Conn, msg : Msg]) :
          l = Append(p.sent, [io |-> io, msg |-> m])
    BY <2>1, Zenon
  <2>3. Send(p, io, m) = [p EXCEPT !.sent = l]
    BY <1>2, <2>2 DEF Send
  <2> QED
    BY <2>3, <1>2 DEF Peer
<1> QED
  BY <1>1, <1>2

\* A request takes a fresh id; timers and connections are kept.
LEMMA SendRequestOK ==
  ASSUME NEW p \in Peer, NEW io \in Conn \cup {NoConn}, NEW c \in Request
  PROVE  LET q == SendRequest(p, io, c)
         IN q \in Peer /\ SameTimers(p, q) /\ SameConns(p, q)
            /\ q.state = p.state /\ q.up = p.up
            /\ (io = NoConn => q.fault)
<1>1. PICK id \in Id : id = (p.next % IdMod) + 1
  <2>1. p.next \in 0 .. IdMod /\ IdMod \in Nat \ {0}
    BY PeerFsmAssumption DEF Peer, Id
  <2>2. (p.next % IdMod) + 1 \in 0 .. IdMod
    BY <2>1
  <2> QED
    BY <2>2, Zenon DEF Id
<1>2. PICK t \in SUBSET Id : t = p.tx \cup {id}
  <2>1. p.tx \cup {id} \in SUBSET Id
    BY DEF Peer
  <2> QED
    BY <2>1, Zenon
<1> DEFINE a == [p EXCEPT !.next = id, !.tx = t]
           m == [cmd |-> c, id |-> id, ok |-> TRUE]
<1>3. m \in Msg
  BY DEF Msg, Request, Command
<1>4. a \in Peer /\ SameTimers(p, a) /\ SameConns(p, a) /\ SameFlags(p, a)
  BY DEF Peer
<1>5. SendRequest(p, io, c) = Send(a, io, m)
  BY <1>1, <1>2 DEF SendRequest
<1> HIDE DEF a, m
<1>6. LET q == Send(a, io, m)
      IN q \in Peer /\ SameTimers(a, q) /\ SameConns(a, q)
         /\ q.state = a.state /\ q.up = a.up /\ (io = NoConn => q.fault)
  BY <1>3, <1>4, SendOK
<1> QED
  BY <1>4, <1>5, <1>6

\* An answer consumes at most one queued id; timers and connections are
\* kept.
LEMMA SendAnswerOK ==
  ASSUME NEW p \in Peer, NEW io \in Conn \cup {NoConn}, NEW c \in Answer,
         NEW ok \in BOOLEAN
  PROVE  LET q == SendAnswer(p, io, c, ok)
         IN q \in Peer /\ SameTimers(p, q) /\ SameConns(p, q)
            /\ q.state = p.state /\ q.up = p.up
            /\ (io = NoConn => q.fault)
<1>1. CASE p.rx = <<>>
  <2> DEFINE m == [cmd |-> c, id |-> 0, ok |-> ok]
  <2>1. m \in Msg
    BY PeerFsmAssumption DEF Msg, Answer, Command, Id
  <2>2. SendAnswer(p, io, c, ok) = Send(p, io, m)
    BY <1>1 DEF SendAnswer
  <2> HIDE DEF m
  <2> QED
    BY <2>1, <2>2, SendOK
<1>2. CASE p.rx # <<>>
  <2>1. p.rx \in Seq(Id)
    BY DEF Peer
  <2>2. Head(p.rx) \in Id /\ Tail(p.rx) \in Seq(Id)
    BY <1>2, <2>1
  <2>3. PICK h \in Id, r \in Seq(Id) : h = Head(p.rx) /\ r = Tail(p.rx)
    BY <2>2, Zenon
  <2> DEFINE m == [cmd |-> c, id |-> h, ok |-> ok]
             a == [p EXCEPT !.rx = r]
  <2>4. m \in Msg
    BY DEF Msg, Answer, Command
  <2>5. a \in Peer /\ SameTimers(p, a) /\ SameConns(p, a) /\ SameFlags(p, a)
    BY DEF Peer
  <2>6. SendAnswer(p, io, c, ok) = Send(a, io, m)
    BY <1>2, <2>3 DEF SendAnswer
  <2> HIDE DEF m, a
  <2>7. LET q == Send(a, io, m)
        IN q \in Peer /\ SameTimers(a, q) /\ SameConns(a, q)
            /\ q.state = a.state /\ q.up = a.up
            /\ (io = NoConn => q.fault)
    BY <2>4, <2>5, SendOK
  <2> QED
    BY <2>5, <2>6, <2>7
<1> QED
  BY <1>1, <1>2

\* The connection an open peer answers on is one of its two.
LEMMA OpenIOType ==
  ASSUME NEW p \in Peer
  PROVE  OpenIO(p) \in Conn \cup {NoConn}
  BY DEF OpenIO, Peer

\* SendCER keeps timers, connections and announcement.
LEMMA SendCEROK ==
  ASSUME NEW p \in Peer
  PROVE  LET q == SendCER(p)
         IN q \in Peer /\ SameTimers(p, q) /\ SameConns(p, q)
            /\ q.state = p.state /\ q.up = p.up
<1>1. p.ini \in Conn \cup {NoConn} /\ "CER" \in Request
  BY DEF Peer, Request
<1> QED
  BY <1>1, SendRequestOK DEF SendCER

\* SendCEA keeps timers, connections and announcement.
LEMMA SendCEAOK ==
  ASSUME NEW p \in Peer, NEW ok \in BOOLEAN
  PROVE  LET q == SendCEA(p, ok)
         IN q \in Peer /\ SameTimers(p, q) /\ SameConns(p, q)
            /\ q.state = p.state /\ q.up = p.up
            /\ (OpenIO(p) = NoConn => q.fault)
<1>1. "CEA" \in Answer
  BY DEF Answer
<1> QED
  BY <1>1, OpenIOType, SendAnswerOK DEF SendCEA

\* SendDWR keeps timers, connections and announcement.
LEMMA SendDWROK ==
  ASSUME NEW p \in Peer
  PROVE  LET q == SendDWR(p)
         IN q \in Peer /\ SameTimers(p, q) /\ SameConns(p, q)
            /\ q.state = p.state /\ q.up = p.up
            /\ (OpenIO(p) = NoConn => q.fault)
<1>1. "DWR" \in Request
  BY DEF Request
<1> QED
  BY <1>1, OpenIOType, SendRequestOK DEF SendDWR

\* SendDWA keeps timers, connections and announcement.
LEMMA SendDWAOK ==
  ASSUME NEW p \in Peer
  PROVE  LET q == SendDWA(p)
         IN q \in Peer /\ SameTimers(p, q) /\ SameConns(p, q)
            /\ q.state = p.state /\ q.up = p.up
            /\ (OpenIO(p) = NoConn => q.fault)
<1>1. "DWA" \in Answer
  BY DEF Answer
<1> QED
  BY <1>1, OpenIOType, SendAnswerOK DEF SendDWA

\* Opening exchanges TIMEOUT for WATCHDOG.
LEMMA StartWatchdogOK ==
  ASSUME NEW p \in Peer
  PROVE  LET q == StartWatchdog(p)
         IN q \in Peer /\ SameConns(p, q) /\ SameFlags(p, q)
            /\ q.timers = (p.timers \ {"TIMEOUT"}) \cup {"WATCHDOG"}
            /\ q.attempt = p.attempt
<1> DEFINE c == Cancel(p, "TIMEOUT")
<1>1. "TIMEOUT" \in TimerEvent /\ "WATCHDOG" \in TimerEvent
  BY DEF TimerEvent
<1>2. c \in Peer /\ SameConns(p, c) /\ SameFlags(p, c)
      /\ c.timers = p.timers \ {"TIMEOUT"} /\ c.attempt = p.attempt
  BY <1>1, CancelOK
<1>3. StartWatchdog(p) = Arm(c, "WATCHDOG")
  BY DEF StartWatchdog
<1> HIDE DEF c
<1>4. LET q == Arm(c, "WATCHDOG")
      IN q \in Peer /\ SameConns(c, q) /\ SameFlags(c, q)
         /\ q.timers = c.timers \cup {"WATCHDOG"} /\ q.attempt = c.attempt
  BY <1>1, <1>2, ArmOK
<1> QED
  BY <1>2, <1>3, <1>4
----------------------------------------------------------------------------
(* Handlers that end in CLOSED.                                            *)

Shut(q) ==
  /\ q \in Peer
  /\ q.state = "CLOSED"
  /\ q.timers \subseteq {"CONN_RETRY"}
  /\ q.attempt <= ReconnectMax
  /\ q.res = NoConn

\* A closed machine with nothing but a retry armed is Good.
LEMMA ShutGood ==
  ASSUME NEW q, Shut(q)
  PROVE  Good(q)
  BY DEF Shut, Good, TimersMatch, ConnsMatch, Waiting, Handshaking, Open

\* Cleanup shuts the machine.
LEMMA CleanupShut ==
  ASSUME NEW p \in Peer, p.attempt <= ReconnectMax
  PROVE  Shut(Cleanup(p)) /\ Shut(CleanupKeepI(p))
  BY CleanupOK, CleanupKeepIOK DEF Shut

\* Scheduling a retry keeps the machine shut and the attempt budget.
LEMMA DoReConnectShut ==
  ASSUME NEW p, Shut(p)
  PROVE  Shut(DoReConnect(p))
  BY DoReConnectOK DEF Shut

\* Disconnected() keeps the machine shut.
LEMMA DisconnectedShut ==
  ASSUME NEW p, Shut(p)
  PROVE  Shut(Disconnected(p))
  BY DisconnectedOK DEF Shut

\* The handler of a failed connection attempt shuts the machine.
LEMMA ConnNackShut ==
  ASSUME NEW p \in Peer, p.attempt <= ReconnectMax
  PROVE  Shut(ConnNack(p))
  BY CleanupShut, DoReConnectShut DEF ConnNack

\* The handler of a lost connection shuts the machine.
LEMMA DisconnectShut ==
  ASSUME NEW p \in Peer, p.attempt <= ReconnectMax
  PROVE  Shut(Disconnect(p))
  BY CleanupShut, DoReConnectShut, DisconnectedShut DEF Disconnect

\* The handler of a DPA shuts the machine.
LEMMA DisconnectDPAShut ==
  ASSUME NEW p \in Peer, p.attempt <= ReconnectMax
  PROVE  Shut(DisconnectDPA(p))
<1> DEFINE d == Disconnected(p)
           q == Cleanup(d)
<1>1. d \in Peer /\ d.attempt <= ReconnectMax
  BY DisconnectedOK
<1>2. DisconnectDPA(p) = IF q.reboot THEN DoReConnect(q) ELSE q
  BY DEF DisconnectDPA
<1>3. Shut(q)
  <2> HIDE DEF d
  <2> QED
    BY <1>1, CleanupShut
<1> HIDE DEF q
<1> QED
  BY <1>2, <1>3, DoReConnectShut

\* The handler of a DPR shuts the machine.
LEMMA SendDPADisconnectShut ==
  ASSUME NEW p \in Peer, p.attempt <= ReconnectMax, NEW io \in Conn \cup {NoConn}
  PROVE  Shut(SendDPADisconnect(p, io))
<1> DEFINE a == SendAnswer(p, io, "DPA", TRUE)
<1>1. a \in Peer /\ a.attempt <= ReconnectMax
  BY SendAnswerOK DEF Answer
<1>2. SendDPADisconnect(p, io) = Disconnected(Cleanup(a))
  BY DEF SendDPADisconnect
<1> HIDE DEF a
<1> QED
  BY <1>1, <1>2, CleanupShut, DisconnectedShut
----------------------------------------------------------------------------
(* Handlers that open the peer.                                            *)

Opened(q) ==
  /\ q \in Peer
  /\ q.attempt <= ReconnectMax
  /\ "WATCHDOG" \in q.timers /\ "TIMEOUT" \notin q.timers
  /\ q.up
  /\ \/ q.state = "I_OPEN" /\ q.ini # NoConn /\ q.res = NoConn
     \/ q.state = "R_OPEN" /\ (q.fault \/ q.res # NoConn)

\* A machine opened with its connection, watchdog and announcement is
\* Good.
LEMMA OpenedGood ==
  ASSUME NEW q, Opened(q)
  PROVE  Good(q)
  BY DEF Opened, Good, TimersMatch, ConnsMatch, Waiting, Handshaking, Open

\* What a machine must have when a handler calls StartWatchdog.
Ready(p) ==
  /\ p \in Peer
  /\ p.attempt <= ReconnectMax
  /\ \/ p.state = "I_OPEN" /\ p.ini # NoConn /\ p.res = NoConn
     \/ p.state = "R_OPEN" /\ (p.fault \/ p.res # NoConn)

\* From a ready machine, cancelling the retry, starting the watchdog and
\* announcing the peer, in the orders the handlers use, opens it.
LEMMA ReadyOpens ==
  ASSUME NEW p, Ready(p)
  PROVE  /\ Ready(StopReConnect(p))
         /\ Opened(Connected(StartWatchdog(p)))
         /\ Opened(Connected(StopReConnect(StartWatchdog(p))))
<1> DEFINE w == StartWatchdog(p)
           s == StopReConnect(w)
<1>1. p \in Peer
  BY DEF Ready
<1>2. Ready(StopReConnect(p))
  BY <1>1, StopReConnectOK DEF Ready
<1>3. w \in Peer /\ SameConns(p, w) /\ SameFlags(p, w)
      /\ "WATCHDOG" \in w.timers /\ "TIMEOUT" \notin w.timers
      /\ w.attempt = p.attempt
  BY <1>1, StartWatchdogOK
<1>4. s \in Peer /\ SameConns(p, s) /\ SameFlags(p, s)
      /\ "WATCHDOG" \in s.timers /\ "TIMEOUT" \notin s.timers
      /\ s.attempt = p.attempt
  <2> HIDE DEF w
  <2> QED
    BY <1>3, StopReConnectOK
<1> HIDE DEF w, s
<1>5. Opened(Connected(w))
  BY <1>3, ConnectedOK DEF Ready, Opened
<1>6. Opened(Connected(s))
  BY <1>4, ConnectedOK DEF Ready, Opened
<1> QED
  BY <1>2, <1>5, <1>6 DEF w, s
----------------------------------------------------------------------------
(* Handlers that keep the peer waiting, or as it is.                       *)

Waits(q) ==
  /\ q \in Peer
  /\ q.attempt <= ReconnectMax
  /\ q.state \in Waiting
  /\ "TIMEOUT" \in q.timers /\ "WATCHDOG" \notin q.timers
  /\ ConnsMatch(q)

\* A waiting machine with its TIMEOUT and connections is Good.
LEMMA WaitsGood ==
  ASSUME NEW q, Waits(q)
  PROVE  Good(q)
  BY DEF Waits, Good, TimersMatch, Waiting, Handshaking, Open

\* A step that keeps state, timers, connections and announcement keeps
\* Good.
LEMMA SameGood ==
  ASSUME NEW p, Good(p), ~p.fault,
         NEW q \in Peer, SameTimers(p, q), SameConns(p, q),
         q.state = p.state, q.up = p.up
  PROVE  Good(q)
  BY DEF Good, TimersMatch, ConnsMatch

\* Elect() waits on, posts WIN_ELECTION, or closes.
LEMMA ElectGood ==
  ASSUME NEW p, Waits(p)
  PROVE  Good(Elect(p))
<1>1. p \in Peer /\ p.elect \in {"win", "lose", "same"}
  BY DEF Waits, Peer
<1>2. CASE p.elect = "same"
  BY <1>1, <1>2, CleanupShut, ShutGood DEF Elect, Waits
<1>3. CASE p.elect = "win"
  <2> DEFINE e == Simple("WIN_ELECTION")
             q == Notify(p, e)
  <2>1. e \in Param
    BY PeerFsmAssumption
    DEF Simple, Param, Event, TimerEvent, Role, NoMsg, Msg, Id, Command
  <2>2. Elect(p) = q
    BY <1>3 DEF Elect
  <2> HIDE DEF e
  <2>3. q \in Peer /\ SameTimers(p, q) /\ SameConns(p, q) /\ SameFlags(p, q)
    BY <1>1, <2>1, NotifyOK
  <2> HIDE DEF q
  <2>4. Waits(q)
    BY <2>3 DEF Waits, ConnsMatch
  <2> QED
    BY <2>2, <2>4, WaitsGood
<1>4. CASE p.elect = "lose"
  BY <1>4, WaitsGood DEF Elect
<1> QED
  BY <1>1, <1>2, <1>3, <1>4

\* Sending a DPR takes an open machine to a Good closing one.
LEMMA SendDPRGood ==
  ASSUME NEW p \in Peer, p.attempt <= ReconnectMax, p.state = "CLOSING",
         NEW io \in Conn \cup {NoConn}
  PROVE  Good(SendDPR(p, io))
<1> DEFINE c == Cancel(p, "WATCHDOG")
           a == Arm(c, "TIMEOUT")
           q == SendRequest(a, io, "DPR")
<1>1. "WATCHDOG" \in TimerEvent /\ "TIMEOUT" \in TimerEvent /\ "DPR" \in Request
  BY DEF TimerEvent, Request
<1>2. c \in Peer /\ c.state = "CLOSING" /\ "WATCHDOG" \notin c.timers
      /\ c.attempt = p.attempt
  BY <1>1, CancelOK
<1>3. a \in Peer /\ a.state = "CLOSING" /\ "WATCHDOG" \notin a.timers
      /\ "TIMEOUT" \in a.timers /\ a.attempt = p.attempt
  <2> HIDE DEF c
  <2> QED
    BY <1>1, <1>2, ArmOK
<1>4. q \in Peer /\ q.state = "CLOSING" /\ SameTimers(a, q)
  <2> HIDE DEF a
  <2> QED
    BY <1>1, <1>3, SendRequestOK
<1>5. SendDPR(p, io) = q
  BY DEF SendDPR
<1> HIDE DEF a, q
<1>6. Waits(q)
  BY <1>3, <1>4 DEF Waits, ConnsMatch, Waiting
<1> QED
  BY <1>5, <1>6, WaitsGood
----------------------------------------------------------------------------
(* The other handlers.                                                     *)

\* Accepting a CER in CLOSED leaves a Good machine.
LEMMA RAcceptSendCEAGood ==
  ASSUME NEW p \in Peer, p.attempt <= ReconnectMax, p.state = "R_OPEN",
         p.cio # NoConn, NEW m \in Msg
  PROVE  Good(RAcceptSendCEA(p, m))
<1> DEFINE t == TakeResponder(p)
           q == SendCEA(t, m.ok)
<1>1. m.ok \in BOOLEAN
  BY DEF Msg
<1>2. t \in Peer /\ t.attempt = p.attempt /\ t.state = "R_OPEN"
      /\ t.res # NoConn
  BY TakeResponderOK
<1>3. q \in Peer /\ q.attempt = p.attempt /\ q.state = "R_OPEN"
      /\ q.res # NoConn
  <2> HIDE DEF t
  <2> QED
    BY <1>1, <1>2, SendCEAOK
<1>4. RAcceptSendCEA(p, m) =
        IF m.ok THEN Connected(StopReConnect(StartWatchdog(q)))
                ELSE Cleanup(q)
  BY DEF RAcceptSendCEA
<1> HIDE DEF q
<1>5. Ready(q)
  BY <1>3 DEF Ready
<1> QED
  BY <1>3, <1>4, <1>5, ReadyOpens, OpenedGood, CleanupShut, ShutGood

\* Answering the CER of an election leaves a Good machine (or a fault,
\* without its responder).
LEMMA RSendCEAGood ==
  ASSUME NEW p \in Peer, p.attempt <= ReconnectMax, p.state = "R_OPEN"
  PROVE  Good(RSendCEA(p))
<1> DEFINE t == TakeResponder(p)
           q == SendCEA(t, TRUE)
<1>1. t \in Peer /\ t.attempt = p.attempt /\ t.state = "R_OPEN"
  BY TakeResponderOK
<1>2. OpenIO(t) = t.res
  BY <1>1 DEF OpenIO
<1>3. q \in Peer /\ q.attempt = p.attempt /\ q.state = "R_OPEN"
      /\ (q.fault \/ q.res # NoConn)
  <2> HIDE DEF t
  <2>1. q \in Peer /\ SameTimers(t, q) /\ SameConns(t, q)
        /\ q.state = t.state /\ (OpenIO(t) = NoConn => q.fault)
    BY <1>1, SendCEAOK
  <2> HIDE DEF q
  <2> QED
    BY <1>1, <1>2, <2>1
<1>4. RSendCEA(p) = Connected(StartWatchdog(q))
  BY DEF RSendCEA
<1> HIDE DEF q
<1>5. Ready(q)
  BY <1>3 DEF Ready
<1> QED
  BY <1>4, <1>5, ReadyOpens, OpenedGood

\* Winning the election leaves a Good machine, open on its responder.
LEMMA IDisconnectSendCEAGood ==
  ASSUME NEW p \in Peer, p.attempt <= ReconnectMax, p.state = "R_OPEN",
         p.res # NoConn
  PROVE  Good(IDisconnectSendCEA(p))
<1> DEFINE d == DropInitiator(p)
           q == SendCEA(d, TRUE)
<1>1. d \in Peer /\ d.attempt = p.attempt /\ d.state = "R_OPEN"
      /\ d.res # NoConn
  BY DropInitiatorOK
<1>2. q \in Peer /\ q.attempt = p.attempt /\ q.state = "R_OPEN"
      /\ q.res # NoConn
  <2> HIDE DEF d
  <2> QED
    BY <1>1, SendCEAOK
<1>3. IDisconnectSendCEA(p) = Connected(StartWatchdog(q))
  BY DEF IDisconnectSendCEA
<1> HIDE DEF q
<1>4. Ready(q)
  BY <1>2 DEF Ready
<1> QED
  BY <1>3, <1>4, ReadyOpens, OpenedGood

\* A CEA opens the peer or shuts it.
LEMMA ProcessCEAGood ==
  ASSUME NEW p, Ready(p), NEW m \in Msg
  PROVE  Good(ProcessCEA(p, m))
<1> DEFINE s == StopReConnect(p)
<1>1. ProcessCEA(p, m) =
        IF m.ok THEN Connected(StartWatchdog(s)) ELSE Cleanup(p)
  BY DEF ProcessCEA
<1>2. Ready(s)
  BY ReadyOpens
<1>3. p \in Peer /\ p.attempt <= ReconnectMax
  BY DEF Ready
<1> HIDE DEF s
<1> QED
  BY <1>1, <1>2, <1>3, ReadyOpens, OpenedGood, CleanupShut, ShutGood

\* Losing the election opens the peer on its initiator, or shuts it.
LEMMA RDisconnectIOpenGood ==
  ASSUME NEW p \in Peer, p.attempt <= ReconnectMax, p.state = "I_OPEN",
         p.ini # NoConn, NEW m \in Msg
  PROVE  Good(RDisconnectIOpen(p, m))
<1> DEFINE w == StartWatchdog(p)
           d == DropResponder(w)
           q == Connected(d)
<1>1. CASE ~m.ok
  BY <1>1, CleanupShut, ShutGood DEF RDisconnectIOpen
<1>2. CASE m.ok
  <2>1. w \in Peer /\ SameConns(p, w) /\ SameFlags(p, w)
        /\ "WATCHDOG" \in w.timers /\ "TIMEOUT" \notin w.timers
        /\ w.attempt = p.attempt
    BY StartWatchdogOK
  <2>2. d \in Peer /\ SameTimers(w, d) /\ SameFlags(w, d)
        /\ d.res = NoConn /\ d.ini = w.ini
    <3> HIDE DEF w
    <3> QED
      BY <2>1, DropResponderOK
  <2>3. q \in Peer /\ SameTimers(d, q) /\ SameConns(d, q)
        /\ q.state = d.state /\ q.up = TRUE
    <3> HIDE DEF d
    <3> QED
      BY <2>2, ConnectedOK
  <2>4. RDisconnectIOpen(p, m) = q
    BY <1>2 DEF RDisconnectIOpen
  <2> HIDE DEF w, d, q
  <2>5. Opened(q)
    BY <2>1, <2>2, <2>3 DEF Opened
  <2> QED
    BY <2>4, <2>5, OpenedGood
<1> QED
  BY <1>1, <1>2
----------------------------------------------------------------------------
(* The state table, one lemma per state.                                   *)

\* A sound machine that is serving event e.
Serving(p, e) ==
  Good(p) /\ ~p.fault /\ e \in Param /\ p.cio = e.io

\* The state change before an action keeps what the action relies on.
LEMMA GotoServing ==
  ASSUME NEW p, NEW e, Serving(p, e), NEW s \in State
  PROVE  LET g == Goto(p, s)
         IN /\ g \in Peer
            /\ g.attempt <= ReconnectMax
            /\ g.state = s /\ g.up = p.up /\ ~g.fault /\ g.cio = e.io
            /\ SameTimers(p, g) /\ SameConns(p, g)
<1>1. p \in Peer /\ p.attempt <= ReconnectMax
  BY DEF Serving, Good
<1> QED
  BY <1>1, GotoOK DEF Serving

\* The handlers on the way to CLOSED leave a Good machine.
LEMMA GotoClosedGood ==
  ASSUME NEW p, NEW e, Serving(p, e)
  PROVE  LET g == Goto(p, "CLOSED")
         IN /\ Good(Cleanup(g)) /\ Good(Error(g))
            /\ Good(ConnNack(g)) /\ Good(Disconnect(g)) /\ Good(DisconnectDPA(g))
<1> DEFINE g == Goto(p, "CLOSED")
<1>1. g \in Peer /\ g.attempt <= ReconnectMax
  BY GotoServing DEF State
<1> HIDE DEF g
<1>2. Good(Cleanup(g)) /\ Good(ConnNack(g)) /\ Good(Disconnect(g))
      /\ Good(DisconnectDPA(g))
  BY <1>1, CleanupShut, ConnNackShut, DisconnectShut, DisconnectDPAShut,
     ShutGood
<1>3. Good(Error(g))
  BY <1>2 DEF Error
<1> QED
  BY <1>2, <1>3 DEF g

\* Exactly the events of a new connection carry one.
LEMMA ParamFacts ==
  ASSUME NEW e \in Param
  PROVE  /\ e.msg \in Msg
         /\ e.io # NoConn <=> e.ev \in {"CONN_ACK", "R_CONN_CER"}
  BY DEF Param

\* A rejected CER leaves the machine as it was.
LEMMA RRejectGood ==
  ASSUME NEW p, NEW e, Serving(p, e)
  PROVE  Good(RReject(p))
<1> DEFINE q == DropCurrent(p)
<1>1. p \in Peer
  BY DEF Serving, Good
<1>2. q \in Peer /\ SameTimers(p, q) /\ SameConns(p, q) /\ SameFlags(p, q)
  BY <1>1, DropCurrentOK
<1>3. RReject(p) = q
  BY DEF RReject
<1> HIDE DEF q
<1> QED
  BY <1>2, <1>3, SameGood DEF Serving

\* Every entry of CLOSED leaves a Good machine.
LEMMA InClosedGood ==
  ASSUME NEW p, NEW e, Serving(p, e), p.state = "CLOSED"
  PROVE  Good(InClosed(p, e))
<1>1. p.timers \subseteq {"CONN_RETRY"} /\ p.res = NoConn
  BY DEF Serving, Good, TimersMatch, ConnsMatch
<1>2. CASE e.ev = "START"
  <2> DEFINE g == Goto(p, "WAIT_CONN_ACK")
             q == Arm(g, "TIMEOUT")
  <2>1. g \in Peer /\ g.attempt <= ReconnectMax /\ g.state = "WAIT_CONN_ACK"
        /\ SameTimers(p, g) /\ SameConns(p, g)
    BY GotoServing DEF State, Waiting, Handshaking
  <2>2. q \in Peer /\ SameConns(g, q) /\ SameFlags(g, q)
        /\ q.timers = g.timers \cup {"TIMEOUT"} /\ q.attempt = g.attempt
    <3> HIDE DEF g
    <3> QED
      BY <2>1, ArmOK DEF TimerEvent
  <2>3. InClosed(p, e) = q
    BY <1>2 DEF InClosed, ISendConnReq
  <2> HIDE DEF g, q
  <2>4. Waits(q)
    BY <1>1, <2>1, <2>2 DEF Waits, ConnsMatch, Waiting, Handshaking
  <2> QED
    BY <2>3, <2>4, WaitsGood
<1>3. CASE e.ev = "R_CONN_CER"
  <2> DEFINE g == Goto(p, "R_OPEN")
  <2>1. e.msg \in Msg /\ e.io # NoConn
    BY <1>3, ParamFacts DEF Serving
  <2>2. g \in Peer /\ g.attempt <= ReconnectMax /\ g.state = "R_OPEN"
        /\ g.cio # NoConn
    BY <2>1, GotoServing DEF State, Open
  <2>3. InClosed(p, e) = RAcceptSendCEA(g, e.msg)
    BY <1>3 DEF InClosed
  <2> HIDE DEF g
  <2> QED
    BY <2>1, <2>2, <2>3, RAcceptSendCEAGood
<1>4. CASE e.ev = "CONN_RETRY"
  <2> DEFINE g == Goto(p, "CLOSED")
             s == StopReConnect(g)
             n == Notify(s, Simple("START"))
             q == [n EXCEPT !.start = TRUE]
  <2>1. g \in Peer /\ g.attempt <= ReconnectMax /\ g.state = "CLOSED"
        /\ SameTimers(p, g) /\ SameConns(p, g)
    BY GotoServing DEF State
  <2>2. s \in Peer /\ SameConns(g, s) /\ SameFlags(g, s)
        /\ s.timers = g.timers \ {"CONN_RETRY"} /\ s.attempt = g.attempt
    <3> HIDE DEF g
    <3> QED
      BY <2>1, StopReConnectOK
  <2>3. Simple("START") \in Param
    BY PeerFsmAssumption
    DEF Simple, Param, Event, TimerEvent, Role, NoMsg, Msg, Id, Command
  <2>4. n \in Peer /\ SameTimers(s, n) /\ SameConns(s, n) /\ SameFlags(s, n)
    <3> HIDE DEF s
    <3> QED
      BY <2>2, <2>3, NotifyOK
  <2>5. q \in Peer /\ SameTimers(n, q) /\ SameConns(n, q) /\ SameFlags(n, q)
    <3> HIDE DEF n
    <3> QED
      BY <2>4 DEF Peer
  <2>6. InClosed(p, e) = q
    BY <1>4 DEF InClosed, ReConnect, Start
  <2> HIDE DEF g, s, n, q
  <2>7. Shut(q)
    BY <1>1, <2>1, <2>2, <2>4, <2>5 DEF Shut
  <2> QED
    BY <2>6, <2>7, ShutGood
<1>5. CASE e.ev \notin {"START", "R_CONN_CER", "CONN_RETRY"}
  <2>1. InClosed(p, e) = Cleanup(Goto(p, "CLOSED"))
    BY <1>5 DEF InClosed
  <2> QED
    BY <2>1, GotoClosedGood
<1> QED
  BY <1>2, <1>3, <1>4, <1>5

\* Every entry of WAIT_CONN_ACK leaves a Good machine.
LEMMA InWaitConnAckGood ==
  ASSUME NEW p, NEW e, Serving(p, e), p.state = "WAIT_CONN_ACK"
  PROVE  Good(InWaitConnAck(p, e))
<1>1. "TIMEOUT" \in p.timers /\ "WATCHDOG" \notin p.timers /\ p.res = NoConn
  BY DEF Serving, Good, TimersMatch, ConnsMatch, Waiting, Handshaking
<1>2. CASE e.ev = "CONN_ACK"
  <2> DEFINE g == Goto(p, "WAIT_I_CEA")
             t == TakeInitiator(g)
             q == SendCER(t)
  <2>1. g \in Peer /\ g.attempt <= ReconnectMax /\ g.state = "WAIT_I_CEA"
        /\ g.cio = e.io /\ SameTimers(p, g) /\ SameConns(p, g)
    BY GotoServing DEF State, Waiting, Handshaking
  <2>2. t \in Peer /\ SameTimers(g, t) /\ SameFlags(g, t)
        /\ t.ini = g.cio /\ t.res = g.res
    <3> HIDE DEF g
    <3> QED
      BY <2>1, TakeInitiatorOK
  <2>3. q \in Peer /\ SameTimers(t, q) /\ SameConns(t, q)
        /\ q.state = t.state
    <3> HIDE DEF t
    <3> QED
      BY <2>2, SendCEROK
  <2>4. InWaitConnAck(p, e) = q
    BY <1>2 DEF InWaitConnAck, ISendCER
  <2>5. e.io # NoConn
    BY <1>2, ParamFacts DEF Serving
  <2> HIDE DEF g, t, q
  <2>6. Waits(q)
    BY <1>1, <2>1, <2>2, <2>3, <2>5
    DEF Waits, ConnsMatch, Waiting, Handshaking
  <2> QED
    BY <2>4, <2>6, WaitsGood
<1>3. CASE e.ev = "CONN_NACK"
  BY <1>3, GotoClosedGood DEF InWaitConnAck
<1>4. CASE e.ev = "R_CONN_CER"
  <2> DEFINE g == Goto(p, "WAIT_CONN_ACK_ELECT")
             t == TakeResponder(g)
  <2>1. g \in Peer /\ g.attempt <= ReconnectMax
        /\ g.state = "WAIT_CONN_ACK_ELECT"
        /\ g.cio = e.io /\ SameTimers(p, g) /\ SameConns(p, g)
    BY GotoServing DEF State, Waiting, Handshaking
  <2>2. t \in Peer /\ SameTimers(g, t) /\ SameFlags(g, t) /\ t.res = g.cio
    <3> HIDE DEF g
    <3> QED
      BY <2>1, TakeResponderOK
  <2>3. InWaitConnAck(p, e) = IF e.msg.ok THEN t ELSE Cleanup(t)
    BY <1>4 DEF InWaitConnAck, RAccept
  <2>4. e.io # NoConn
    BY <1>4, ParamFacts DEF Serving
  <2> HIDE DEF g, t
  <2>5. Waits(t)
    BY <1>1, <2>1, <2>2, <2>4 DEF Waits, ConnsMatch, Waiting, Handshaking
  <2>6. Good(Cleanup(t))
    BY <2>1, <2>2, CleanupShut, ShutGood
  <2> QED
    BY <2>3, <2>5, <2>6, WaitsGood
<1>5. CASE e.ev \in {"TIMEOUT", "STOP"}
  <2>1. InWaitConnAck(p, e) = Error(Goto(p, "CLOSED"))
    BY <1>5 DEF InWaitConnAck
  <2> QED
    BY <2>1, GotoClosedGood
<1>6. CASE e.ev \notin {"CONN_ACK", "CONN_NACK", "R_CONN_CER", "TIMEOUT",
                        "STOP"}
  BY <1>6 DEF InWaitConnAck, Serving
<1> QED
  BY <1>2, <1>3, <1>4, <1>5, <1>6

\* Every entry of WAIT_I_CEA leaves a Good machine.
LEMMA InWaitICEAGood ==
  ASSUME NEW p, NEW e, Serving(p, e), p.state = "WAIT_I_CEA"
  PROVE  Good(InWaitICEA(p, e))
<1>1. "TIMEOUT" \in p.timers /\ "WATCHDOG" \notin p.timers
      /\ p.ini # NoConn /\ p.res = NoConn
  BY DEF Serving, Good, TimersMatch, ConnsMatch, Waiting, Handshaking
<1>2. e.msg \in Msg
  BY ParamFacts DEF Serving
<1>3. CASE Rcv(e, "I", "CEA")
  <2> DEFINE g == Goto(p, "I_OPEN")
  <2>1. g \in Peer /\ g.attempt <= ReconnectMax /\ g.state = "I_OPEN"
        /\ SameConns(p, g)
    BY GotoServing DEF State, Open
  <2>2. InWaitICEA(p, e) = ProcessCEA(g, e.msg)
    BY <1>3 DEF InWaitICEA, Rcv
  <2> HIDE DEF g
  <2>3. Ready(g)
    BY <1>1, <2>1 DEF Ready
  <2> QED
    BY <1>2, <2>2, <2>3, ProcessCEAGood
<1>4. CASE e.ev = "R_CONN_CER"
  <2> DEFINE g == Goto(p, "WAIT_RETURNS")
             t == TakeResponder(g)
  <2>1. g \in Peer /\ g.attempt <= ReconnectMax /\ g.state = "WAIT_RETURNS"
        /\ g.cio = e.io /\ SameTimers(p, g) /\ SameConns(p, g)
    BY GotoServing DEF State, Waiting, Handshaking
  <2>2. t \in Peer /\ SameTimers(g, t) /\ SameFlags(g, t) /\ t.res = g.cio
        /\ t.ini = g.ini
    <3> HIDE DEF g
    <3> QED
      BY <2>1, TakeResponderOK
  <2>3. InWaitICEA(p, e) = IF e.msg.ok THEN Elect(t) ELSE CleanupKeepI(t)
    BY <1>4 DEF InWaitICEA, RAcceptElect, Rcv
  <2>4. e.io # NoConn
    BY <1>4, ParamFacts DEF Serving
  <2> HIDE DEF g, t
  <2>5. Waits(t)
    BY <1>1, <2>1, <2>2, <2>4 DEF Waits, ConnsMatch, Waiting, Handshaking
  <2>6. Good(CleanupKeepI(t))
    BY <2>1, <2>2, CleanupShut, ShutGood
  <2> QED
    BY <2>3, <2>5, <2>6, ElectGood
<1>5. CASE e.ev = "PEER_DISC" /\ e.role = "I"
  <2>1. InWaitICEA(p, e) = Disconnect(Goto(p, "CLOSED"))
    BY <1>5 DEF InWaitICEA, Rcv
  <2> QED
    BY <2>1, GotoClosedGood
<1>6. CASE e.ev \in {"NON_CEA", "TIMEOUT", "STOP"}
  <2>1. InWaitICEA(p, e) = Error(Goto(p, "CLOSED"))
    BY <1>6 DEF InWaitICEA, Rcv
  <2> QED
    BY <2>1, GotoClosedGood
<1>7. CASE /\ ~Rcv(e, "I", "CEA")
           /\ ~(e.ev = "PEER_DISC" /\ e.role = "I")
           /\ e.ev \notin {"R_CONN_CER", "NON_CEA", "TIMEOUT", "STOP"}
  BY <1>7 DEF InWaitICEA, Serving
<1> QED
  BY <1>3, <1>4, <1>5, <1>6, <1>7

\* Every entry of WAIT_CONN_ACK_ELECT leaves a Good machine.
LEMMA InWaitConnAckElectGood ==
  ASSUME NEW p, NEW e, Serving(p, e), p.state = "WAIT_CONN_ACK_ELECT"
  PROVE  Good(InWaitConnAckElect(p, e))
<1>1. "TIMEOUT" \in p.timers /\ "WATCHDOG" \notin p.timers /\ p.res # NoConn
  BY DEF Serving, Good, TimersMatch, ConnsMatch, Waiting, Handshaking
<1>2. CASE e.ev = "CONN_ACK"
  <2> DEFINE g == Goto(p, "WAIT_RETURNS")
             t == TakeInitiator(g)
             q == SendCER(t)
  <2>1. g \in Peer /\ g.attempt <= ReconnectMax /\ g.state = "WAIT_RETURNS"
        /\ g.cio = e.io /\ SameTimers(p, g) /\ SameConns(p, g)
    BY GotoServing DEF State, Waiting, Handshaking
  <2>2. t \in Peer /\ SameTimers(g, t) /\ SameFlags(g, t)
        /\ t.ini = g.cio /\ t.res = g.res
    <3> HIDE DEF g
    <3> QED
      BY <2>1, TakeInitiatorOK
  <2>3. q \in Peer /\ SameTimers(t, q) /\ SameConns(t, q)
        /\ q.state = t.state
    <3> HIDE DEF t
    <3> QED
      BY <2>2, SendCEROK
  <2>4. InWaitConnAckElect(p, e) = Elect(q)
    BY <1>2 DEF InWaitConnAckElect, ISendCERElect
  <2>5. e.io # NoConn
    BY <1>2, ParamFacts DEF Serving
  <2> HIDE DEF g, t, q
  <2>6. Waits(q)
    BY <1>1, <2>1, <2>2, <2>3, <2>5
    DEF Waits, ConnsMatch, Waiting, Handshaking
  <2> QED
    BY <2>4, <2>6, ElectGood
<1>3. CASE e.ev = "CONN_NACK"
  <2> DEFINE g == Goto(p, "R_OPEN")
  <2>1. g \in Peer /\ g.attempt <= ReconnectMax /\ g.state = "R_OPEN"
    BY GotoServing DEF State, Open
  <2>2. InWaitConnAckElect(p, e) = RSendCEA(g)
    BY <1>3 DEF InWaitConnAckElect
  <2> HIDE DEF g
  <2> QED
    BY <2>1, <2>2, RSendCEAGood
<1>4. CASE e.ev = "PEER_DISC" /\ e.role = "R"
  <2> DEFINE g == Goto(p, "WAIT_CONN_ACK")
             q == DropResponder(g)
  <2>1. g \in Peer /\ g.attempt <= ReconnectMax /\ g.state = "WAIT_CONN_ACK"
        /\ SameTimers(p, g)
    BY GotoServing DEF State, Waiting, Handshaking
  <2>2. q \in Peer /\ SameTimers(g, q) /\ SameFlags(g, q) /\ q.res = NoConn
    <3> HIDE DEF g
    <3> QED
      BY <2>1, DropResponderOK
  <2>3. InWaitConnAckElect(p, e) = q
    BY <1>4 DEF InWaitConnAckElect, RDisconnectResp
  <2> HIDE DEF g, q
  <2>4. Waits(q)
    BY <1>1, <2>1, <2>2 DEF Waits, ConnsMatch, Waiting, Handshaking
  <2> QED
    BY <2>3, <2>4, WaitsGood
<1>5. CASE e.ev = "R_CONN_CER"
  <2>1. InWaitConnAckElect(p, e) = RReject(p)
    BY <1>5 DEF InWaitConnAckElect
  <2> QED
    BY <2>1, RRejectGood
<1>6. CASE e.ev = "TIMEOUT"
  <2>1. InWaitConnAckElect(p, e) = Error(Goto(p, "CLOSED"))
    BY <1>6 DEF InWaitConnAckElect
  <2> QED
    BY <2>1, GotoClosedGood
<1>7. CASE /\ ~(e.ev = "PEER_DISC" /\ e.role = "R")
           /\ e.ev \notin {"CONN_ACK", "CONN_NACK", "R_CONN_CER", "TIMEOUT"}
  BY <1>7 DEF InWaitConnAckElect, Serving
<1> QED
  BY <1>2, <1>3, <1>4, <1>5, <1>6, <1>7

\* Every entry of WAIT_RETURNS leaves a Good machine.
LEMMA InWaitReturnsGood ==
  ASSUME NEW p, NEW e, Serving(p, e), p.state = "WAIT_RETURNS"
  PROVE  Good(InWaitReturns(p, e))
<1>1. "TIMEOUT" \in p.timers /\ "WATCHDOG" \notin p.timers
      /\ p.ini # NoConn /\ p.res # NoConn
  BY DEF Serving, Good, TimersMatch, ConnsMatch, Waiting, Handshaking
<1>2. CASE \/ e.ev = "WIN_ELECTION"
           \/ e.ev = "PEER_DISC" /\ e.role = "I"
  <2> DEFINE g == Goto(p, "R_OPEN")
  <2>1. g \in Peer /\ g.attempt <= ReconnectMax /\ g.state = "R_OPEN"
        /\ SameConns(p, g)
    BY GotoServing DEF State, Open
  <2>2. InWaitReturns(p, e) = IDisconnectSendCEA(g)
    BY <1>2 DEF InWaitReturns, Rcv
  <2> HIDE DEF g
  <2> QED
    BY <1>1, <2>1, <2>2, IDisconnectSendCEAGood
<1>3. CASE Rcv(e, "I", "CEA")
  <2> DEFINE g == Goto(p, "I_OPEN")
  <2>1. g \in Peer /\ g.attempt <= ReconnectMax /\ g.state = "I_OPEN"
        /\ SameConns(p, g)
    BY GotoServing DEF State, Open
  <2>2. InWaitReturns(p, e) = RDisconnectIOpen(g, e.msg)
    BY <1>3 DEF InWaitReturns, Rcv
  <2>3. e.msg \in Msg
    BY ParamFacts DEF Serving
  <2> HIDE DEF g
  <2> QED
    BY <1>1, <2>1, <2>2, <2>3, RDisconnectIOpenGood
<1>4. CASE e.ev = "PEER_DISC" /\ e.role = "R"
  <2> DEFINE g == Goto(p, "WAIT_I_CEA")
             q == DropResponder(g)
  <2>1. g \in Peer /\ g.attempt <= ReconnectMax /\ g.state = "WAIT_I_CEA"
        /\ SameTimers(p, g) /\ SameConns(p, g)
    BY GotoServing DEF State, Waiting, Handshaking
  <2>2. q \in Peer /\ SameTimers(g, q) /\ SameFlags(g, q) /\ q.res = NoConn
        /\ q.ini = g.ini
    <3> HIDE DEF g
    <3> QED
      BY <2>1, DropResponderOK
  <2>3. InWaitReturns(p, e) = q
    BY <1>4 DEF InWaitReturns, Rcv, RDisconnectResp
  <2> HIDE DEF g, q
  <2>4. Waits(q)
    BY <1>1, <2>1, <2>2 DEF Waits, ConnsMatch, Waiting, Handshaking
  <2> QED
    BY <2>3, <2>4, WaitsGood
<1>5. CASE e.ev = "R_CONN_CER"
  <2>1. InWaitReturns(p, e) = RReject(p)
    BY <1>5 DEF InWaitReturns, Rcv
  <2> QED
    BY <2>1, RRejectGood
<1>6. CASE e.ev = "TIMEOUT"
  <2>1. InWaitReturns(p, e) = Error(Goto(p, "CLOSED"))
    BY <1>6 DEF InWaitReturns, Rcv
  <2> QED
    BY <2>1, GotoClosedGood
<1>7. CASE /\ ~Rcv(e, "I", "CEA")
           /\ ~(e.ev = "PEER_DISC" /\ e.role \in {"I", "R"})
           /\ e.ev \notin {"WIN_ELECTION", "R_CONN_CER", "TIMEOUT"}
  BY <1>7 DEF InWaitReturns, Serving
<1> QED
  BY <1>2, <1>3, <1>4, <1>5, <1>6, <1>7

\* Both rows of the open states, for the role and the connection they use.
LEMMA InOpenGood ==
  ASSUME NEW p, NEW e, Serving(p, e), p.state \in Open,
         NEW role \in Role, NEW io \in Conn \cup {NoConn}
  PROVE  Good(InOpen(p, e, role, io))
<1>1. p \in Peer /\ e.msg \in Msg /\ e.msg.ok \in BOOLEAN
  BY ParamFacts DEF Serving, Good, Msg
<1>2. Ready(p)
  BY <1>1 DEF Serving, Good, Ready, ConnsMatch, Open
<1>3. CASE Rcv(e, role, "CER")
  <2> DEFINE q == SendCEA(p, e.msg.ok)
  <2>1. q \in Peer /\ SameTimers(p, q) /\ SameConns(p, q)
        /\ q.state = p.state /\ q.up = p.up
    BY <1>1, SendCEAOK
  <2>2. InOpen(p, e, role, io) = q
    BY <1>3 DEF InOpen, Rcv
  <2> HIDE DEF q
  <2> QED
    BY <2>1, <2>2, SameGood DEF Serving
<1>4. CASE Rcv(e, role, "CEA")
  <2>1. InOpen(p, e, role, io) = ProcessCEA(p, e.msg)
    BY <1>4 DEF InOpen, Rcv
  <2> QED
    BY <1>1, <1>2, <2>1, ProcessCEAGood
<1>5. CASE Rcv(e, role, "DWR")
  <2> DEFINE q == SendDWA(p)
  <2>1. q \in Peer /\ SameTimers(p, q) /\ SameConns(p, q)
        /\ q.state = p.state /\ q.up = p.up
    BY <1>1, SendDWAOK
  <2>2. InOpen(p, e, role, io) = q
    BY <1>5 DEF InOpen, Rcv
  <2> HIDE DEF q
  <2> QED
    BY <2>1, <2>2, SameGood DEF Serving
<1>6. CASE Rcv(e, role, "DWA")
  <2>1. InOpen(p, e, role, io) = IF e.msg.ok THEN p ELSE Cleanup(p)
    BY <1>6 DEF InOpen, Rcv, ProcessDWA
  <2>2. Good(Cleanup(p))
    BY <1>2, CleanupShut, ShutGood DEF Ready
  <2> QED
    BY <2>1, <2>2 DEF Serving
<1>7. CASE Rcv(e, role, "DPR")
  <2> DEFINE g == Goto(p, "CLOSED")
  <2>1. g \in Peer /\ g.attempt <= ReconnectMax
    BY GotoServing DEF State
  <2>2. InOpen(p, e, role, io) = SendDPADisconnect(g, io)
    BY <1>7 DEF InOpen, Rcv
  <2> HIDE DEF g
  <2> QED
    BY <2>1, <2>2, SendDPADisconnectShut, ShutGood
<1>8. CASE e.ev = "WATCHDOG"
  <2> DEFINE q == SendDWR(p)
  <2>1. q \in Peer /\ SameTimers(p, q) /\ SameConns(p, q)
        /\ q.state = p.state /\ q.up = p.up
    BY <1>1, SendDWROK
  <2>2. InOpen(p, e, role, io) = q
    BY <1>8 DEF InOpen, Rcv
  <2> HIDE DEF q
  <2> QED
    BY <2>1, <2>2, SameGood DEF Serving
<1>9. CASE e.ev = "STOP"
  <2> DEFINE g == Goto(p, "CLOSING")
  <2>1. g \in Peer /\ g.attempt <= ReconnectMax /\ g.state = "CLOSING"
    BY GotoServing DEF State, Waiting
  <2>2. InOpen(p, e, role, io) = SendDPR(g, io)
    BY <1>9 DEF InOpen, Rcv
  <2> HIDE DEF g
  <2> QED
    BY <2>1, <2>2, SendDPRGood
<1>10. CASE e.ev = "PEER_DISC" /\ e.role = role
  <2>1. InOpen(p, e, role, io) = Disconnect(Goto(p, "CLOSED"))
    BY <1>10 DEF InOpen, Rcv
  <2> QED
    BY <2>1, GotoClosedGood
<1>11. CASE e.ev = "R_CONN_CER"
  <2>1. InOpen(p, e, role, io) = RReject(p)
    BY <1>11 DEF InOpen, Rcv
  <2> QED
    BY <2>1, RRejectGood
<1>12. CASE /\ \A c \in {"CER", "CEA", "DWR", "DWA", "DPR"} : ~Rcv(e, role, c)
            /\ ~(e.ev = "PEER_DISC" /\ e.role = role)
            /\ e.ev \notin {"WATCHDOG", "STOP", "R_CONN_CER"}
  <2>1. /\ ~Rcv(e, role, "CER") /\ ~Rcv(e, role, "CEA")
        /\ ~Rcv(e, role, "DWR") /\ ~Rcv(e, role, "DWA")
        /\ ~Rcv(e, role, "DPR")
    BY <1>12
  <2>2. InOpen(p, e, role, io) = p
    BY <1>12, <2>1 DEF InOpen
  <2> QED
    BY <2>2 DEF Serving
<1> QED
  BY <1>3, <1>4, <1>5, <1>6, <1>7, <1>8, <1>9, <1>10, <1>11, <1>12

\* Every entry of CLOSING leaves a Good machine.
LEMMA InClosingGood ==
  ASSUME NEW p, NEW e, Serving(p, e)
  PROVE  Good(InClosing(p, e))
<1> DEFINE g == Goto(p, "CLOSED")
<1>1. InClosing(p, e) \in {DisconnectDPA(g), Error(g), Disconnect(g), p}
  BY DEF InClosing
<1>2. Good(DisconnectDPA(g)) /\ Good(Error(g)) /\ Good(Disconnect(g))
  BY GotoClosedGood
<1> QED
  BY <1>1, <1>2 DEF Serving

\* Every event, in every state, leaves a Good machine.
LEMMA HandleGood ==
  ASSUME NEW p, NEW e, Serving(p, e)
  PROVE  Good(Handle(p, e))
<1>1. p \in Peer /\ p.ini \in Conn \cup {NoConn} /\ p.res \in Conn \cup {NoConn}
      /\ p.state \in State
  BY DEF Serving, Good, Peer
<1>2. CASE p.state = "CLOSED"
  BY <1>2, InClosedGood DEF Handle
<1>3. CASE p.state = "WAIT_CONN_ACK"
  BY <1>3, InWaitConnAckGood DEF Handle
<1>4. CASE p.state = "WAIT_I_CEA"
  BY <1>4, InWaitICEAGood DEF Handle
<1>5. CASE p.state = "WAIT_CONN_ACK_ELECT"
  BY <1>5, InWaitConnAckElectGood DEF Handle
<1>6. CASE p.state = "WAIT_RETURNS"
  BY <1>6, InWaitReturnsGood DEF Handle
<1>7. CASE p.state = "R_OPEN"
  <2>1. Handle(p, e) = InOpen(p, e, "R", p.res)
    BY <1>7 DEF Handle
  <2> QED
    BY <1>1, <1>7, <2>1, InOpenGood DEF Role, Open
<1>8. CASE p.state = "I_OPEN"
  <2>1. Handle(p, e) = InOpen(p, e, "I", p.ini)
    BY <1>8 DEF Handle
  <2> QED
    BY <1>1, <1>8, <2>1, InOpenGood DEF Role, Open
<1>9. CASE p.state = "CLOSING"
  BY <1>9, InClosingGood DEF Handle
<1> QED
  BY <1>1, <1>2, <1>3, <1>4, <1>5, <1>6, <1>7, <1>8, <1>9
  DEF State, Waiting, Handshaking, Open

\* Taking the head of the queue keeps Good and hands over its
\* connection.
LEMMA BeginOK ==
  ASSUME NEW p \in Peer, p.queue # <<>>
  PROVE  LET q == Begin(p)
         IN /\ Head(p.queue) \in Param
            /\ q \in Peer /\ SameTimers(p, q) /\ SameConns(p, q)
            /\ SameFlags(p, q) /\ q.cio = Head(p.queue).io
<1>1. p.queue \in Seq(Param)
  BY DEF Peer
<1>2. Head(p.queue) \in Param /\ Tail(p.queue) \in Seq(Param)
  BY <1>1
<1>3. PICK h \in Param, r \in Seq(Param) :
        h = Head(p.queue) /\ r = Tail(p.queue)
  BY <1>2, Zenon
<1>4. h.io \in Conn \cup {NoConn}
  BY DEF Param
<1>5. Begin(p) = [p EXCEPT !.queue = r, !.cio = h.io]
  BY <1>3 DEF Begin
<1>6. LET q == Begin(p)
      IN q \in Peer /\ SameTimers(p, q) /\ SameConns(p, q)
         /\ SameFlags(p, q) /\ q.cio = h.io
  BY <1>4, <1>5 DEF Peer
<1> QED
  BY <1>2, <1>3, <1>6

\* Serving any event in any sound state leaves a sound state.
LEMMA ServeGood ==
  ASSUME NEW p, Good(p), ~p.fault, p.queue # <<>>
  PROVE  Good(Serve(p)) /\ Serve(p).cio = NoConn
<1> DEFINE b == Begin(p)
           e == Head(p.queue)
           h == IF p.running THEN Handle(b, e) ELSE b
<1>1. p \in Peer
  BY DEF Good
<1>2. e \in Param /\ b \in Peer /\ SameTimers(p, b) /\ SameConns(p, b)
      /\ SameFlags(p, b) /\ b.cio = e.io
  BY <1>1, BeginOK
<1>3. Serve(p) = DropCurrent(h)
  BY DEF Serve
<1>4. Good(b)
  <2> HIDE DEF b, e
  <2> QED
    BY <1>2, SameGood
<1>5. Serving(b, e)
  <2> HIDE DEF b, e
  <2> QED
    BY <1>2, <1>4 DEF Serving
<1>6. Good(h)
  <2> HIDE DEF b, e
  <2> QED
    BY <1>4, <1>5, HandleGood
<1> HIDE DEF h
<1>7. h \in Peer
  BY <1>6 DEF Good
<1> DEFINE q == DropCurrent(h)
<1>8. q \in Peer /\ SameTimers(h, q) /\ SameConns(h, q) /\ SameFlags(h, q)
      /\ q.cio = NoConn
  BY <1>7, DropCurrentOK
<1> HIDE DEF q
<1>9. Good(q)
  BY <1>6, <1>8 DEF Good, TimersMatch, ConnsMatch
<1> QED
  BY <1>3, <1>8, <1>9 DEF q
----------------------------------------------------------------------------
(* DiameterPeerEntry: what other threads do to the machine.                *)

\* Taking what a step put out keeps the machine Good.
LEMMA SettledGood ==
  ASSUME NEW p, Good(p), p.cio = NoConn
  PROVE  LET q == Settled(p)
         IN Good(q) /\ Quiet(q) /\ q.state = p.state /\ q.running = p.running
<1> DEFINE q == Settled(p)
<1>1. p \in Peer
  BY DEF Good
<1>2. q \in Peer /\ SameTimers(p, q) /\ SameConns(p, q) /\ SameFlags(p, q)
      /\ q.running = p.running
  <2>1. PICK s \in Seq([io : Conn, msg : Msg]) : s = <<>>
    <3>1. <<>> \in Seq([io : Conn, msg : Msg])
      OBVIOUS
    <3> QED
      BY <3>1, Zenon
  <2>2. q = [p EXCEPT !.sent = s, !.gone = {}, !.retx = FALSE,
                      !.start = FALSE]
    BY <2>1 DEF Settled
  <2> HIDE DEF q
  <2>3. q \in Peer
    BY <1>1, <2>2 DEF Peer
  <2>4. SameTimers(p, q) /\ SameConns(p, q)
    BY <1>1, <2>2 DEF Peer
  <2>5. SameFlags(p, q) /\ q.running = p.running
    BY <1>1, <2>2 DEF Peer
  <2> QED
    BY <2>3, <2>4, <2>5
<1>3. Quiet(q)
  BY <1>1 DEF Settled, Peer, Quiet
<1> HIDE DEF q
<1>4. Good(q)
  BY <1>2 DEF Good, TimersMatch, ConnsMatch
<1> QED
  BY <1>2, <1>3, <1>4 DEF q

\* A new machine is Good and Quiet.
LEMMA NewPeerGood ==
  ASSUME NEW elect \in {"win", "lose", "same"}
  PROVE  Good(NewPeer(elect)) /\ Quiet(NewPeer(elect))
<1> DEFINE p == NewPeer(elect)
<1>1. p \in Peer
  <2>1. 0 \in Id /\ 0 \in Nat /\ {} \in SUBSET Id
    BY PeerFsmAssumption DEF Id
  <2>2. <<>> \in Seq(Param) /\ <<>> \in Seq(Id)
        /\ <<>> \in Seq([io : Conn, msg : Msg])
    OBVIOUS
  <2> QED
    BY <2>1, <2>2 DEF NewPeer, Peer, State
<1>2. p.attempt = 0 /\ p.state = "CLOSED" /\ p.timers = {} /\ p.res = NoConn
      /\ Quiet(p)
  BY DEF NewPeer, Quiet
<1> HIDE DEF p
<1>3. Shut(p)
  BY <1>1, <1>2, PeerFsmAssumption DEF Shut
<1> QED
  BY <1>2, <1>3, ShutGood DEF p

\* The message of an event that carries none is a message.
LEMMA NoMsgType == NoMsg \in Msg
  BY PeerFsmAssumption DEF NoMsg, Msg, Id, Command

\* An event without connection is a legal parameter.
LEMMA SimpleParam ==
  ASSUME NEW ev \in Event \ {"CONN_ACK", "R_CONN_CER"}
  PROVE  Simple(ev) \in Param
  BY PeerFsmAssumption DEF Simple, Param, NoMsg, Msg, Id, Role, Command

\* Any thread may notify a legal event.
LEMMA NotifyGood ==
  ASSUME NEW p, Good(p), ~p.fault, NEW e \in Param
  PROVE  LET q == Notify(p, e)
         IN /\ Good(q) /\ q.cio = p.cio
            /\ Quiet(p) /\ e.io = NoConn => Quiet(q)
<1> DEFINE q == Notify(p, e)
<1>1. p \in Peer
  BY DEF Good
<1>2. q \in Peer /\ SameTimers(p, q) /\ SameConns(p, q) /\ SameFlags(p, q)
      /\ q.cio = p.cio
  BY <1>1, NotifyOK
<1>3. Good(q)
  <2> HIDE DEF q
  <2> QED
    BY <1>2, SameGood
<1>4. ASSUME Quiet(p), e.io = NoConn
      PROVE  q.sent = p.sent /\ q.gone = p.gone /\ q.retx = p.retx
             /\ q.start = p.start
  BY <1>1, <1>4 DEF Notify, Quiet, Peer
<1> HIDE DEF q
<1> QED
  BY <1>2, <1>3, <1>4 DEF q, Quiet

\* Registering a message id keeps the machine Good.
LEMMA MsgIdRxGood ==
  ASSUME NEW p, Good(p), ~p.fault, NEW m \in Msg
  PROVE  LET q == MsgIdRx(p, m)
         IN Good(q) /\ ~q.fault /\ q.cio = p.cio /\ (Quiet(p) => Quiet(q))
<1> DEFINE q == MsgIdRx(p, m)
<1>1. p \in Peer /\ m.id \in Id
  BY DEF Good, Msg
<1>2. PICK l \in Seq(Id) : l = Append(p.rx, m.id)
  <2>1. Append(p.rx, m.id) \in Seq(Id)
    BY <1>1 DEF Peer
  <2> QED
    BY <2>1, Zenon
<1>3. PICK t \in SUBSET Id : t = p.tx \ {m.id}
  <2>1. p.tx \ {m.id} \in SUBSET Id
    BY <1>1 DEF Peer
  <2> QED
    BY <2>1, Zenon
<1>4. q \in {[p EXCEPT !.rx = l], [p EXCEPT !.tx = t], p}
  BY <1>2, <1>3 DEF MsgIdRx
<1>5. q \in Peer /\ SameTimers(p, q) /\ SameConns(p, q) /\ SameFlags(p, q)
      /\ q.cio = p.cio
      /\ q.sent = p.sent /\ q.gone = p.gone /\ q.retx = p.retx
      /\ q.start = p.start
  <2> HIDE DEF q
  <2>1. CASE q = [p EXCEPT !.rx = l]
    BY <1>1, <2>1 DEF Peer
  <2>2. CASE q = [p EXCEPT !.tx = t]
    BY <1>1, <2>2 DEF Peer
  <2>3. CASE q = p
    BY <1>1, <2>3
  <2> QED
    BY <1>4, <2>1, <2>2, <2>3
<1> HIDE DEF q
<1>6. Good(q)
  BY <1>5, SameGood
<1> QED
  BY <1>5, <1>6 DEF q, Quiet

\* What another thread does to a sound quiet machine leaves it so.
Calm(p) == Good(p) /\ Quiet(p)

\* Notifying an event between two steps keeps the machine Calm.
LEMMA NotifyCalm ==
  ASSUME NEW p, Calm(p), ~p.fault, NEW e \in Param, e.io = NoConn
  PROVE  Calm(Notify(p, e))
  BY NotifyGood DEF Calm

\* Stop() keeps the machine Calm.
LEMMA StopCalm ==
  ASSUME NEW p, Calm(p), ~p.fault, NEW reboot \in BOOLEAN
  PROVE  Calm(Stop(p, reboot))
<1> DEFINE q == [p EXCEPT !.reboot = reboot]
<1>1. p \in Peer
  BY DEF Calm, Good
<1>2. q \in Peer /\ SameTimers(p, q) /\ SameConns(p, q) /\ SameFlags(p, q)
      /\ Quiet(q)
  BY <1>1 DEF Peer, Calm, Quiet
<1>3. Stop(p, reboot) = Notify(q, Simple("STOP"))
  BY DEF Stop
<1>4. Simple("STOP") \in Param /\ Simple("STOP").io = NoConn
  BY SimpleParam DEF Event, Simple
<1> HIDE DEF q
<1>5. Calm(q) /\ ~q.fault
  BY <1>2, SameGood DEF Calm
<1> QED
  BY <1>3, <1>4, <1>5, NotifyCalm

\* The connector's failure keeps the machine Calm.
LEMMA ConnectionRequestFailedCalm ==
  ASSUME NEW p, Calm(p), ~p.fault
  PROVE  Calm(ConnectionRequestFailed(p))
<1>1. Simple("CONN_NACK") \in Param /\ Simple("CONN_NACK").io = NoConn
  BY SimpleParam DEF Event, Simple
<1> QED
  BY <1>1, NotifyCalm DEF ConnectionRequestFailed

\* A transport error keeps the machine Calm.
LEMMA TransportErrorCalm ==
  ASSUME NEW p, Calm(p), ~p.fault, NEW role \in Role
  PROVE  Calm(TransportError(p, role))
<1>1. Disc(role) = [ev |-> "PEER_DISC", role |-> role, msg |-> NoMsg,
                    io |-> NoConn]
  BY DEF Disc, Simple
<1>2. Disc(role) \in Param /\ Disc(role).io = NoConn
  BY <1>1, NoMsgType DEF Event, Param
<1> QED
  BY <1>2, NotifyCalm DEF TransportError

\* A received message is a legal parameter.
LEMMA ReceivedParam ==
  ASSUME NEW role \in Role, NEW m \in Msg
  PROVE  Received(role, m) \in Param /\ Received(role, m).io = NoConn
  BY PeerFsmAssumption DEF Received, Simple, Event, Param, Role

\* The reader thread's Message() keeps the machine Calm, whatever the
\* state it sees.
LEMMA MessageCalm ==
  ASSUME NEW p, Calm(p), ~p.fault, NEW m \in Msg
  PROVE  Calm(Message(p, m))
<1> DEFINE q == MsgIdRx(p, m)
<1>1. Calm(q) /\ ~q.fault
  BY MsgIdRxGood DEF Calm
<1>2. Simple("NON_CEA") \in Param /\ Simple("NON_CEA").io = NoConn
  BY SimpleParam DEF Event, Simple
<1>3. Message(p, m) \in
        {Notify(p, Simple("NON_CEA")), p, q, Notify(q, Received("I", m)),
         Notify(q, Received("R", m))}
  BY DEF Message
<1> HIDE DEF q
<1>4. Calm(Notify(p, Simple("NON_CEA")))
  BY <1>2, NotifyCalm
<1>5. Calm(Notify(q, Received("I", m))) /\ Calm(Notify(q, Received("R", m)))
  <2>1. "I" \in Role /\ "R" \in Role
    BY DEF Role
  <2> QED
    BY <1>1, <2>1, ReceivedParam, NotifyCalm
<1> QED
  BY <1>1, <1>3, <1>4, <1>5

\* A CER on a new connection keeps the machine Good.
LEMMA IncommingConnectionRequestGood ==
  ASSUME NEW p, Calm(p), ~p.fault, NEW c \in Conn, NEW m \in Msg
  PROVE  LET q == IncommingConnectionRequest(p, c, m)
         IN Good(q) /\ q.cio = NoConn
<1> DEFINE r == MsgIdRx(p, m)
           e == [ev |-> "R_CONN_CER", role |-> "R", msg |-> m, io |-> c]
<1>1. Good(r) /\ ~r.fault /\ r.cio = NoConn
  BY MsgIdRxGood DEF Calm, Quiet
<1>2. e \in Param
  BY PeerFsmAssumption DEF Param, Event, Role
<1>3. IncommingConnectionRequest(p, c, m) = Notify(r, e)
  BY DEF IncommingConnectionRequest
<1> HIDE DEF r, e
<1> QED
  BY <1>1, <1>2, <1>3, NotifyGood

\* The connector's success keeps the machine Good.
LEMMA ConnectionRequestAcceptedGood ==
  ASSUME NEW p, Calm(p), ~p.fault, NEW c \in Conn
  PROVE  LET q == ConnectionRequestAccepted(p, c)
         IN Good(q) /\ q.cio = NoConn
<1> DEFINE e == [Simple("CONN_ACK") EXCEPT !.io = c]
<1>1. e \in Param
  <2>1. e = [ev |-> "CONN_ACK", role |-> "I", msg |-> NoMsg, io |-> c]
    BY DEF Simple
  <2> HIDE DEF e
  <2> QED
    BY <2>1, NoMsgType, PeerFsmAssumption DEF Param, Event, Role
<1>2. ConnectionRequestAccepted(p, c) = Notify(p, e)
  BY DEF ConnectionRequestAccepted
<1> HIDE DEF e
<1> QED
  BY <1>1, <1>2, NotifyGood DEF Calm, Quiet

\* AAA_StateMachine::Stop().
LEMMA HaltCalm ==
  ASSUME NEW p, Calm(p), ~p.fault
  PROVE  Calm([p EXCEPT !.running = FALSE])
<1> DEFINE q == [p EXCEPT !.running = FALSE]
<1>1. p \in Peer
  BY DEF Calm, Good
<1>2. q \in Peer /\ SameTimers(p, q) /\ SameConns(p, q) /\ SameFlags(p, q)
      /\ Quiet(q)
  BY <1>1 DEF Peer, Calm, Quiet
<1> HIDE DEF q
<1>3. Calm(q)
  BY <1>2, SameGood DEF Calm
<1> QED
  BY <1>3 DEF q
----------------------------------------------------------------------------
(* Ownership: what becomes of the connections and of the election.         *)

\* The connections that queued events carry, and all that the machine owns.
Carried(p) == {p.queue[i].io : i \in 1 .. Len(p.queue)} \ {NoConn}
Owned(p)   == ({p.ini, p.res, p.cio} \ {NoConn}) \cup Carried(p)

\* No two events carry the same connection.
Apart(p) ==
  \A i, j \in 1 .. Len(p.queue) :
    p.queue[i].io # NoConn /\ i # j => p.queue[i].io # p.queue[j].io

\* No connection has two owners, and what has been deleted has none.
Sound(p) ==
  /\ p.ini # NoConn => p.ini # p.res /\ p.ini # p.cio
  /\ p.res # NoConn => p.res # p.cio
  /\ {p.ini, p.res, p.cio} \cap Carried(p) = {}
  /\ Apart(p)
  /\ p.gone \cap Owned(p) = {}

\* The event that ends a won election is queued.
Pending(p) == \E i \in 1 .. Len(p.queue) : p.queue[i].ev = "WIN_ELECTION"

\* p becomes q without a connection being lost, duplicated or used after its
\* deletion, and without a pending event being dropped.
Conserves(p, q) ==
  /\ q \in Peer
  /\ q.elect = p.elect /\ q.running = p.running
  /\ Pending(p) => Pending(q)
  /\ Sound(p) => Sound(q) /\ Owned(q) \cup q.gone = Owned(p) \cup p.gone

\* What every handler does once the next state has been entered: it stays
\* there or closes.
Keeps(p, q) == Conserves(p, q) /\ q.state \in {p.state, "CLOSED"}

\* Nothing that ownership or the election depend on has changed.
Still(p, q) ==
  /\ q \in Peer
  /\ q.elect = p.elect /\ q.running = p.running /\ q.queue = p.queue
  /\ q.ini = p.ini /\ q.res = p.res /\ q.cio = p.cio /\ q.gone = p.gone

\* Steps of a handler follow each other.
LEMMA KeepsTrans ==
  ASSUME NEW p, NEW q, NEW r
  PROVE  /\ Still(p, q) /\ Still(q, r) => Still(p, r)
         /\ Conserves(p, q) /\ Conserves(q, r) => Conserves(p, r)
         /\ Keeps(p, q) /\ Keeps(q, r) => Keeps(p, r)
<1>1. Still(p, q) /\ Still(q, r) => Still(p, r)
  BY DEF Still
<1>2. Conserves(p, q) /\ Conserves(q, r) => Conserves(p, r)
  BY DEF Conserves
<1> QED
  BY <1>1, <1>2 DEF Keeps

\* What leaves all of it alone conserves it.
LEMMA StillKeeps ==
  ASSUME NEW p, NEW q, Still(p, q)
  PROVE  /\ Conserves(p, q)
         /\ q.state \in {p.state, "CLOSED"} => Keeps(p, q)
<1>1. Carried(q) = Carried(p) /\ (Pending(p) => Pending(q))
  BY DEF Still, Carried, Pending
<1>2. Owned(q) = Owned(p)
  BY <1>1 DEF Still, Owned
<1>3. Sound(p) => Sound(q)
  BY <1>1, <1>2 DEF Still, Sound, Apart
<1> QED
  BY <1>1, <1>2, <1>3 DEF Still, Conserves, Keeps

\* State changes, timers, retries and announcements concern no connection.
LEMMA StillBasic ==
  ASSUME NEW p \in Peer
  PROVE  /\ \A s \in State : Still(p, Goto(p, s))
         /\ \A t \in TimerEvent : Still(p, Arm(p, t)) /\ Still(p, Cancel(p, t))
         /\ Still(p, Connected(p)) /\ Still(p, Disconnected(p))
<1>1. ASSUME NEW s \in State PROVE Still(p, Goto(p, s))
  BY DEF Still, Goto, Peer
<1>2. ASSUME NEW t \in TimerEvent
      PROVE  Still(p, Arm(p, t)) /\ Still(p, Cancel(p, t))
  <2>1. Arm(p, t) \in Peer /\ Cancel(p, t) \in Peer
    BY ArmOK, CancelOK
  <2>2. PICK a, b : a = p.timers \cup {t} /\ b = p.timers \ {t}
    OBVIOUS
  <2>3. Arm(p, t) = [p EXCEPT !.timers = a] /\ Cancel(p, t) = [p EXCEPT !.timers = b]
    BY <2>2 DEF Arm, Cancel
  <2> QED
    BY <2>1, <2>3 DEF Still, Peer
<1>3. Still(p, Connected(p)) /\ Still(p, Disconnected(p))
  BY DEF Still, Connected, Disconnected, Peer
<1> QED
  BY <1>1, <1>2, <1>3

\* The retry concerns no connection.
LEMMA StillDoReConnect ==
  ASSUME NEW p \in Peer
  PROVE  Still(p, DoReConnect(p)) /\ DoReConnect(p).state = p.state
<1>1. PICK n \in Nat, ts \in SUBSET TimerEvent :
        n = p.attempt + 1 /\ ts = p.timers \cup {"CONN_RETRY"}
  <2>1. p.attempt + 1 \in Nat /\ p.timers \cup {"CONN_RETRY"} \in SUBSET TimerEvent
    BY DEF Peer, TimerEvent
  <2> QED
    BY <2>1
<1>2. DoReConnect(p) \in {[p EXCEPT !.attempt = 0], p,
                          [p EXCEPT !.attempt = n, !.timers = ts]}
  <2>1. Arm([p EXCEPT !.attempt = n], "CONN_RETRY")
          = [p EXCEPT !.attempt = n, !.timers = ts]
    BY <1>1 DEF Arm, Peer
  <2> QED
    BY <1>1, <2>1 DEF DoReConnect
<1>3. ASSUME NEW q \in {[p EXCEPT !.attempt = 0], p,
                        [p EXCEPT !.attempt = n, !.timers = ts]}
      PROVE  Still(p, q) /\ q.state = p.state
  <2>1. CASE q = [p EXCEPT !.attempt = 0]
    BY <2>1 DEF Still, Peer
  <2>2. CASE q = p
    BY <2>2 DEF Still
  <2>3. CASE q = [p EXCEPT !.attempt = n, !.timers = ts]
    BY <2>3 DEF Still, Peer
  <2> QED
    BY <2>1, <2>2, <2>3
<1> QED
  BY <1>2, <1>3

\* Sending concerns no connection but the one it uses, which it keeps.
LEMMA StillSend ==
  ASSUME NEW p \in Peer, NEW io \in Conn \cup {NoConn}
  PROVE  /\ \A m \in Msg : Still(p, Send(p, io, m))
         /\ \A c \in Request : Still(p, SendRequest(p, io, c))
         /\ \A c \in Answer, ok \in BOOLEAN : Still(p, SendAnswer(p, io, c, ok))
<1>1. ASSUME NEW q \in Peer, NEW m \in Msg
      PROVE  Still(q, Send(q, io, m))
  <2>1. Send(q, io, m) \in Peer
    BY SendOK
  <2>2. PICK l : l = Append(q.sent, [io |-> io, msg |-> m])
    OBVIOUS
  <2>3. Send(q, io, m) \in {[q EXCEPT !.fault = TRUE], [q EXCEPT !.sent = l]}
    BY <2>2 DEF Send
  <2> QED
    BY <2>1, <2>3 DEF Still, Peer
<1>2. ASSUME NEW c \in Request
      PROVE  Still(p, SendRequest(p, io, c))
  <2>1. SendRequest(p, io, c) \in Peer
    BY SendRequestOK
  <2>2. PICK id, t : id = (p.next % IdMod) + 1 /\ t = p.tx \cup {id}
    OBVIOUS
  <2> DEFINE a == [p EXCEPT !.next = id, !.tx = t]
             m == [cmd |-> c, id |-> id, ok |-> TRUE]
  <2>3. PICK l : l = Append(a.sent, [io |-> io, msg |-> m])
    OBVIOUS
  <2>4. SendRequest(p, io, c) \in {[a EXCEPT !.fault = TRUE], [a EXCEPT !.sent = l]}
    <3>1. SendRequest(p, io, c) = Send(a, io, m)
      BY <2>2 DEF SendRequest
    <3> QED
      BY <2>3, <3>1 DEF Send
  <2> QED
    BY <2>1, <2>4 DEF Still, Peer
<1>3. ASSUME NEW c \in Answer, NEW ok \in BOOLEAN
      PROVE  Still(p, SendAnswer(p, io, c, ok))
  <2>1. SendAnswer(p, io, c, ok) \in Peer
    BY SendAnswerOK
  <2>2. PICK r, h : r = Tail(p.rx) /\ h = Head(p.rx)
    OBVIOUS
  <2> DEFINE a == [p EXCEPT !.rx = r]
             m == [cmd |-> c, id |-> h, ok |-> ok]
             n == [cmd |-> c, id |-> 0, ok |-> ok]
  <2>3. PICK l, k : /\ l = Append(a.sent, [io |-> io, msg |-> m])
                    /\ k = Append(p.sent, [io |-> io, msg |-> n])
    OBVIOUS
  <2>4. SendAnswer(p, io, c, ok) \in
          {[a EXCEPT !.fault = TRUE], [a EXCEPT !.sent = l],
           [p EXCEPT !.fault = TRUE], [p EXCEPT !.sent = k]}
    <3>1. SendAnswer(p, io, c, ok) = IF p.rx = <<>> THEN Send(p, io, n) ELSE Send(a, io, m)
      BY <2>2 DEF SendAnswer
    <3>2. Send(p, io, n) \in {[p EXCEPT !.fault = TRUE], [p EXCEPT !.sent = k]}
      BY <2>3 DEF Send
    <3>3. Send(a, io, m) \in {[a EXCEPT !.fault = TRUE], [a EXCEPT !.sent = l]}
      BY <2>3 DEF Send
    <3> QED
      BY <3>1, <3>2, <3>3
  <2> QED
    BY <2>1, <2>4 DEF Still, Peer
<1> QED
  BY <1>1, <1>2, <1>3

\* The same of the messages of the base protocol.
LEMMA StillMessages ==
  ASSUME NEW p \in Peer
  PROVE  /\ Still(p, SendCER(p)) /\ Still(p, SendDWR(p)) /\ Still(p, SendDWA(p))
         /\ \A ok \in BOOLEAN : Still(p, SendCEA(p, ok))
<1>1. p.ini \in Conn \cup {NoConn} /\ OpenIO(p) \in Conn \cup {NoConn}
  BY OpenIOType DEF Peer
<1> QED
  BY <1>1, StillSend DEF SendCER, SendDWR, SendDWA, SendCEA, Request, Answer

\* Assigning one auto_ptr to another deletes what the one owned; resetting one
\* deletes what it owned.
LEMMA TakesAndDrops ==
  ASSUME NEW p \in Peer
  PROVE  /\ Keeps(p, TakeResponder(p)) /\ Keeps(p, TakeInitiator(p))
         /\ Keeps(p, DropResponder(p)) /\ Keeps(p, DropInitiator(p))
         /\ Keeps(p, DropCurrent(p))
<1>1. ASSUME NEW q \in {TakeResponder(p), TakeInitiator(p), DropResponder(p),
                        DropInitiator(p), DropCurrent(p)}
      PROVE  /\ q \in Peer /\ q.state = p.state
             /\ q.elect = p.elect /\ q.running = p.running /\ q.queue = p.queue
             /\ Carried(q) = Carried(p) /\ NoConn \notin Carried(p)
             /\ (Pending(p) => Pending(q)) /\ (Apart(p) => Apart(q))
  <2>1. q \in Peer /\ q.state = p.state
    <3>1. TakeResponder(p) \in Peer /\ TakeResponder(p).state = p.state
      BY TakeResponderOK
    <3>2. TakeInitiator(p) \in Peer /\ TakeInitiator(p).state = p.state
      BY TakeInitiatorOK
    <3>3. DropResponder(p) \in Peer /\ DropResponder(p).state = p.state
      BY DropResponderOK
    <3>4. DropInitiator(p) \in Peer /\ DropInitiator(p).state = p.state
      BY DropInitiatorOK
    <3>5. DropCurrent(p) \in Peer /\ DropCurrent(p).state = p.state
      BY DropCurrentOK
    <3> QED
      BY <3>1, <3>2, <3>3, <3>4, <3>5
  <2>2. q.elect = p.elect /\ q.running = p.running /\ q.queue = p.queue
    BY DEF TakeResponder, TakeInitiator, DropResponder, DropInitiator, DropCurrent, Peer
  <2> QED
    BY <2>1, <2>2 DEF Carried, Pending, Apart
<1>2. ASSUME NEW q \in {TakeResponder(p), TakeInitiator(p), DropResponder(p),
                        DropInitiator(p), DropCurrent(p)},
             Sound(p) => Sound(q) /\ Owned(q) \cup q.gone = Owned(p) \cup p.gone
      PROVE  Keeps(p, q)
  BY <1>1, <1>2 DEF Keeps, Conserves
<1>3. Keeps(p, TakeResponder(p))
  <2> DEFINE q == TakeResponder(p)
  <2>1. q.ini = p.ini /\ q.res = p.cio /\ q.cio = NoConn
        /\ q.gone = p.gone \cup ({p.res} \ {NoConn}) /\ (Apart(p) => Apart(q))
        /\ Carried(q) = Carried(p) /\ NoConn \notin Carried(p)
    BY <1>1 DEF TakeResponder, Peer
  <2> HIDE DEF q
  <2>2. Sound(p) => Sound(q) /\ Owned(q) \cup q.gone = Owned(p) \cup p.gone
    BY <2>1 DEF Sound, Owned
  <2> QED
    BY <1>2, <2>2 DEF q
<1>4. Keeps(p, TakeInitiator(p))
  <2> DEFINE q == TakeInitiator(p)
  <2>1. q.res = p.res /\ q.ini = p.cio /\ q.cio = NoConn
        /\ q.gone = p.gone \cup ({p.ini} \ {NoConn}) /\ (Apart(p) => Apart(q))
        /\ Carried(q) = Carried(p) /\ NoConn \notin Carried(p)
    BY <1>1 DEF TakeInitiator, Peer
  <2> HIDE DEF q
  <2>2. Sound(p) => Sound(q) /\ Owned(q) \cup q.gone = Owned(p) \cup p.gone
    BY <2>1 DEF Sound, Owned
  <2> QED
    BY <1>2, <2>2 DEF q
<1>5. Keeps(p, DropResponder(p))
  <2> DEFINE q == DropResponder(p)
  <2>1. q.ini = p.ini /\ q.res = NoConn /\ q.cio = p.cio
        /\ q.gone = p.gone \cup ({p.res} \ {NoConn}) /\ (Apart(p) => Apart(q))
        /\ Carried(q) = Carried(p) /\ NoConn \notin Carried(p)
    BY <1>1 DEF DropResponder, Peer
  <2> HIDE DEF q
  <2>2. Sound(p) => Sound(q) /\ Owned(q) \cup q.gone = Owned(p) \cup p.gone
    BY <2>1 DEF Sound, Owned
  <2> QED
    BY <1>2, <2>2 DEF q
<1>6. Keeps(p, DropInitiator(p))
  <2> DEFINE q == DropInitiator(p)
  <2>1. q.res = p.res /\ q.ini = NoConn /\ q.cio = p.cio
        /\ q.gone = p.gone \cup ({p.ini} \ {NoConn}) /\ (Apart(p) => Apart(q))
        /\ Carried(q) = Carried(p) /\ NoConn \notin Carried(p)
    BY <1>1 DEF DropInitiator, Peer
  <2> HIDE DEF q
  <2>2. Sound(p) => Sound(q) /\ Owned(q) \cup q.gone = Owned(p) \cup p.gone
    BY <2>1 DEF Sound, Owned
  <2> QED
    BY <1>2, <2>2 DEF q
<1>7. Keeps(p, DropCurrent(p))
  <2> DEFINE q == DropCurrent(p)
  <2>1. q.res = p.res /\ q.ini = p.ini /\ q.cio = NoConn
        /\ q.gone = p.gone \cup ({p.cio} \ {NoConn}) /\ (Apart(p) => Apart(q))
        /\ Carried(q) = Carried(p) /\ NoConn \notin Carried(p)
    BY <1>1 DEF DropCurrent, Peer
  <2> HIDE DEF q
  <2>2. Sound(p) => Sound(q) /\ Owned(q) \cup q.gone = Owned(p) \cup p.gone
    BY <2>1 DEF Sound, Owned
  <2> QED
    BY <1>2, <2>2 DEF q
<1> QED
  BY <1>3, <1>4, <1>5, <1>6, <1>7

\* Cleanup deletes what it takes from the machine, once.
LEMMA CleanupKeeps ==
  ASSUME NEW p \in Peer
  PROVE  Keeps(p, CleanupKeepI(p)) /\ Keeps(p, Cleanup(p))
<1>1. ASSUME NEW a \in Peer
      PROVE  Keeps(a, CleanupKeepI(a))
  <2> DEFINE r == DropResponder(a)
             d == DropCurrent(r)
             q == [d EXCEPT !.timers = {}, !.state = "CLOSED"]
  <2>1. r \in Peer /\ Keeps(a, r)
    BY TakesAndDrops, DropResponderOK
  <2>2. d \in Peer /\ Keeps(r, d)
    <3> HIDE DEF r
    <3> QED
      BY <2>1, TakesAndDrops, DropCurrentOK
  <2>3. CleanupKeepI(a) = q
    BY DEF CleanupKeepI
  <2> HIDE DEF d, r
  <2>4. q \in Peer /\ Still(d, q) /\ q.state = "CLOSED"
    BY <2>2 DEF Still, Peer, State
  <2> HIDE DEF q
  <2>5. Keeps(d, q)
    BY <2>4, StillKeeps
  <2> QED
    BY <2>1, <2>2, <2>3, <2>5, KeepsTrans
<1> DEFINE i == DropInitiator(p)
<1>2. i \in Peer /\ Keeps(p, i)
  BY TakesAndDrops, DropInitiatorOK
<1>3. Cleanup(p) = CleanupKeepI(i)
  BY DEF Cleanup
<1> HIDE DEF i
<1>4. Keeps(i, CleanupKeepI(i))
  BY <1>1, <1>2
<1> QED
  BY <1>1, <1>2, <1>3, <1>4, KeepsTrans

\* A queue and what it carries after one more event.
LEMMA Appended ==
  ASSUME NEW p, p.queue \in Seq(Param), NEW e \in Param,
         NEW q, q.queue = Append(p.queue, e)
  PROVE  /\ Carried(q) = Carried(p) \cup ({e.io} \ {NoConn})
         /\ Pending(p) => Pending(q)
         /\ e.ev = "WIN_ELECTION" => Pending(q)
         /\ Apart(p) /\ e.io \notin Carried(p) => Apart(q)
<1> DEFINE n == Len(p.queue)
<1>1. n \in Nat /\ Len(q.queue) = n + 1 /\ q.queue[n + 1] = e
      /\ \A i \in 1 .. n : q.queue[i] = p.queue[i]
  OBVIOUS
<1>2. 1 .. n + 1 = (1 .. n) \cup {n + 1}
  BY <1>1
<1> HIDE DEF n
<1>3. Len(p.queue) = n
  BY DEF n
<1>4. Carried(q) = Carried(p) \cup ({e.io} \ {NoConn})
  BY <1>1, <1>2, <1>3 DEF Carried
<1>5. (Pending(p) => Pending(q)) /\ (e.ev = "WIN_ELECTION" => Pending(q))
  BY <1>1, <1>2, <1>3 DEF Pending
<1>6. ASSUME Apart(p), e.io \notin Carried(p)
      PROVE  Apart(q)
  <2>1. \A i \in 1 .. n : p.queue[i].io # NoConn => p.queue[i].io # e.io
    BY <1>3, <1>6 DEF Carried
  <2> QED
    BY <1>1, <1>2, <1>3, <1>6, <2>1 DEF Apart
<1> QED
  BY <1>4, <1>5, <1>6

\* Notifying an event that carries no connection conserves them all, and a
\* machine that runs gets the event.
LEMMA NotifyKeeps ==
  ASSUME NEW p \in Peer, NEW e \in Param, e.io = NoConn
  PROVE  LET q == Notify(p, e)
         IN Keeps(p, q) /\ (p.running /\ e.ev = "WIN_ELECTION" => Pending(q))
<1> DEFINE q == Notify(p, e)
<1>1. q \in Peer /\ q.state = p.state /\ q.ini = p.ini /\ q.res = p.res /\ q.cio = p.cio
  BY NotifyOK
<1>2. p.queue \in Seq(Param)
  BY DEF Peer
<1>3. q.gone = p.gone /\ q.elect = p.elect /\ q.running = p.running
      /\ q.queue = IF p.running THEN Append(p.queue, e) ELSE p.queue
  <2>1. PICK l, g : l = Append(p.queue, e) /\ g = p.gone \cup ({e.io} \ {NoConn})
    OBVIOUS
  <2>2. g = p.gone
    BY <2>1
  <2>3. q = IF p.running THEN [p EXCEPT !.queue = l] ELSE [p EXCEPT !.gone = g]
    BY <2>1 DEF Notify
  <2> QED
    BY <2>1, <2>2, <2>3 DEF Peer
<1> HIDE DEF q
<1>4. /\ Carried(q) = Carried(p) /\ NoConn \notin Carried(p)
      /\ Pending(p) => Pending(q)
      /\ p.running /\ e.ev = "WIN_ELECTION" => Pending(q)
      /\ Apart(p) => Apart(q)
  <2>1. NoConn \notin Carried(p)
    BY DEF Carried
  <2>2. CASE p.running
    <3>1. q.queue = Append(p.queue, e)
      BY <1>3, <2>2
    <3>2. e.io \notin Carried(p)
      BY <2>1
    <3>3. /\ Carried(q) = Carried(p) \cup ({e.io} \ {NoConn})
          /\ Pending(p) => Pending(q)
          /\ e.ev = "WIN_ELECTION" => Pending(q)
          /\ Apart(p) => Apart(q)
      BY <1>2, <3>1, <3>2, Appended
    <3> QED
      BY <2>1, <3>3
  <2>3. CASE ~p.running
    BY <1>3, <2>1, <2>3 DEF Carried, Pending, Apart
  <2> QED
    BY <2>2, <2>3
<1>5. Owned(q) = Owned(p) /\ (Sound(p) => Sound(q))
  BY <1>1, <1>3, <1>4 DEF Owned, Sound
<1>6. Keeps(p, q)
  BY <1>1, <1>3, <1>4, <1>5 DEF Keeps, Conserves
<1> QED
  BY <1>4, <1>6 DEF q

\* Taking the head of the queue hands over its connection.
LEMMA BeginConserves ==
  ASSUME NEW p \in Peer, p.queue # <<>>, p.cio = NoConn
  PROVE  LET q == Begin(p)
         IN /\ q \in Peer /\ q.state = p.state
            /\ q.elect = p.elect /\ q.running = p.running
            /\ Pending(p) => Pending(q) \/ Head(p.queue).ev = "WIN_ELECTION"
            /\ Sound(p) => Sound(q) /\ Owned(q) \cup q.gone = Owned(p) \cup p.gone
<1> DEFINE q == Begin(p)
           h == Head(p.queue)
           n == Len(q.queue)
<1>1. p.queue \in Seq(Param)
  BY DEF Peer
<1>2. q \in Peer /\ q.state = p.state /\ q.ini = p.ini /\ q.res = p.res
      /\ q.cio = h.io /\ h \in Param
  BY BeginOK
<1>3. q.queue = Tail(p.queue) /\ q.gone = p.gone /\ q.elect = p.elect
      /\ q.running = p.running
  <2>1. PICK r, c : r = Tail(p.queue) /\ c = Head(p.queue).io
    OBVIOUS
  <2>2. q = [p EXCEPT !.queue = r, !.cio = c]
    BY <2>1 DEF Begin
  <2> QED
    BY <2>1, <2>2 DEF Peer
<1> HIDE DEF q
<1>4. /\ n \in Nat /\ Len(p.queue) = n + 1 /\ p.queue[1] = h
      /\ \A i \in 1 .. n : q.queue[i] = p.queue[i + 1]
  BY <1>1, <1>3
<1> HIDE DEF n, h
<1>5. /\ \A j \in 1 .. n + 1 : j = 1 \/ \E i \in 1 .. n : j = i + 1
      /\ \A i \in 1 .. n : i + 1 \in 1 .. n + 1 /\ i + 1 # 1
      /\ \A i, j \in 1 .. n : i # j => i + 1 # j + 1
      /\ 1 \in 1 .. n + 1
  <2>1. ASSUME NEW j \in 1 .. n + 1, j # 1
        PROVE  \E i \in 1 .. n : j = i + 1
    <3>1. j - 1 \in 1 .. n /\ j = (j - 1) + 1
      BY <1>4, <2>1
    <3> QED
      BY <3>1
  <2> QED
    BY <1>4, <2>1
<1>6. Len(q.queue) = n
  BY DEF n
<1>7. Carried(p) = Carried(q) \cup ({h.io} \ {NoConn})
  <2>1. ASSUME NEW c \in Carried(p), c # h.io
        PROVE  c \in Carried(q)
    <3>1. PICK j \in 1 .. n + 1 : c = p.queue[j].io
      BY <1>4 DEF Carried
    <3>2. PICK i \in 1 .. n : j = i + 1
      BY <1>4, <1>5, <2>1, <3>1
    <3> QED
      BY <1>4, <1>6, <3>1, <3>2 DEF Carried
  <2>2. ASSUME NEW c \in Carried(q)
        PROVE  c \in Carried(p)
    <3>1. PICK i \in 1 .. n : c = q.queue[i].io /\ c # NoConn
      BY <1>6 DEF Carried
    <3>2. i + 1 \in 1 .. Len(p.queue) /\ c = p.queue[i + 1].io
      BY <1>4, <1>5, <3>1
    <3> QED
      BY <3>1, <3>2 DEF Carried
  <2>3. h.io # NoConn => h.io \in Carried(p)
    BY <1>4, <1>5 DEF Carried
  <2>4. NoConn \notin Carried(p)
    BY DEF Carried
  <2> QED
    BY <2>1, <2>2, <2>3, <2>4
<1>8. Pending(p) => Pending(q) \/ h.ev = "WIN_ELECTION"
  <2> SUFFICES ASSUME NEW j \in 1 .. n + 1, p.queue[j].ev = "WIN_ELECTION", j # 1
               PROVE  Pending(q)
    BY <1>4 DEF Pending
  <2>1. PICK i \in 1 .. n : j = i + 1
    BY <1>5
  <2> QED
    BY <1>4, <1>6, <2>1 DEF Pending
<1>9. ASSUME Apart(p)
      PROVE  Apart(q) /\ (h.io # NoConn => h.io \notin Carried(q))
  <2>1. Apart(q)
    <3> SUFFICES ASSUME NEW i \in 1 .. n, NEW j \in 1 .. n,
                        q.queue[i].io # NoConn, i # j
                 PROVE  q.queue[i].io # q.queue[j].io
      BY <1>6 DEF Apart
    <3>1. i + 1 \in 1 .. Len(p.queue) /\ j + 1 \in 1 .. Len(p.queue) /\ i + 1 # j + 1
      BY <1>4, <1>5
    <3>2. p.queue[i + 1] = q.queue[i] /\ p.queue[j + 1] = q.queue[j]
      BY <1>4
    <3> QED
      BY <1>9, <3>1, <3>2 DEF Apart
  <2>2. \A i \in 1 .. n : h.io # NoConn => p.queue[i + 1].io # h.io
    BY <1>4, <1>5, <1>9 DEF Apart
  <2>3. h.io # NoConn => h.io \notin Carried(q)
    BY <1>4, <1>6, <2>2 DEF Carried
  <2> QED
    BY <2>1, <2>3
<1>10. NoConn \notin Carried(p) /\ NoConn \notin Carried(q)
  BY DEF Carried
<1>11. Sound(p) => Sound(q) /\ Owned(q) \cup q.gone = Owned(p) \cup p.gone
  BY <1>2, <1>3, <1>7, <1>9, <1>10 DEF Owned, Sound
<1> QED
  BY <1>2, <1>3, <1>8, <1>11 DEF q, h

\* The handlers that send, and open.
LEMMA OpeningKeeps ==
  ASSUME NEW p \in Peer
  PROVE  /\ Keeps(p, StartWatchdog(p)) /\ Keeps(p, StopReConnect(p))
         /\ Keeps(p, Connected(p)) /\ Keeps(p, Disconnected(p))
         /\ Keeps(p, DoReConnect(p))
         /\ Keeps(p, SendCER(p)) /\ Keeps(p, SendDWR(p)) /\ Keeps(p, SendDWA(p))
         /\ \A ok \in BOOLEAN : Keeps(p, SendCEA(p, ok))
<1>1. Keeps(p, StartWatchdog(p))
  <2> DEFINE c == Cancel(p, "TIMEOUT")
  <2>1. "TIMEOUT" \in TimerEvent /\ "WATCHDOG" \in TimerEvent
    BY DEF TimerEvent
  <2>2. c \in Peer /\ Still(p, c) /\ c.state = p.state
    BY <2>1, StillBasic, CancelOK
  <2>3. StartWatchdog(p) = Arm(c, "WATCHDOG")
    BY DEF StartWatchdog
  <2> HIDE DEF c
  <2>4. Still(c, Arm(c, "WATCHDOG")) /\ Arm(c, "WATCHDOG").state = c.state
    BY <2>1, <2>2, StillBasic, ArmOK
  <2> QED
    BY <2>2, <2>3, <2>4, KeepsTrans, StillKeeps
<1>2. Keeps(p, StopReConnect(p))
  <2>1. "CONN_RETRY" \in TimerEvent
    BY DEF TimerEvent
  <2> QED
    BY <2>1, StillBasic, CancelOK, StillKeeps DEF StopReConnect
<1>3. Keeps(p, Connected(p)) /\ Keeps(p, Disconnected(p))
  <2>1. Still(p, Connected(p)) /\ Connected(p).state = p.state
    BY StillBasic, ConnectedOK
  <2>2. Still(p, Disconnected(p)) /\ Disconnected(p).state = p.state
    BY StillBasic, DisconnectedOK
  <2> QED
    BY <2>1, <2>2, StillKeeps
<1>4. Keeps(p, DoReConnect(p))
  BY StillDoReConnect, StillKeeps
<1>5. Keeps(p, SendCER(p)) /\ Keeps(p, SendDWR(p)) /\ Keeps(p, SendDWA(p))
  <2>1. Still(p, SendCER(p)) /\ SendCER(p).state = p.state
    BY StillMessages, SendCEROK
  <2>2. Still(p, SendDWR(p)) /\ SendDWR(p).state = p.state
    BY StillMessages, SendDWROK
  <2>3. Still(p, SendDWA(p)) /\ SendDWA(p).state = p.state
    BY StillMessages, SendDWAOK
  <2> QED
    BY <2>1, <2>2, <2>3, StillKeeps
<1>6. ASSUME NEW ok \in BOOLEAN PROVE Keeps(p, SendCEA(p, ok))
  BY StillMessages, SendCEAOK, StillKeeps
<1> QED
  BY <1>1, <1>2, <1>3, <1>4, <1>5, <1>6

\* What is kept is a machine.
LEMMA KeepsType ==
  ASSUME NEW p, NEW q, Keeps(p, q)
  PROVE  q \in Peer
  BY DEF Keeps, Conserves

\* Two and three steps of a handler.
LEMMA KeepsTwice ==
  ASSUME NEW p, NEW q, NEW r, NEW t, Keeps(p, q), Keeps(q, r)
  PROVE  Keeps(p, r) /\ (Keeps(r, t) => Keeps(p, t))
  BY KeepsTrans

\* Handlers that end in CLOSED.
LEMMA ClosingKeeps ==
  ASSUME NEW p \in Peer, NEW io \in Conn \cup {NoConn}
  PROVE  /\ Keeps(p, Error(p)) /\ Keeps(p, ConnNack(p)) /\ Keeps(p, Disconnect(p))
         /\ Keeps(p, DisconnectDPA(p)) /\ Keeps(p, SendDPADisconnect(p, io))
<1> DEFINE c == Cleanup(p)
<1>1. c \in Peer /\ Keeps(p, c)
  BY CleanupKeeps, KeepsType
<1>2. Error(p) = c /\ ConnNack(p) = DoReConnect(c)
      /\ Disconnect(p) = Disconnected(DoReConnect(c))
  BY DEF Error, ConnNack, Disconnect
<1> HIDE DEF c
<1>3. Keeps(p, ConnNack(p)) /\ DoReConnect(c) \in Peer
  BY <1>1, <1>2, OpeningKeeps, KeepsTwice, KeepsType
<1>4. Keeps(p, Disconnect(p))
  BY <1>2, <1>3, OpeningKeeps, KeepsTwice
<1>5. Keeps(p, DisconnectDPA(p))
  <2> DEFINE d == Disconnected(p)
             q == Cleanup(d)
  <2>1. d \in Peer /\ Keeps(p, d)
    BY OpeningKeeps, KeepsType
  <2>2. q \in Peer /\ Keeps(d, q)
    <3> HIDE DEF d
    <3> QED
      BY <2>1, CleanupKeeps, KeepsType
  <2>3. DisconnectDPA(p) = IF q.reboot THEN DoReConnect(q) ELSE q
    BY DEF DisconnectDPA
  <2> HIDE DEF d, q
  <2> QED
    BY <2>1, <2>2, <2>3, OpeningKeeps, KeepsTwice
<1>6. Keeps(p, SendDPADisconnect(p, io))
  <2> DEFINE a == SendAnswer(p, io, "DPA", TRUE)
             d == Cleanup(a)
  <2>1. a \in Peer /\ Keeps(p, a)
    <3>1. "DPA" \in Answer
      BY DEF Answer
    <3>2. Still(p, a) /\ a.state = p.state
      BY <3>1, StillSend, SendAnswerOK
    <3> QED
      BY <3>2, StillKeeps DEF Still
  <2>2. d \in Peer /\ Keeps(a, d)
    <3> HIDE DEF a
    <3> QED
      BY <2>1, CleanupKeeps, KeepsType
  <2>3. SendDPADisconnect(p, io) = Disconnected(d)
    BY DEF SendDPADisconnect
  <2> HIDE DEF a, d
  <2> QED
    BY <2>1, <2>2, <2>3, OpeningKeeps, KeepsTwice
<1> QED
  BY <1>1, <1>2, <1>3, <1>4, <1>5, <1>6

\* Starting the watchdog and announcing the peer, which ends every handler that
\* opens it.
LEMMA WatchdogConnectedKeeps ==
  ASSUME NEW p \in Peer
  PROVE  /\ Keeps(p, Connected(StartWatchdog(p)))
         /\ Keeps(p, Connected(StopReConnect(StartWatchdog(p))))
<1>1. PICK w : w = StartWatchdog(p) /\ w \in Peer /\ Keeps(p, w)
  BY OpeningKeeps, KeepsType
<1>2. PICK s : s = StopReConnect(w) /\ s \in Peer /\ Keeps(w, s)
  BY <1>1, OpeningKeeps, KeepsType
<1>3. Keeps(w, Connected(w)) /\ Keeps(s, Connected(s))
  BY <1>1, <1>2, OpeningKeeps
<1> QED
  BY <1>1, <1>2, <1>3, KeepsTwice

\* Handlers of the open states, and of a CEA or a retry.
LEMMA OpenHandlersKeep ==
  ASSUME NEW p \in Peer, NEW m \in Msg, NEW io \in Conn \cup {NoConn}
  PROVE  /\ Keeps(p, ProcessCEA(p, m)) /\ Keeps(p, ProcessDWA(p, m))
         /\ Keeps(p, SendDPR(p, io)) /\ Keeps(p, ReConnect(p))
         /\ Keeps(p, RReject(p)) /\ Keeps(p, RDisconnectResp(p))
         /\ Keeps(p, ISendConnReq(p)) /\ Keeps(p, p)
<1>1. Keeps(p, p)
  BY StillKeeps DEF Still
<1>2. Keeps(p, ProcessCEA(p, m))
  <2>1. PICK s : s = StopReConnect(p) /\ s \in Peer /\ Keeps(p, s)
    BY OpeningKeeps, KeepsType
  <2>2. ProcessCEA(p, m) = IF m.ok THEN Connected(StartWatchdog(s)) ELSE Cleanup(p)
    BY <2>1 DEF ProcessCEA
  <2> QED
    BY <2>1, <2>2, WatchdogConnectedKeeps, CleanupKeeps, KeepsTwice
<1>3. Keeps(p, ProcessDWA(p, m))
  BY <1>1, CleanupKeeps DEF ProcessDWA
<1>4. Keeps(p, SendDPR(p, io))
  <2>1. "WATCHDOG" \in TimerEvent /\ "TIMEOUT" \in TimerEvent /\ "DPR" \in Request
    BY DEF TimerEvent, Request
  <2>2. PICK c : c = Cancel(p, "WATCHDOG") /\ c \in Peer /\ Still(p, c) /\ c.state = p.state
    BY <2>1, StillBasic, CancelOK
  <2>3. PICK a : a = Arm(c, "TIMEOUT") /\ a \in Peer /\ Still(c, a) /\ a.state = c.state
    BY <2>1, <2>2, StillBasic, ArmOK
  <2>4. Still(a, SendRequest(a, io, "DPR")) /\ SendRequest(a, io, "DPR").state = a.state
    BY <2>1, <2>3, StillSend, SendRequestOK
  <2>5. SendDPR(p, io) = SendRequest(a, io, "DPR")
    BY <2>2, <2>3 DEF SendDPR
  <2> QED
    BY <2>2, <2>3, <2>4, <2>5, KeepsTrans, StillKeeps
<1>5. Keeps(p, ReConnect(p))
  <2>1. PICK s : s = StopReConnect(p) /\ s \in Peer /\ Keeps(p, s)
    BY OpeningKeeps, KeepsType
  <2>2. Simple("START") \in Param /\ Simple("START").io = NoConn
    BY SimpleParam DEF Event, Simple
  <2>3. PICK n : n = Notify(s, Simple("START")) /\ n \in Peer /\ Keeps(s, n)
    BY <2>1, <2>2, NotifyKeeps, KeepsType
  <2>4. PICK q : q = [n EXCEPT !.start = TRUE]
    OBVIOUS
  <2>5. Still(n, q) /\ q.state = n.state
    BY <2>3, <2>4 DEF Still, Peer
  <2>6. ReConnect(p) = q
    BY <2>1, <2>3, <2>4 DEF ReConnect, Start
  <2> QED
    BY <2>1, <2>3, <2>5, <2>6, StillKeeps, KeepsTwice
<1>6. Keeps(p, RReject(p)) /\ Keeps(p, RDisconnectResp(p))
  BY TakesAndDrops DEF RReject, RDisconnectResp
<1>7. Keeps(p, ISendConnReq(p))
  <2>1. Still(p, Arm(p, "TIMEOUT")) /\ Arm(p, "TIMEOUT").state = p.state
    BY StillBasic, ArmOK DEF TimerEvent
  <2> QED
    BY <2>1, StillKeeps DEF ISendConnReq
<1> QED
  BY <1>1, <1>2, <1>3, <1>4, <1>5, <1>6, <1>7

\* Handlers that take or drop a connection during the handshake.
LEMMA HandshakeHandlersKeep ==
  ASSUME NEW p \in Peer, NEW m \in Msg
  PROVE  /\ Keeps(p, RAcceptSendCEA(p, m)) /\ Keeps(p, ISendCER(p))
         /\ Keeps(p, RAccept(p, m)) /\ Keeps(p, RSendCEA(p))
         /\ Keeps(p, RDisconnectIOpen(p, m)) /\ Keeps(p, IDisconnectSendCEA(p))
<1>0. m.ok \in BOOLEAN /\ TRUE \in BOOLEAN
  BY DEF Msg
<1>1. PICK t : t = TakeResponder(p) /\ t \in Peer /\ Keeps(p, t)
  BY TakesAndDrops, KeepsType
<1>2. Keeps(p, RAcceptSendCEA(p, m))
  <2>1. PICK q : q = SendCEA(t, m.ok) /\ q \in Peer /\ Keeps(t, q)
    BY <1>0, <1>1, OpeningKeeps, KeepsType
  <2>2. RAcceptSendCEA(p, m) = IF m.ok THEN Connected(StopReConnect(StartWatchdog(q)))
                                       ELSE Cleanup(q)
    BY <1>1, <2>1 DEF RAcceptSendCEA
  <2> QED
    BY <1>1, <2>1, <2>2, WatchdogConnectedKeeps, CleanupKeeps, KeepsTwice
<1>3. Keeps(p, ISendCER(p))
  <2>1. PICK i : i = TakeInitiator(p) /\ i \in Peer /\ Keeps(p, i)
    BY TakesAndDrops, KeepsType
  <2> QED
    BY <2>1, OpeningKeeps, KeepsTwice DEF ISendCER
<1>4. Keeps(p, RAccept(p, m))
  BY <1>1, CleanupKeeps, KeepsTwice DEF RAccept
<1>5. Keeps(p, RSendCEA(p))
  <2>1. PICK q : q = SendCEA(t, TRUE) /\ q \in Peer /\ Keeps(t, q)
    BY <1>0, <1>1, OpeningKeeps, KeepsType
  <2>2. RSendCEA(p) = Connected(StartWatchdog(q))
    BY <1>1, <2>1 DEF RSendCEA
  <2> QED
    BY <1>1, <2>1, <2>2, WatchdogConnectedKeeps, KeepsTwice
<1>6. Keeps(p, RDisconnectIOpen(p, m))
  <2>1. PICK w : w = StartWatchdog(p) /\ w \in Peer /\ Keeps(p, w)
    BY OpeningKeeps, KeepsType
  <2>2. PICK d : d = DropResponder(w) /\ d \in Peer /\ Keeps(w, d)
    BY <2>1, TakesAndDrops, KeepsType
  <2>3. RDisconnectIOpen(p, m) = IF m.ok THEN Connected(d) ELSE Cleanup(p)
    BY <2>1, <2>2 DEF RDisconnectIOpen
  <2> QED
    BY <2>1, <2>2, <2>3, OpeningKeeps, CleanupKeeps, KeepsTwice
<1>7. Keeps(p, IDisconnectSendCEA(p))
  <2>1. PICK d : d = DropInitiator(p) /\ d \in Peer /\ Keeps(p, d)
    BY TakesAndDrops, KeepsType
  <2>2. PICK q : q = SendCEA(d, TRUE) /\ q \in Peer /\ Keeps(d, q)
    BY <1>0, <2>1, OpeningKeeps, KeepsType
  <2>3. IDisconnectSendCEA(p) = Connected(StartWatchdog(q))
    BY <2>1, <2>2 DEF IDisconnectSendCEA
  <2> QED
    BY <2>1, <2>2, <2>3, WatchdogConnectedKeeps, KeepsTwice
<1> QED
  BY <1>2, <1>3, <1>4, <1>5, <1>6, <1>7

\* A machine that runs and has won its election will get the event.
Decided(p) == p.elect = "win" /\ p.running => Pending(p)

\* Elect() conserves connections, and leaves the election decided.
LEMMA ElectDecides ==
  ASSUME NEW p \in Peer
  PROVE  Keeps(p, Elect(p)) /\ Decided(Elect(p))
<1>1. p.elect \in {"win", "lose", "same"}
  BY DEF Peer
<1>2. CASE p.elect = "same"
  <2>1. Elect(p) = Cleanup(p)
    BY <1>2 DEF Elect
  <2> QED
    BY <1>2, <2>1, CleanupKeeps DEF Decided, Keeps, Conserves
<1>3. CASE p.elect = "win"
  <2>1. Simple("WIN_ELECTION") \in Param /\ Simple("WIN_ELECTION").io = NoConn
        /\ Simple("WIN_ELECTION").ev = "WIN_ELECTION"
    BY SimpleParam DEF Event, Simple
  <2>2. PICK q : /\ q = Notify(p, Simple("WIN_ELECTION")) /\ Keeps(p, q)
                 /\ p.running => Pending(q)
    BY <2>1, NotifyKeeps
  <2>3. Elect(p) = q
    BY <1>3, <2>2 DEF Elect
  <2> QED
    BY <2>2, <2>3 DEF Decided, Keeps, Conserves
<1>4. CASE p.elect = "lose"
  <2>1. Elect(p) = p
    BY <1>4 DEF Elect
  <2> QED
    BY <1>4, <2>1, StillKeeps DEF Decided, Still
<1> QED
  BY <1>1, <1>2, <1>3, <1>4

\* The two handlers that start an election.
LEMMA ElectionHandlersKeep ==
  ASSUME NEW p \in Peer, NEW m \in Msg
  PROVE  /\ Keeps(p, RAcceptElect(p, m)) /\ Keeps(p, ISendCERElect(p))
         /\ RAcceptElect(p, m).state # "CLOSED" => Decided(RAcceptElect(p, m))
         /\ Decided(ISendCERElect(p))
<1>1. PICK t : t = TakeResponder(p) /\ t \in Peer /\ Keeps(p, t)
  BY TakesAndDrops, KeepsType
<1>2. PICK i : i = TakeInitiator(p) /\ i \in Peer /\ Keeps(p, i)
  BY TakesAndDrops, KeepsType
<1>3. PICK c : c = SendCER(i) /\ c \in Peer /\ Keeps(i, c)
  BY <1>2, OpeningKeeps, KeepsType
<1>4. ISendCERElect(p) = Elect(c)
  BY <1>2, <1>3 DEF ISendCERElect
<1>5. RAcceptElect(p, m) = IF m.ok THEN Elect(t) ELSE CleanupKeepI(t)
  BY <1>1 DEF RAcceptElect
<1>6. CleanupKeepI(t).state = "CLOSED"
  BY <1>1, CleanupKeepIOK
<1> QED
  BY <1>1, <1>2, <1>3, <1>4, <1>5, <1>6, ElectDecides, CleanupKeeps, KeepsTwice

\* What a row of the table leaves: all connections, and no election won that
\* nothing will end.
Outcome(p, q) ==
  Conserves(p, q) /\ (q.state = "WAIT_RETURNS" /\ p.state # "WAIT_RETURNS" => Decided(q))

\* A handler that stays in its state, and one whose row enters another state
\* than that of an election.
LEMMA KeepsOutcome ==
  ASSUME NEW p \in Peer, NEW q, NEW s \in State
  PROVE  /\ Keeps(p, q) => Outcome(p, q)
         /\ Keeps(Goto(p, s), q) /\ s # "WAIT_RETURNS" => Outcome(p, q)
         /\ Keeps(Goto(p, s), q) /\ Decided(q) => Outcome(p, q)
<1>1. Conserves(p, Goto(p, s)) /\ Goto(p, s).state = s
  BY StillBasic, GotoOK, StillKeeps
<1>2. Keeps(Goto(p, s), q) => Conserves(p, q) /\ q.state \in {s, "CLOSED"}
  BY <1>1, KeepsTrans DEF Keeps
<1> QED
  BY <1>1, <1>2 DEF Outcome, Keeps

\* The states that rows enter are states, and entering one leaves a machine.
LEMMA GotoMachine ==
  ASSUME NEW p \in Peer, NEW s \in State
  PROVE  Goto(p, s) \in Peer
  BY GotoOK

\* Every row of CLOSED and of WAIT_CONN_ACK.
LEMMA FirstRows ==
  ASSUME NEW p \in Peer, NEW e \in Param
  PROVE  Outcome(p, InClosed(p, e)) /\ Outcome(p, InWaitConnAck(p, e))
<1>1. e.msg \in Msg
  BY ParamFacts
<1>2. PICK a, c, o, x, i : /\ a = Goto(p, "WAIT_CONN_ACK") /\ c = Goto(p, "CLOSED")
                           /\ o = Goto(p, "R_OPEN") /\ i = Goto(p, "WAIT_I_CEA")
                           /\ x = Goto(p, "WAIT_CONN_ACK_ELECT")
  OBVIOUS
<1>3. {"WAIT_CONN_ACK", "CLOSED", "R_OPEN", "WAIT_CONN_ACK_ELECT", "WAIT_I_CEA"}
        \subseteq State \ {"WAIT_RETURNS"}
  BY DEF State, Waiting, Handshaking, Open
<1>4. a \in Peer /\ c \in Peer /\ o \in Peer /\ x \in Peer /\ i \in Peer
  BY <1>2, <1>3, GotoMachine
<1>5. ASSUME NEW q,
             \/ Keeps(a, q) \/ Keeps(c, q) \/ Keeps(o, q) \/ Keeps(x, q) \/ Keeps(i, q)
             \/ Keeps(p, q)
      PROVE  Outcome(p, q)
  BY <1>2, <1>3, <1>5, KeepsOutcome
<1>6. NoConn \in Conn \cup {NoConn}
  OBVIOUS
<1>7. Keeps(a, ISendConnReq(a)) /\ Keeps(c, ReConnect(c)) /\ Keeps(p, p)
  BY <1>1, <1>4, <1>6, OpenHandlersKeep
<1>8. Keeps(o, RAcceptSendCEA(o, e.msg)) /\ Keeps(x, RAccept(x, e.msg)) /\ Keeps(i, ISendCER(i))
  BY <1>1, <1>4, HandshakeHandlersKeep
<1>9. Keeps(c, Cleanup(c)) /\ Keeps(c, ConnNack(c)) /\ Keeps(c, Error(c))
  BY <1>4, <1>6, CleanupKeeps, ClosingKeeps
<1>10. InClosed(p, e) \in {ISendConnReq(a), RAcceptSendCEA(o, e.msg), ReConnect(c), Cleanup(c)}
  BY <1>2 DEF InClosed
<1>11. InWaitConnAck(p, e) \in {ISendCER(i), ConnNack(c), RAccept(x, e.msg), Error(c), p}
  BY <1>2 DEF InWaitConnAck
<1>12. Outcome(p, InClosed(p, e))
  BY <1>5, <1>7, <1>8, <1>9, <1>10
<1>13. Outcome(p, InWaitConnAck(p, e))
  BY <1>5, <1>7, <1>8, <1>9, <1>11
<1> QED
  BY <1>12, <1>13

\* Every row of WAIT_I_CEA.
LEMMA WaitICEARows ==
  ASSUME NEW p \in Peer, NEW e \in Param
  PROVE  Outcome(p, InWaitICEA(p, e))
<1>1. e.msg \in Msg /\ NoConn \in Conn \cup {NoConn}
  BY ParamFacts
<1>2. PICK i, c, r : /\ i = Goto(p, "I_OPEN") /\ c = Goto(p, "CLOSED")
                     /\ r = Goto(p, "WAIT_RETURNS")
  OBVIOUS
<1>3. {"I_OPEN", "CLOSED", "WAIT_RETURNS"} \subseteq State
  BY DEF State, Waiting, Handshaking, Open
<1>4. i \in Peer /\ c \in Peer /\ r \in Peer
  BY <1>2, <1>3, GotoMachine
<1>5. ASSUME NEW q, Keeps(i, q) \/ Keeps(c, q) \/ Keeps(p, q)
      PROVE  Outcome(p, q)
  BY <1>2, <1>3, <1>5, KeepsOutcome
<1>6. Keeps(i, ProcessCEA(i, e.msg)) /\ Keeps(p, p)
  BY <1>1, <1>4, OpenHandlersKeep
<1>7. Keeps(c, Disconnect(c)) /\ Keeps(c, Error(c))
  BY <1>1, <1>4, ClosingKeeps
<1>8. Outcome(p, RAcceptElect(r, e.msg))
  <2> DEFINE q == RAcceptElect(r, e.msg)
  <2>1. Keeps(r, q) /\ (q.state # "CLOSED" => Decided(q))
    BY <1>1, <1>4, ElectionHandlersKeep
  <2>2. Conserves(p, r)
    BY <1>2, <1>3, StillBasic, StillKeeps
  <2> HIDE DEF q
  <2>3. Conserves(p, q)
    BY <2>1, <2>2, KeepsTrans DEF Keeps
  <2> QED
    BY <2>1, <2>3 DEF Outcome, q
<1>9. InWaitICEA(p, e) \in {ProcessCEA(i, e.msg), RAcceptElect(r, e.msg), Disconnect(c),
                            Error(c), p}
  BY <1>2 DEF InWaitICEA
<1> QED
  BY <1>5, <1>6, <1>7, <1>8, <1>9

\* Every row of WAIT_CONN_ACK_ELECT.
LEMMA WaitConnAckElectRows ==
  ASSUME NEW p \in Peer, NEW e \in Param
  PROVE  Outcome(p, InWaitConnAckElect(p, e))
<1>1. e.msg \in Msg /\ NoConn \in Conn \cup {NoConn}
  BY ParamFacts
<1>2. PICK o, c, r, a : /\ o = Goto(p, "R_OPEN") /\ c = Goto(p, "CLOSED")
                        /\ r = Goto(p, "WAIT_RETURNS") /\ a = Goto(p, "WAIT_CONN_ACK")
  OBVIOUS
<1>3. {"R_OPEN", "CLOSED", "WAIT_RETURNS", "WAIT_CONN_ACK"} \subseteq State
  BY DEF State, Waiting, Handshaking, Open
<1>4. o \in Peer /\ c \in Peer /\ r \in Peer /\ a \in Peer
  BY <1>2, <1>3, GotoMachine
<1>5. ASSUME NEW q, Keeps(o, q) \/ Keeps(c, q) \/ Keeps(a, q) \/ Keeps(p, q)
      PROVE  Outcome(p, q)
  BY <1>2, <1>3, <1>5, KeepsOutcome
<1>6. Keeps(o, RSendCEA(o))
  BY <1>1, <1>4, HandshakeHandlersKeep
<1>7. Keeps(a, RDisconnectResp(a)) /\ Keeps(p, RReject(p)) /\ Keeps(p, p)
  BY <1>1, <1>4, OpenHandlersKeep
<1>8. Keeps(c, Error(c))
  BY <1>1, <1>4, ClosingKeeps
<1>9. Outcome(p, ISendCERElect(r))
  BY <1>1, <1>2, <1>3, <1>4, ElectionHandlersKeep, KeepsOutcome
<1>10. InWaitConnAckElect(p, e) \in {ISendCERElect(r), RSendCEA(o), RDisconnectResp(a),
                                     RReject(p), Error(c), p}
  BY <1>2 DEF InWaitConnAckElect
<1> QED
  BY <1>5, <1>6, <1>7, <1>8, <1>9, <1>10

\* Every row of WAIT_RETURNS; the event that ends a won election ends it.
LEMMA WaitReturnsRows ==
  ASSUME NEW p \in Peer, NEW e \in Param
  PROVE  /\ Outcome(p, InWaitReturns(p, e))
         /\ e.ev = "WIN_ELECTION" => InWaitReturns(p, e).state # "WAIT_RETURNS"
<1>1. e.msg \in Msg /\ NoConn \in Conn \cup {NoConn}
  BY ParamFacts
<1>2. PICK o, c, i, a : /\ o = Goto(p, "R_OPEN") /\ c = Goto(p, "CLOSED")
                        /\ i = Goto(p, "I_OPEN") /\ a = Goto(p, "WAIT_I_CEA")
  OBVIOUS
<1>3. {"R_OPEN", "CLOSED", "I_OPEN", "WAIT_I_CEA"} \subseteq State
  BY DEF State, Waiting, Handshaking, Open
<1>4. o \in Peer /\ c \in Peer /\ i \in Peer /\ a \in Peer /\ o.state = "R_OPEN"
  BY <1>2, <1>3, GotoOK
<1>5. ASSUME NEW q, Keeps(o, q) \/ Keeps(c, q) \/ Keeps(i, q) \/ Keeps(a, q) \/ Keeps(p, q)
      PROVE  Outcome(p, q)
  BY <1>2, <1>3, <1>5, KeepsOutcome
<1>6. Keeps(o, IDisconnectSendCEA(o)) /\ Keeps(i, RDisconnectIOpen(i, e.msg))
  BY <1>1, <1>4, HandshakeHandlersKeep
<1>7. Keeps(a, RDisconnectResp(a)) /\ Keeps(p, RReject(p)) /\ Keeps(p, p)
  BY <1>1, <1>4, OpenHandlersKeep
<1>8. Keeps(c, Error(c))
  BY <1>1, <1>4, ClosingKeeps
<1>9. InWaitReturns(p, e) \in {IDisconnectSendCEA(o), RDisconnectIOpen(i, e.msg),
                               RDisconnectResp(a), RReject(p), Error(c), p}
  BY <1>2 DEF InWaitReturns
<1>10. e.ev = "WIN_ELECTION" => InWaitReturns(p, e).state # "WAIT_RETURNS"
  <2>1. e.ev = "WIN_ELECTION" => InWaitReturns(p, e) = IDisconnectSendCEA(o)
    BY <1>2 DEF InWaitReturns, Rcv
  <2> QED
    BY <1>4, <1>6, <2>1 DEF Keeps
<1> QED
  BY <1>5, <1>6, <1>7, <1>8, <1>9, <1>10

\* Every row of the open states and of CLOSING.
LEMMA LastRows ==
  ASSUME NEW p \in Peer, NEW e \in Param, NEW role \in Role,
         NEW io \in Conn \cup {NoConn}
  PROVE  Outcome(p, InOpen(p, e, role, io)) /\ Outcome(p, InClosing(p, e))
<1>1. e.msg \in Msg /\ e.msg.ok \in BOOLEAN
  BY ParamFacts DEF Msg
<1>2. PICK c, g : c = Goto(p, "CLOSED") /\ g = Goto(p, "CLOSING")
  OBVIOUS
<1>3. {"CLOSED", "CLOSING"} \subseteq State
  BY DEF State, Waiting
<1>4. c \in Peer /\ g \in Peer
  BY <1>2, <1>3, GotoMachine
<1>5. ASSUME NEW q, Keeps(c, q) \/ Keeps(g, q) \/ Keeps(p, q)
      PROVE  Outcome(p, q)
  BY <1>2, <1>3, <1>5, KeepsOutcome
<1>6. Keeps(p, SendCEA(p, e.msg.ok)) /\ Keeps(p, SendDWA(p)) /\ Keeps(p, SendDWR(p))
  BY <1>1, OpeningKeeps
<1>7. Keeps(p, ProcessCEA(p, e.msg)) /\ Keeps(p, ProcessDWA(p, e.msg)) /\ Keeps(p, RReject(p))
      /\ Keeps(p, p)
  BY <1>1, OpenHandlersKeep
<1>8. Keeps(g, SendDPR(g, io))
  BY <1>1, <1>4, OpenHandlersKeep
<1>9. Keeps(c, SendDPADisconnect(c, io)) /\ Keeps(c, Disconnect(c)) /\ Keeps(c, Error(c))
      /\ Keeps(c, DisconnectDPA(c))
  BY <1>4, ClosingKeeps
<1>10. InOpen(p, e, role, io) \in
         {SendCEA(p, e.msg.ok), ProcessCEA(p, e.msg), SendDWA(p), ProcessDWA(p, e.msg),
          SendDPADisconnect(c, io), SendDWR(p), SendDPR(g, io), Disconnect(c), RReject(p), p}
  BY <1>2 DEF InOpen
<1>11. InClosing(p, e) \in {DisconnectDPA(c), Error(c), Disconnect(c), p}
  BY <1>2 DEF InClosing
<1>12. Outcome(p, InOpen(p, e, role, io))
  BY <1>5, <1>6, <1>7, <1>8, <1>9, <1>10
<1>13. Outcome(p, InClosing(p, e))
  BY <1>5, <1>7, <1>9, <1>11
<1> QED
  BY <1>12, <1>13

\* Every entry of the state table, and that the event which ends a won
\* election leaves WAIT_RETURNS.
LEMMA HandleOutcome ==
  ASSUME NEW p \in Peer, NEW e \in Param
  PROVE  /\ Outcome(p, Handle(p, e))
         /\ p.state = "WAIT_RETURNS" /\ e.ev = "WIN_ELECTION" =>
              Handle(p, e).state # "WAIT_RETURNS"
<1>1. p.ini \in Conn \cup {NoConn} /\ p.res \in Conn \cup {NoConn} /\ p.state \in State
  BY DEF Peer
<1>2. CASE p.state = "CLOSED"
  BY <1>2, FirstRows DEF Handle
<1>3. CASE p.state = "WAIT_CONN_ACK"
  BY <1>3, FirstRows DEF Handle
<1>4. CASE p.state = "WAIT_I_CEA"
  BY <1>4, WaitICEARows DEF Handle
<1>5. CASE p.state = "WAIT_CONN_ACK_ELECT"
  BY <1>5, WaitConnAckElectRows DEF Handle
<1>6. CASE p.state = "WAIT_RETURNS"
  BY <1>6, WaitReturnsRows DEF Handle
<1>7. CASE p.state = "R_OPEN"
  <2>1. Handle(p, e) = InOpen(p, e, "R", p.res)
    BY <1>7 DEF Handle
  <2> QED
    BY <1>1, <1>7, <2>1, LastRows DEF Role
<1>8. CASE p.state = "I_OPEN"
  <2>1. Handle(p, e) = InOpen(p, e, "I", p.ini)
    BY <1>8 DEF Handle
  <2> QED
    BY <1>1, <1>8, <2>1, LastRows DEF Role
<1>9. CASE p.state = "CLOSING"
  <2>1. Handle(p, e) = InClosing(p, e)
    BY <1>9 DEF Handle
  <2>2. Outcome(p, InClosing(p, e))
    BY <1>1, LastRows DEF Role
  <2> QED
    BY <1>9, <2>1, <2>2
<1> QED
  BY <1>1, <1>2, <1>3, <1>4, <1>5, <1>6, <1>7, <1>8, <1>9
  DEF State, Waiting, Handshaking, Open

\* No machine is in an election that it has won and that nothing will end.
Won(p) == p.state = "WAIT_RETURNS" => Decided(p)

\* What leaves the state alone, or closes, leaves no election undecided.
LEMMA KeepsWon ==
  ASSUME NEW p, NEW q, Won(p), Keeps(p, q)
  PROVE  Won(q)
  BY DEF Won, Keeps, Conserves, Decided

\* Serve() conserves connections, takes none with it, and leaves no election
\* undecided.
LEMMA ServeConserves ==
  ASSUME NEW p \in Peer, p.queue # <<>>, p.cio = NoConn, Sound(p), Won(p)
  PROVE  LET q == Serve(p)
         IN Sound(q) /\ Won(q) /\ Owned(q) \cup q.gone = Owned(p) \cup p.gone
<1>1. PICK b, e : b = Begin(p) /\ e = Head(p.queue)
  OBVIOUS
<1>2. e \in Param
  BY <1>1, BeginOK
<1>3. /\ b \in Peer /\ b.state = p.state
      /\ b.elect = p.elect /\ b.running = p.running
      /\ Pending(p) => Pending(b) \/ e.ev = "WIN_ELECTION"
      /\ Sound(b) /\ Owned(b) \cup b.gone = Owned(p) \cup p.gone
  BY <1>1, BeginConserves
<1>4. PICK h : h = IF p.running THEN Handle(b, e) ELSE b
  OBVIOUS
<1>5. h \in Peer /\ Sound(h) /\ Owned(h) \cup h.gone = Owned(p) \cup p.gone /\ Won(h)
  <2>1. CASE p.running
    <3>1. /\ Outcome(b, h)
          /\ b.state = "WAIT_RETURNS" /\ e.ev = "WIN_ELECTION" => h.state # "WAIT_RETURNS"
      BY <1>2, <1>3, <1>4, <2>1, HandleOutcome
    <3>2. Conserves(b, h)
      BY <3>1 DEF Outcome
    <3>3. Won(h)
      <4>1. CASE b.state # "WAIT_RETURNS"
        BY <3>1, <4>1 DEF Outcome, Won
      <4>2. CASE b.state = "WAIT_RETURNS" /\ e.ev = "WIN_ELECTION"
        BY <3>1, <4>2 DEF Won
      <4>3. CASE b.state = "WAIT_RETURNS" /\ e.ev # "WIN_ELECTION"
        BY <1>3, <3>2, <4>3 DEF Won, Decided, Conserves
      <4> QED
        BY <4>1, <4>2, <4>3
    <3> QED
      BY <1>3, <3>2, <3>3 DEF Conserves
  <2>2. CASE ~p.running
    BY <1>3, <1>4, <2>2 DEF Won, Decided
  <2> QED
    BY <2>1, <2>2
<1>6. Keeps(h, DropCurrent(h))
  BY <1>5, TakesAndDrops
<1>7. Serve(p) = DropCurrent(h)
  BY <1>1, <1>4 DEF Serve
<1> QED
  BY <1>5, <1>6, <1>7, KeepsWon DEF Keeps, Conserves

\* Between two steps nothing has been deleted that the next would.
LEMMA SettledConserves ==
  ASSUME NEW p \in Peer, Sound(p), Won(p)
  PROVE  Sound(Settled(p)) /\ Won(Settled(p)) /\ Owned(Settled(p)) = Owned(p)
<1> DEFINE q == Settled(p)
<1>1. /\ q.ini = p.ini /\ q.res = p.res /\ q.cio = p.cio /\ q.queue = p.queue
      /\ q.gone = {} /\ q.state = p.state /\ q.elect = p.elect /\ q.running = p.running
  BY DEF Settled, Peer
<1> HIDE DEF q
<1>2. Carried(q) = Carried(p)
  BY <1>1 DEF Carried
<1>3. Owned(q) = Owned(p)
  BY <1>1, <1>2 DEF Owned
<1>4. Sound(q)
  BY <1>1, <1>2 DEF Sound, Apart
<1>5. Won(q)
  BY <1>1 DEF Won, Decided, Pending
<1> QED
  BY <1>3, <1>4, <1>5 DEF q

\* Notify() of the event of a new connection hands it to the machine, or
\* deletes it when the machine has been stopped.
LEMMA NotifyHandsOver ==
  ASSUME NEW p \in Peer, Sound(p), Won(p), p.gone = {},
         NEW e \in Param, e.io # NoConn, e.io \notin Owned(p)
  PROVE  LET q == Notify(p, e)
         IN Sound(q) /\ Won(q) /\ Owned(q) \cup q.gone = Owned(p) \cup {e.io}
<1> DEFINE q == Notify(p, e)
<1>1. q \in Peer /\ q.state = p.state /\ q.ini = p.ini /\ q.res = p.res /\ q.cio = p.cio
  BY NotifyOK
<1>2. p.queue \in Seq(Param)
  BY DEF Peer
<1>3. /\ q.elect = p.elect /\ q.running = p.running
      /\ q.gone = (IF p.running THEN {} ELSE {e.io})
      /\ q.queue = IF p.running THEN Append(p.queue, e) ELSE p.queue
  <2>1. PICK l, g : l = Append(p.queue, e) /\ g = p.gone \cup ({e.io} \ {NoConn})
    OBVIOUS
  <2>2. g = {e.io}
    BY <2>1
  <2>3. q = IF p.running THEN [p EXCEPT !.queue = l] ELSE [p EXCEPT !.gone = g]
    BY <2>1 DEF Notify
  <2> QED
    BY <2>1, <2>2, <2>3 DEF Peer
<1> HIDE DEF q
<1>4. e.io \notin Carried(p) /\ e.io \notin {p.ini, p.res, p.cio}
  BY DEF Owned
<1>5. CASE p.running
  <2>1. q.queue = Append(p.queue, e)
    BY <1>3, <1>5
  <2>2. /\ Carried(q) = Carried(p) \cup ({e.io} \ {NoConn})
        /\ Pending(p) => Pending(q)
        /\ Apart(p) => Apart(q)
    BY <1>2, <1>4, <2>1, Appended
  <2>3. Sound(q) /\ Owned(q) \cup q.gone = Owned(p) \cup {e.io}
    BY <1>1, <1>3, <1>4, <1>5, <2>2 DEF Sound, Owned
  <2>4. Won(q)
    BY <1>1, <1>3, <2>2 DEF Won, Decided
  <2> QED
    BY <2>3, <2>4 DEF q
<1>6. CASE ~p.running
  <2>1. Carried(q) = Carried(p) /\ (Apart(p) => Apart(q))
    BY <1>3, <1>6 DEF Carried, Apart
  <2>2. Sound(q) /\ Owned(q) \cup q.gone = Owned(p) \cup {e.io}
    BY <1>1, <1>3, <1>4, <1>6, <2>1 DEF Sound, Owned
  <2>3. Won(q)
    BY <1>3, <1>6 DEF Won, Decided
  <2> QED
    BY <2>2, <2>3 DEF q
<1> QED
  BY <1>5, <1>6

\* Checking the ids of a message concerns no connection.
LEMMA StillMsgIdRx ==
  ASSUME NEW p \in Peer, NEW m \in Msg
  PROVE  Still(p, MsgIdRx(p, m)) /\ MsgIdRx(p, m).state = p.state
<1>1. PICK r, t : r = Append(p.rx, m.id) /\ t = p.tx \ {m.id}
  OBVIOUS
<1>2. MsgIdRx(p, m) \in {[p EXCEPT !.rx = r], [p EXCEPT !.tx = t], p}
  BY <1>1 DEF MsgIdRx
<1>3. m.id \in Id /\ r \in Seq(Id) /\ t \in SUBSET Id
  BY <1>1 DEF Msg, Peer
<1>4. ASSUME NEW q \in {[p EXCEPT !.rx = r], [p EXCEPT !.tx = t], p}
      PROVE  Still(p, q) /\ q.state = p.state
  <2>1. CASE q = [p EXCEPT !.rx = r]
    BY <1>3, <2>1 DEF Still, Peer
  <2>2. CASE q = [p EXCEPT !.tx = t]
    BY <1>3, <2>2 DEF Still, Peer
  <2>3. CASE q = p
    BY <2>3 DEF Still
  <2> QED
    BY <1>4, <2>1, <2>2, <2>3
<1> QED
  BY <1>2, <1>4

\* The threads that report a message, an error, or a request to start or
\* stop hand no connection over.
LEMMA ReportsKeep ==
  ASSUME NEW p \in Peer
  PROVE  /\ \A t \in Event \ {"CONN_ACK", "R_CONN_CER"} : Keeps(p, Notify(p, Simple(t)))
         /\ \A reboot \in BOOLEAN : Keeps(p, Stop(p, reboot))
         /\ Keeps(p, ConnectionRequestFailed(p))
         /\ \A role \in Role : Keeps(p, TransportError(p, role))
         /\ \A m \in Msg : Keeps(p, Message(p, m))
<1>1. ASSUME NEW q \in Peer, NEW t \in Event \ {"CONN_ACK", "R_CONN_CER"}
      PROVE  Keeps(q, Notify(q, Simple(t)))
  <2>1. Simple(t) \in Param /\ Simple(t).io = NoConn
    BY SimpleParam DEF Simple
  <2> QED
    BY <2>1, NotifyKeeps
<1>2. ASSUME NEW reboot \in BOOLEAN
      PROVE  Keeps(p, Stop(p, reboot))
  <2>1. PICK q : q = [p EXCEPT !.reboot = reboot]
    OBVIOUS
  <2>2. q \in Peer /\ Still(p, q) /\ q.state = p.state
    BY <2>1 DEF Still, Peer
  <2>3. Keeps(q, Notify(q, Simple("STOP")))
    BY <1>1, <2>2 DEF Event
  <2> QED
    BY <2>1, <2>2, <2>3, StillKeeps, KeepsTwice DEF Stop
<1>3. Keeps(p, ConnectionRequestFailed(p))
  BY <1>1 DEF ConnectionRequestFailed, Event
<1>4. ASSUME NEW role \in Role
      PROVE  Keeps(p, TransportError(p, role))
  <2>1. Disc(role) \in Param /\ Disc(role).io = NoConn
    BY NoMsgType DEF Disc, Simple, Param, Event, Role
  <2> QED
    BY <2>1, NotifyKeeps DEF TransportError
<1>5. ASSUME NEW m \in Msg
      PROVE  Keeps(p, Message(p, m))
  <2>1. PICK q : q = MsgIdRx(p, m) /\ q \in Peer /\ Keeps(p, q)
    BY StillMsgIdRx, StillKeeps DEF Still
  <2>2. Keeps(p, Notify(p, Simple("NON_CEA")))
    BY <1>1 DEF Event
  <2>3. ASSUME NEW role \in Role
        PROVE  Keeps(p, Notify(q, Received(role, m)))
    <3>1. Received(role, m) \in Param /\ Received(role, m).io = NoConn
      BY ReceivedParam DEF Received, Simple
    <3> QED
      BY <2>1, <3>1, NotifyKeeps, KeepsTwice
  <2>4. Keeps(p, p)
    BY StillKeeps DEF Still
  <2>5. Message(p, m) \in {Notify(p, Simple("NON_CEA")), p, q, Notify(q, Received("I", m)),
                           Notify(q, Received("R", m))}
    BY <2>1 DEF Message
  <2> QED
    BY <2>1, <2>2, <2>3, <2>4, <2>5 DEF Role
<1> QED
  BY <1>1, <1>2, <1>3, <1>4, <1>5

\* The connector's and the acceptor's threads hand a connection over.
LEMMA NewConnectionsOwned ==
  ASSUME NEW p \in Peer, Sound(p), Won(p), p.gone = {}, NEW c \in Conn, c \notin Owned(p)
  PROVE  /\ LET q == ConnectionRequestAccepted(p, c)
            IN q \in Peer /\ Sound(q) /\ Won(q) /\ Owned(q) \cup q.gone = Owned(p) \cup {c}
         /\ \A m \in Msg :
              LET q == IncommingConnectionRequest(p, c, m)
              IN q \in Peer /\ Sound(q) /\ Won(q) /\ Owned(q) \cup q.gone = Owned(p) \cup {c}
<1>0. c # NoConn
  BY PeerFsmAssumption
<1>1. PICK e : e = [Simple("CONN_ACK") EXCEPT !.io = c] /\ e \in Param /\ e.io = c
  <2>1. [Simple("CONN_ACK") EXCEPT !.io = c]
          = [ev |-> "CONN_ACK", role |-> "I", msg |-> NoMsg, io |-> c]
    BY DEF Simple
  <2>2. [ev |-> "CONN_ACK", role |-> "I", msg |-> NoMsg, io |-> c] \in Param
    BY <1>0, NoMsgType DEF Param, Event, Role
  <2> QED
    BY <2>1, <2>2
<1>2. LET q == Notify(p, e)
      IN q \in Peer /\ Sound(q) /\ Won(q) /\ Owned(q) \cup q.gone = Owned(p) \cup {c}
  <2>1. e.io # NoConn /\ e.io \notin Owned(p)
    BY <1>0, <1>1
  <2>2. Notify(p, e) \in Peer
    BY <1>1, NotifyOK
  <2> QED
    BY <1>1, <2>1, <2>2, NotifyHandsOver
<1>3. ConnectionRequestAccepted(p, c) = Notify(p, e)
  BY <1>1 DEF ConnectionRequestAccepted
<1>4. ASSUME NEW m \in Msg
      PROVE  LET q == IncommingConnectionRequest(p, c, m)
             IN q \in Peer /\ Sound(q) /\ Won(q) /\ Owned(q) \cup q.gone = Owned(p) \cup {c}
  <2>1. PICK r : r = MsgIdRx(p, m) /\ Still(p, r) /\ r.state = p.state
    BY StillMsgIdRx
  <2>2. Keeps(p, r)
    BY <2>1, StillKeeps
  <2>3. r \in Peer /\ r.gone = {} /\ Sound(r) /\ Won(r) /\ Owned(r) = Owned(p)
    <3>1. r \in Peer /\ r.gone = {} /\ Carried(r) = Carried(p)
      BY <2>1 DEF Still, Carried
    <3>2. Owned(r) = Owned(p)
      BY <2>1, <3>1 DEF Still, Owned
    <3> QED
      BY <2>2, <3>1, <3>2, KeepsWon DEF Keeps, Conserves
  <2>4. PICK f : /\ f = [ev |-> "R_CONN_CER", role |-> "R", msg |-> m, io |-> c]
                 /\ f \in Param /\ f.io = c
    <3>1. [ev |-> "R_CONN_CER", role |-> "R", msg |-> m, io |-> c] \in Param
      BY <1>0 DEF Param, Event, Role
    <3> QED
      BY <3>1
  <2>5. LET q == Notify(r, f)
        IN q \in Peer /\ Sound(q) /\ Won(q) /\ Owned(q) \cup q.gone = Owned(p) \cup {c}
    <3>1. f.io # NoConn /\ f.io \notin Owned(r)
      BY <1>0, <2>3, <2>4
    <3>2. Notify(r, f) \in Peer
      BY <2>3, <2>4, NotifyOK
    <3>3. Owned(r) \cup {f.io} = Owned(p) \cup {c}
      BY <2>3, <2>4
    <3> QED
      BY <2>3, <2>4, <3>1, <3>2, <3>3, NotifyHandsOver
  <2>6. IncommingConnectionRequest(p, c, m) = Notify(r, f)
    BY <2>1, <2>4 DEF IncommingConnectionRequest
  <2> QED
    BY <2>5, <2>6
<1> QED
  BY <1>2, <1>3, <1>4

\* Stopping the machine takes no connection from it.
LEMMA HaltConserves ==
  ASSUME NEW p \in Peer, Sound(p)
  PROVE  LET q == [p EXCEPT !.running = FALSE]
         IN Sound(q) /\ Won(q) /\ Owned(q) = Owned(p)
<1> DEFINE q == [p EXCEPT !.running = FALSE]
<1>1. /\ q.ini = p.ini /\ q.res = p.res /\ q.cio = p.cio /\ q.queue = p.queue
      /\ q.gone = p.gone /\ ~q.running
  BY DEF Peer
<1> HIDE DEF q
<1>2. Carried(q) = Carried(p)
  BY <1>1 DEF Carried
<1>3. Owned(q) = Owned(p)
  BY <1>1, <1>2 DEF Owned
<1>4. Sound(q) /\ Won(q)
  BY <1>1, <1>2, <1>3 DEF Sound, Apart, Won, Decided
<1> QED
  BY <1>3, <1>4 DEF q

\* A new machine owns nothing.
LEMMA NewPeerOwns ==
  ASSUME NEW e \in {"win", "lose", "same"}
  PROVE  LET p == NewPeer(e) IN Sound(p) /\ Won(p) /\ Owned(p) = {}
<1> DEFINE p == NewPeer(e)
<1>1. /\ p.ini = NoConn /\ p.res = NoConn /\ p.cio = NoConn /\ p.gone = {}
      /\ p.queue = <<>> /\ p.state = "CLOSED"
  BY DEF NewPeer
<1> HIDE DEF p
<1>2. Len(p.queue) = 0 /\ 1 .. 0 = {}
  BY <1>1
<1>3. Carried(p) = {} /\ Apart(p)
  BY <1>2 DEF Carried, Apart
<1>4. Owned(p) = {} /\ Sound(p) /\ Won(p)
  BY <1>1, <1>3 DEF Owned, Sound, Won
<1> QED
  BY <1>4 DEF p
----------------------------------------------------------------------------
(* The peer entry.                                                         *)

EnvOK ==
  /\ conn \in [Conn -> Link]
  /\ connector \in {"idle", "busy"}
  /\ app \in {"run", "polling", "clearing", "waiting", "closed"}
  /\ sender \in [Sender -> Open \cup {"idle"}]

Inv == Calm(peer) /\ EnvOK

\* Discarding connections keeps the type of conn.
LEMMA DiscardType ==
  ASSUME NEW cs \in [Conn -> Link], NEW g
  PROVE  Discard(cs, g) \in [Conn -> Link]
  BY DEF Discard, Link

\* Replacing one link keeps the type of conn.
LEMMA LinkUpdate ==
  ASSUME NEW cs \in [Conn -> Link], NEW c \in Conn, NEW l \in Link
  PROVE  [cs EXCEPT ![c] = l] \in [Conn -> Link]
  OBVIOUS

\* The links that are made are links.
LEMMA FreshType ==
  ASSUME NEW k \in {"I", "P", "R"}
  PROVE  Fresh(k) \in Link /\ Free \in Link
  BY DEF Fresh, Free, Link

\* What becomes of a machine after a step that discards connections.
LEMMA BecomesCalm ==
  ASSUME NEW p, Good(p), p.cio = NoConn,
         NEW cs \in [Conn -> Link], Becomes(p, cs)
  PROVE  Calm(peer') /\ conn' \in [Conn -> Link]
  BY SettledGood, DiscardType DEF Becomes, Calm

\* Connect() keeps the type of connector.
LEMMA ConnectType ==
  ASSUME EnvOK, Connect
  PROVE  connector' \in {"idle", "busy"}
  BY DEF EnvOK, Connect

\* A new entry, whose machine DiameterPeerEntry's constructor leaves CLOSED
\* with nothing armed or owned, satisfies the inductive invariant.
THEOREM InitInv == Init => Inv
<1> SUFFICES ASSUME Init PROVE Inv
  OBVIOUS
<1>1. Calm(peer)
  BY NewPeerGood DEF Init, Calm
<1>2. EnvOK
  BY DEF Init, EnvOK, Free, Link
<1> QED
  BY <1>1, <1>2 DEF Inv

\* Every action of the entry preserves the inductive invariant: a handler of
\* the state table served by Serve(), a notification by any other thread, a
\* timer, and the steps of Close().
THEOREM NextInv == Inv /\ [Next]_vars => Inv'
<1> SUFFICES ASSUME Inv, [Next]_vars PROVE Inv'
  OBVIOUS
<1>0. Calm(peer) /\ Good(peer) /\ peer.cio = NoConn
      /\ conn \in [Conn -> Link] /\ EnvOK
  BY DEF Inv, Calm, Quiet, EnvOK
<1>1. CASE ServeEvent
  <2>1. ~peer.fault /\ peer.queue # <<>>
    BY <1>1 DEF ServeEvent, Alive
  <2>2. Calm(peer') /\ conn' \in [Conn -> Link]
    <3>1. Good(Serve(peer)) /\ Serve(peer).cio = NoConn
      BY <1>0, <2>1, ServeGood
    <3> QED
      BY <1>0, <1>1, <3>1, BecomesCalm DEF ServeEvent
  <2>3. connector' \in {"idle", "busy"}
    BY <1>0, <1>1, ConnectType DEF ServeEvent, EnvOK
  <2> QED
    BY <1>0, <1>1, <2>2, <2>3 DEF ServeEvent, Inv, EnvOK
<1>2. ASSUME NEW t \in TimerEvent, TimerFires(t)
      PROVE  Inv'
  <2>1. Simple(t) \in Param /\ Simple(t).io = NoConn
    BY SimpleParam DEF Event, TimerEvent, Simple
  <2>2. Calm(Notify(peer, Simple(t)))
    BY <1>0, <1>2, <2>1, NotifyCalm DEF TimerFires, Alive
  <2> QED
    BY <1>0, <1>2, <2>2 DEF TimerFires, Inv, EnvOK
<1>3. CASE AppStart
  <2>1. Simple("START") \in Param /\ Simple("START").io = NoConn
    BY SimpleParam DEF Event, Simple
  <2>2. Calm(peer')
    BY <1>0, <1>3, <2>1, NotifyCalm DEF AppStart, Room, Alive
  <2>3. connector' \in {"idle", "busy"}
    BY <1>0, <1>3, ConnectType DEF AppStart
  <2> QED
    BY <1>0, <1>3, <2>2, <2>3 DEF AppStart, Inv, EnvOK
<1>4. ASSUME NEW reboot \in BOOLEAN, AppStop(reboot)
      PROVE  Inv'
  <2>1. Calm(peer')
    BY <1>0, <1>4, StopCalm DEF AppStop, Room, Alive
  <2> QED
    BY <1>0, <1>4, <2>1 DEF AppStop, Inv, EnvOK
<1>5. ASSUME NEW c \in Conn, ConnectorSuccess(c)
      PROVE  Inv'
  <2> DEFINE p == ConnectionRequestAccepted(peer, c)
             cs == [conn EXCEPT ![c] = Fresh("I")]
  <2>1. Good(p) /\ p.cio = NoConn
    BY <1>0, <1>5, ConnectionRequestAcceptedGood
    DEF ConnectorSuccess, Room, Alive
  <2>2. cs \in [Conn -> Link]
    BY <1>0, FreshType, LinkUpdate
  <2>3. Becomes(p, cs) /\ connector' = "idle" /\ UNCHANGED <<app, sender>>
    BY <1>5 DEF ConnectorSuccess
  <2> HIDE DEF p, cs
  <2>4. Calm(peer') /\ conn' \in [Conn -> Link]
    BY <2>1, <2>2, <2>3, BecomesCalm
  <2> QED
    BY <1>0, <2>3, <2>4 DEF Inv, EnvOK
<1>6. CASE ConnectorFailed
  <2>1. Calm(peer')
    BY <1>0, <1>6, ConnectionRequestFailedCalm
    DEF ConnectorFailed, Room, Alive
  <2> QED
    BY <1>0, <1>6, <2>1 DEF ConnectorFailed, Inv, EnvOK
<1>7. ASSUME NEW c \in Conn, AcceptorSuccess(c)
      PROVE  Inv'
  <2>1. conn' \in [Conn -> Link]
    BY <1>0, <1>7, FreshType, LinkUpdate DEF AcceptorSuccess
  <2> QED
    BY <1>0, <1>7, <2>1 DEF AcceptorSuccess, Inv, EnvOK
<1>8. ASSUME NEW c \in Conn, NEW ok \in BOOLEAN, PendingCER(c, ok)
      PROVE  Inv'
  <2>1. PICK id \in 1 .. IdMod :
          Becomes(IncommingConnectionRequest(peer, c,
                    [cmd |-> "CER", id |-> id, ok |-> ok]),
                  [conn EXCEPT ![c].kind = "R"])
    BY <1>8 DEF PendingCER
  <2> DEFINE m == [cmd |-> "CER", id |-> id, ok |-> ok]
             p == IncommingConnectionRequest(peer, c, m)
             cs == [conn EXCEPT ![c].kind = "R"]
  <2>2. m \in Msg
    BY PeerFsmAssumption DEF Msg, Command, Id
  <2>3. Good(p) /\ p.cio = NoConn
    <3> HIDE DEF m
    <3> QED
      BY <1>0, <1>8, <2>2, IncommingConnectionRequestGood
      DEF PendingCER, Room, Alive
  <2>4. cs \in [Conn -> Link]
    BY <1>0 DEF Link
  <2>5. Becomes(p, cs) /\ UNCHANGED <<connector, app, sender>>
    BY <1>8, <2>1 DEF PendingCER
  <2> HIDE DEF p, cs
  <2>6. Calm(peer') /\ conn' \in [Conn -> Link]
    BY <2>3, <2>4, <2>5, BecomesCalm
  <2> QED
    BY <1>0, <2>5, <2>6 DEF Inv, EnvOK
<1>9. ASSUME NEW c \in Conn, PendingError(c)
      PROVE  Inv'
  <2>1. conn' \in [Conn -> Link]
    BY <1>0, <1>9, DiscardType DEF PendingError
  <2> QED
    BY <1>0, <1>9, <2>1 DEF PendingError, Inv, EnvOK
<1>10. ASSUME NEW c \in Conn, NEW m \in RemoteMsg, ReaderMessage(c, m)
       PROVE  Inv'
  <2>1. Calm(peer')
    BY <1>0, <1>10, MessageCalm DEF ReaderMessage, RemoteMsg, Room, Alive
  <2> QED
    BY <1>0, <1>10, <2>1 DEF ReaderMessage, Inv, EnvOK
<1>11. ASSUME NEW c \in Conn, ReaderError(c)
       PROVE  Inv'
  <2>1. Calm(peer')
    BY <1>0, <1>11, TransportErrorCalm DEF ReaderError, Room, Alive
  <2>2. conn' \in [Conn -> Link]
    BY <1>0, <1>11 DEF ReaderError, Link
  <2> QED
    BY <1>0, <1>11, <2>1, <2>2 DEF ReaderError, Inv, EnvOK
<1>12. ASSUME NEW c \in Conn, Collect(c)
       PROVE  Inv'
  <2>1. conn' \in [Conn -> Link]
    BY <1>0, <1>12, FreshType, LinkUpdate DEF Collect
  <2> QED
    BY <1>0, <1>12, <2>1 DEF Collect, Inv, EnvOK
<1>13. ASSUME NEW s \in Sender, SendReadsState(s)
       PROVE  Inv'
  <2>1. sender' \in [Sender -> Open \cup {"idle"}]
    BY <1>0, <1>13 DEF SendReadsState, EnvOK
  <2> QED
    BY <1>0, <1>13, <2>1 DEF SendReadsState, Inv, EnvOK
<1>14. ASSUME NEW s \in Sender, SendReadsIO(s)
       PROVE  Inv'
  <2>1. PICK io \in Conn \cup {NoConn} :
          io = IF sender[s] = "I_OPEN" THEN peer.ini ELSE peer.res
    BY <1>0 DEF Good, Peer
  <2> DEFINE p == Send(peer, io, NoMsg)
  <2>2. p \in Peer /\ SameTimers(peer, p) /\ SameConns(peer, p)
        /\ p.state = peer.state /\ p.up = peer.up /\ p.cio = NoConn
    BY <1>0, NoMsgType, SendOK DEF Good
  <2>3. peer' = Settled(p) /\ UNCHANGED <<conn, connector, app>>
    BY <1>14, <2>1 DEF SendReadsIO
  <2> HIDE DEF p
  <2>4. Good(p)
    BY <1>0, <1>14, <2>2, SameGood DEF SendReadsIO, Alive
  <2>5. Calm(peer')
    BY <2>2, <2>3, <2>4, SettledGood DEF Calm
  <2>6. sender' \in [Sender -> Open \cup {"idle"}]
    BY <1>0, <1>14 DEF SendReadsIO, EnvOK
  <2> QED
    BY <1>0, <2>3, <2>5, <2>6 DEF Inv, EnvOK
<1>15. CASE CloseStops
  <2>1. Calm(peer')
    BY <1>0, <1>15, StopCalm DEF CloseStops, Room, Alive
  <2> QED
    BY <1>0, <1>15, <2>1 DEF CloseStops, Inv, EnvOK
<1>16. CASE CloseSeesNoneOpen
  BY <1>0, <1>16 DEF CloseSeesNoneOpen, Inv, EnvOK
<1>17. CASE CloseDeletes
  <2>1. peer' = [peer EXCEPT !.running = FALSE]
        /\ UNCHANGED <<conn, connector, sender>>
    BY <1>17 DEF CloseDeletes
  <2>2. Calm(peer')
    BY <1>0, <1>17, <2>1, HaltCalm DEF CloseDeletes, Alive
  <2>3. app' \in {"closed", "waiting"}
    BY <1>17 DEF CloseDeletes
  <2> QED
    BY <1>0, <2>1, <2>2, <2>3 DEF Inv, EnvOK
<1>18. CASE UNCHANGED vars
  BY <1>0, <1>18 DEF vars, Inv, EnvOK
<1> QED
  BY <1>1, <1>2, <1>3, <1>4, <1>5, <1>6, <1>7, <1>8, <1>9, <1>10, <1>11,
     <1>12, <1>13, <1>14, <1>15, <1>16, <1>17, <1>18 DEF Next
----------------------------------------------------------------------------
\* The inductive invariant holds in every behaviour.
LEMMA SpecInv == Spec => []Inv
  BY InitInv, NextInv, PTL DEF Spec

\* Type correctness, the retry budget, and that no event outlives the
\* Serve() that took it from the queue.
THEOREM TypeCorrect == Spec => []TypeOK
<1>1. Inv => TypeOK
  BY DEF Inv, EnvOK, Calm, Good, TypeOK
<1> QED
  BY <1>1, SpecInv, PTL

\* In every state exactly the timers that end or supervise it are armed.
THEOREM TimersAlwaysMatch == Spec => []TimerInv
<1>1. Inv => TimerInv
  BY DEF Inv, Calm, Good, TimerInv
<1> QED
  BY <1>1, SpecInv, PTL

\* In every state the machine owns the connections that state uses, and a
\* responder in no state that would leak it.
THEOREM ConnsAlwaysMatch == Spec => []ConnInv
<1>1. Inv => ConnInv
  BY DEF Inv, Calm, Good, ConnInv
<1> QED
  BY <1>1, SpecInv, PTL

\* Whenever a peer is open, Connected() has been called for it and
\* Disconnected() has not followed.
THEOREM OpenAlwaysAnnounced == Spec => []OpenAnnounced
<1>1. Inv => OpenAnnounced
  BY DEF Inv, Calm, Good, OpenAnnounced
<1> QED
  BY <1>1, SpecInv, PTL

----------------------------------------------------------------------------
(* Ownership.  That every connection handed to the entry is owned once is  *)
(* inductive only together with what the machine has just deleted (gone)   *)
(* and with the event being served (cio): Sound and Owned above            *)
(* speak of both.  That a won election is pending is inductive once the    *)
(* event is counted while it is anywhere in the queue, whatever precedes   *)
(* it.                                                                     *)

\* The connections in a role that have not been discarded.
InUse(cs) == {c \in Conn : cs[c].kind \in Role /\ ~cs[c].gc}

OwnInv ==
  /\ Sound(peer)
  /\ Won(peer)
  /\ Owned(peer) = InUse(conn)

\* A step that deletes connections hands them to the garbage collector.
LEMMA BecomesOwn ==
  ASSUME NEW p \in Peer, Sound(p), Won(p), NEW cs \in [Conn -> Link],
         Owned(p) \cup p.gone = InUse(cs), Becomes(p, cs)
  PROVE  OwnInv'
<1>1. Sound(peer') /\ Won(peer') /\ Owned(peer') = Owned(p)
  BY SettledConserves DEF Becomes
<1>2. p.gone \cap Owned(p) = {}
  BY DEF Sound
<1>3. conn' = [c \in Conn |-> IF c \in p.gone THEN [cs[c] EXCEPT !.gc = TRUE] ELSE cs[c]]
  BY DEF Becomes, Discard
<1>4. \A c \in Conn : c \in p.gone => conn'[c].gc
  BY <1>3 DEF Link
<1>5. \A c \in Conn : c \notin p.gone => conn'[c] = cs[c]
  BY <1>3
<1>6. InUse(conn') = InUse(cs) \ p.gone
  BY <1>4, <1>5 DEF InUse
<1> QED
  BY <1>1, <1>2, <1>6 DEF OwnInv

\* A step that neither hands over nor deletes a connection.
LEMMA KeepsOwn ==
  ASSUME OwnInv, Inv, Inv', Keeps(peer, peer'), InUse(conn') = InUse(conn)
  PROVE  OwnInv'
<1>1. peer.gone = {} /\ peer'.gone = {}
  BY DEF Inv, Calm, Quiet
<1>2. Sound(peer') /\ Owned(peer') = Owned(peer)
  BY <1>1 DEF OwnInv, Keeps, Conserves
<1>3. Won(peer')
  BY KeepsWon DEF OwnInv
<1> QED
  BY <1>2, <1>3 DEF OwnInv

\* A new entry owns nothing.
THEOREM InitOwn == Init => OwnInv
<1> SUFFICES ASSUME Init PROVE OwnInv
  OBVIOUS
<1>1. Sound(peer) /\ Won(peer) /\ Owned(peer) = {}
  BY NewPeerOwns DEF Init
<1>2. InUse(conn) = {}
  BY DEF Init, InUse, Free, Role
<1> QED
  BY <1>1, <1>2 DEF OwnInv

\* Every action preserves it.  The steps that matter are those that serve an
\* event, and the two that hand a connection over; and PendingError and
\* Collect, which touch only connections the machine does not own.
THEOREM NextOwn == Inv /\ Inv' /\ OwnInv /\ [Next]_vars => OwnInv'
<1> SUFFICES ASSUME Inv, Inv', OwnInv, [Next]_vars PROVE OwnInv'
  OBVIOUS
<1>0. /\ peer \in Peer /\ peer.cio = NoConn /\ peer.gone = {}
      /\ conn \in [Conn -> Link]
      /\ Sound(peer) /\ Won(peer) /\ Owned(peer) = InUse(conn)
  BY DEF Inv, Calm, Good, Quiet, EnvOK, OwnInv
<1>1. CASE ServeEvent
  <2>1. peer.queue # <<>> /\ Becomes(Serve(peer), conn)
    BY <1>1 DEF ServeEvent
  <2>2. Serve(peer) \in Peer
    <3>1. Good(peer) /\ ~peer.fault
      BY <1>1 DEF ServeEvent, Alive, Inv, Calm
    <3> QED
      BY <2>1, <3>1, ServeGood DEF Good
  <2>3. Sound(Serve(peer)) /\ Won(Serve(peer))
        /\ Owned(Serve(peer)) \cup Serve(peer).gone = Owned(peer)
    BY <1>0, <2>1, ServeConserves
  <2> QED
    BY <1>0, <2>1, <2>2, <2>3, BecomesOwn
<1>2. ASSUME NEW t \in TimerEvent, TimerFires(t)
      PROVE  OwnInv'
  <2>1. t \in Event \ {"CONN_ACK", "R_CONN_CER"}
    BY DEF Event, TimerEvent
  <2> QED
    BY <1>0, <1>2, <2>1, ReportsKeep, KeepsOwn DEF TimerFires
<1>3. CASE AppStart
  <2>1. "START" \in Event \ {"CONN_ACK", "R_CONN_CER"}
    BY DEF Event
  <2> QED
    BY <1>0, <1>3, <2>1, ReportsKeep, KeepsOwn DEF AppStart
<1>4. ASSUME NEW reboot \in BOOLEAN, AppStop(reboot)
      PROVE  OwnInv'
  BY <1>0, <1>4, ReportsKeep, KeepsOwn DEF AppStop
<1>5. ASSUME NEW c \in Conn, ConnectorSuccess(c)
      PROVE  OwnInv'
  <2> DEFINE p == ConnectionRequestAccepted(peer, c)
             cs == [conn EXCEPT ![c] = Fresh("I")]
  <2>1. conn[c] = Free /\ Becomes(p, cs)
    BY <1>5 DEF ConnectorSuccess
  <2>2. c \notin InUse(conn)
    BY <2>1 DEF InUse, Free, Role
  <2>3. cs \in [Conn -> Link]
    BY <1>0, FreshType, LinkUpdate
  <2>4. InUse(cs) = InUse(conn) \cup {c}
    BY <1>0 DEF InUse, Fresh, Role
  <2>5. p \in Peer /\ Sound(p) /\ Won(p) /\ Owned(p) \cup p.gone = InUse(conn) \cup {c}
    BY <1>0, <2>2, NewConnectionsOwned
  <2> HIDE DEF p, cs
  <2> QED
    BY <2>1, <2>3, <2>4, <2>5, BecomesOwn
<1>6. CASE ConnectorFailed
  BY <1>0, <1>6, ReportsKeep, KeepsOwn DEF ConnectorFailed
<1>7. ASSUME NEW c \in Conn, AcceptorSuccess(c)
      PROVE  OwnInv'
  <2>1. InUse(conn') = InUse(conn)
    BY <1>0, <1>7 DEF AcceptorSuccess, InUse, Fresh, Free, Role
  <2> QED
    BY <1>0, <1>7, <2>1 DEF AcceptorSuccess, OwnInv
<1>8. ASSUME NEW c \in Conn, NEW ok \in BOOLEAN, PendingCER(c, ok)
      PROVE  OwnInv'
  <2>1. PICK id \in 1 .. IdMod :
          Becomes(IncommingConnectionRequest(peer, c,
                    [cmd |-> "CER", id |-> id, ok |-> ok]),
                  [conn EXCEPT ![c].kind = "R"])
    BY <1>8 DEF PendingCER
  <2> DEFINE m == [cmd |-> "CER", id |-> id, ok |-> ok]
             p == IncommingConnectionRequest(peer, c, m)
             cs == [conn EXCEPT ![c].kind = "R"]
  <2>2. m \in Msg
    BY PeerFsmAssumption DEF Msg, Command, Id
  <2>3. conn[c].kind = "P" /\ ~conn[c].gc
    BY <1>8 DEF PendingCER
  <2>4. c \notin InUse(conn)
    BY <2>3 DEF InUse, Role
  <2>5. cs \in [Conn -> Link]
    BY <1>0 DEF Link
  <2>6. InUse(cs) = InUse(conn) \cup {c}
    <3>1. cs[c].kind = "R" /\ ~cs[c].gc /\ \A d \in Conn : d # c => cs[d] = conn[d]
      BY <1>0, <2>3 DEF Link
    <3> HIDE DEF cs
    <3> QED
      BY <3>1 DEF InUse, Role
  <2>7. p \in Peer /\ Sound(p) /\ Won(p) /\ Owned(p) \cup p.gone = InUse(conn) \cup {c}
    <3> HIDE DEF m
    <3> QED
      BY <1>0, <2>2, <2>4, NewConnectionsOwned
  <2> HIDE DEF p, cs
  <2>8. Becomes(p, cs)
    BY <2>1 DEF p, cs
  <2> QED
    BY <2>5, <2>6, <2>7, <2>8, BecomesOwn
<1>9. ASSUME NEW c \in Conn, PendingError(c)
      PROVE  OwnInv'
  <2>1. conn[c].kind = "P" /\ peer' = peer
        /\ conn' = [d \in Conn |-> IF d \in {c} THEN [conn[d] EXCEPT !.gc = TRUE] ELSE conn[d]]
    BY <1>9 DEF PendingError, Discard
  <2>2. conn'[c].kind = "P" /\ \A d \in Conn : d # c => conn'[d] = conn[d]
    BY <1>0, <2>1 DEF Link
  <2>3. InUse(conn') = InUse(conn)
    BY <2>1, <2>2 DEF InUse, Role
  <2> QED
    BY <1>0, <2>1, <2>3 DEF OwnInv
<1>10. ASSUME NEW c \in Conn, NEW m \in RemoteMsg, ReaderMessage(c, m)
       PROVE  OwnInv'
  <2>1. m \in Msg
    BY DEF RemoteMsg
  <2> QED
    BY <1>0, <1>10, <2>1, ReportsKeep, KeepsOwn DEF ReaderMessage
<1>11. ASSUME NEW c \in Conn, ReaderError(c)
       PROVE  OwnInv'
  <2>1. conn[c].kind \in Role /\ peer' = TransportError(peer, conn[c].kind)
        /\ conn' = [conn EXCEPT ![c].reader = FALSE]
    BY <1>11 DEF ReaderError
  <2>2. \A d \in Conn : conn'[d].kind = conn[d].kind /\ conn'[d].gc = conn[d].gc
    BY <1>0, <2>1 DEF Link
  <2>3. InUse(conn') = InUse(conn)
    BY <2>2 DEF InUse
  <2> QED
    BY <1>0, <2>1, <2>3, ReportsKeep, KeepsOwn
<1>12. ASSUME NEW c \in Conn, Collect(c)
       PROVE  OwnInv'
  <2>1. conn[c].gc /\ conn' = [conn EXCEPT ![c] = Free] /\ peer' = peer
    BY <1>12 DEF Collect
  <2>2. InUse(conn') = InUse(conn)
    BY <1>0, <2>1 DEF InUse, Free, Role
  <2> QED
    BY <1>0, <2>1, <2>2 DEF OwnInv
<1>13. ASSUME NEW s \in Sender, SendReadsState(s)
       PROVE  OwnInv'
  BY <1>0, <1>13 DEF SendReadsState, OwnInv
<1>14. ASSUME NEW s \in Sender, SendReadsIO(s)
       PROVE  OwnInv'
  <2>1. PICK io \in Conn \cup {NoConn} :
          io = IF sender[s] = "I_OPEN" THEN peer.ini ELSE peer.res
    BY <1>0 DEF Peer
  <2>2. PICK p : p = Send(peer, io, NoMsg)
    OBVIOUS
  <2>3. Still(peer, p) /\ p.state = peer.state
    BY <1>0, <2>1, <2>2, NoMsgType, StillSend, SendOK
  <2>4. p \in Peer /\ Sound(p) /\ Won(p) /\ Owned(p) = Owned(peer)
    <3>1. Keeps(peer, p)
      BY <2>3, StillKeeps
    <3>2. p.gone = {}
      BY <1>0, <2>3 DEF Still
    <3> QED
      BY <1>0, <3>1, <3>2, KeepsWon DEF Keeps, Conserves
  <2>5. peer' = Settled(p) /\ conn' = conn
    BY <1>14, <2>1, <2>2 DEF SendReadsIO
  <2> QED
    BY <1>0, <2>4, <2>5, SettledConserves DEF OwnInv
<1>15. CASE CloseStops
  BY <1>0, <1>15, ReportsKeep, KeepsOwn DEF CloseStops
<1>16. CASE CloseSeesNoneOpen
  BY <1>0, <1>16 DEF CloseSeesNoneOpen, OwnInv
<1>17. CASE CloseDeletes
  BY <1>0, <1>17, HaltConserves DEF CloseDeletes, OwnInv
<1>18. CASE UNCHANGED vars
  BY <1>0, <1>18 DEF vars, OwnInv
<1> QED
  BY <1>1, <1>2, <1>3, <1>4, <1>5, <1>6, <1>7, <1>8, <1>9, <1>10, <1>11,
     <1>12, <1>13, <1>14, <1>15, <1>16, <1>17, <1>18 DEF Next

\* It holds in every behaviour.
LEMMA SpecOwn == Spec => []OwnInv
  BY SpecInv, InitOwn, NextOwn, PTL DEF Spec

\* No connection handed to the entry is lost, deleted while the machine can
\* still use it, or deleted twice, whatever the order of acknowledgements,
\* CERs, errors and stops in the queue.
THEOREM AlwaysOwnedOnce == Spec => []OwnedOnce
<1>1. Inv /\ OwnInv => OwnedOnce
  <2> SUFFICES ASSUME Inv, OwnInv PROVE OwnedOnce
    OBVIOUS
  <2>1. peer \in Peer /\ peer.cio = NoConn /\ Sound(peer) /\ Owned(peer) = InUse(conn)
    BY DEF Inv, Calm, Good, Quiet, OwnInv
  <2>2. ASSUME NEW c \in Conn
        PROVE  Held(c) <=> c \in Owned(peer)
    <3>1. c # NoConn
      BY PeerFsmAssumption
    <3> QED
      BY <2>1, <3>1 DEF Held, Queued, Owned, Carried
  <2>3. ASSUME NEW i \in 1 .. Len(peer.queue), Queued(i) # NoConn
        PROVE  /\ Queued(i) \notin {peer.ini, peer.res}
               /\ \A j \in 1 .. Len(peer.queue) : i # j => Queued(i) # Queued(j)
    <3>1. Queued(i) \in Carried(peer)
      BY <2>3 DEF Queued, Carried
    <3> QED
      BY <2>1, <2>3, <3>1 DEF Sound, Apart, Queued
  <2>4. peer.ini # NoConn => peer.ini # peer.res
    BY <2>1 DEF Sound
  <2> QED
    BY <2>1, <2>2, <2>3, <2>4 DEF OwnedOnce, InUse
<1> QED
  BY <1>1, SpecInv, SpecOwn, PTL

\* Whenever a running machine waits in an election that it has won, the event
\* that ends the election is in its queue: no handler, no stop and no
\* notification drops it.
THEOREM WinAlwaysPending == Spec => []WinIsPending
<1>1. OwnInv => WinIsPending
  BY DEF OwnInv, Won, Decided, Pending, WinIsPending
<1> QED
  BY <1>1, SpecOwn, PTL
============================================================================
