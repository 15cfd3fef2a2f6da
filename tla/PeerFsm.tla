------------------------------ MODULE PeerFsm ------------------------------
(***************************************************************************)
(* The peer state machine of libdiameter (aaa_peer_fsm.h, .cxx): one       *)
(* DiameterPeerStateMachine as a record, and every handler of its state    *)
(* table as a function from the record and the event being served to the   *)
(* record the handler leaves.  Handlers compose exactly as the C++ calls   *)
(* do (Goto is the `state = NextState' that Event() performs BEFORE the    *)
(* action runs).                                                           *)
(*                                                                         *)
(* Abstractions.  The hop-by-hop and end-to-end ids advance in lock step   *)
(* and are one number.  A CER carries in ok whether ValidatePeer will      *)
(* accept its capabilities, an answer whether its Result-Code is success.  *)
(* The outcome of comparing the host names in Elect is a field (see        *)
(* module Election for the comparison itself).                             *)
(*                                                                         *)
(* An operator named after another with a suffix (DoReConnectOnceTooOften, *)
(* TakeInitiatorLeak, ...) is a mutation: a mistake that could have been   *)
(* made in that handler.  No specification uses them; PROJECT.json pairs   *)
(* each with the property that catches it.                                 *)
(***************************************************************************)
EXTENDS Integers, Sequences

CONSTANTS
  Conn,          \* transport connections (Diameter_IO objects)
  NoConn,        \* the NULL auto_ptr
  IdMod,         \* number of message ids before the generator wraps (2^32)
  ReconnectMax,  \* reconnect_max of the transport configuration
  ReconnectOn    \* reconnect_interval > 0

ASSUME PeerFsmAssumption ==
  /\ NoConn \notin Conn
  /\ IdMod \in Nat \ {0}
  /\ ReconnectMax \in Nat
  /\ ReconnectOn \in BOOLEAN

Handshaking == {"WAIT_CONN_ACK", "WAIT_I_CEA", "WAIT_CONN_ACK_ELECT",
                "WAIT_RETURNS"}
Waiting == Handshaking \cup {"CLOSING"}
Open    == {"I_OPEN", "R_OPEN"}
State   == {"CLOSED"} \cup Waiting \cup Open

TimerEvent == {"TIMEOUT", "WATCHDOG", "CONN_RETRY"}
Role       == {"I", "R"}
Command    == {"CER", "CEA", "DWR", "DWA", "DPR", "DPA", "APP"}
Request    == {"CER", "DWR", "DPR"}
Answer     == {"CEA", "DWA", "DPA"}

\* Events: those named in the table, and RCV events which carry the role
\* (I_RCV_x, R_RCV_x) apart from the command x.
Event ==
  {"START", "STOP", "R_CONN_CER", "CONN_ACK", "CONN_NACK", "PEER_DISC",
   "NON_CEA", "WIN_ELECTION", "RCV"} \cup TimerEvent

Id  == 0 .. IdMod
Msg == [cmd : Command, id : Id, ok : BOOLEAN]
NoMsg == [cmd |-> "APP", id |-> 0, ok |-> FALSE]

\* The events of a new connection hand over its IO object, no other does.
Param ==
  {e \in [ev : Event, role : Role, msg : Msg, io : Conn \cup {NoConn}] :
     e.io # NoConn <=> e.ev \in {"CONN_ACK", "R_CONN_CER"}}

Simple(ev)        == [ev |-> ev, role |-> "I", msg |-> NoMsg, io |-> NoConn]
Disc(role)        == [Simple("PEER_DISC") EXCEPT !.role = role]
Received(role, m) == [Simple("RCV") EXCEPT !.role = role, !.msg = m]

Peer ==
  [state   : State,
   ini     : Conn \cup {NoConn},    \* m_IOInitiator
   res     : Conn \cup {NoConn},    \* m_IOResponder
   timers  : SUBSET TimerEvent,     \* armed timers
   attempt : Nat,                   \* m_ReconnectAttempt
   reboot  : BOOLEAN,               \* m_DisconnectCause = REBOOTING
   elect   : {"win", "lose", "same"},
   running : BOOLEAN,               \* AAA_StateMachine::Running()
   queue   : Seq(Param),            \* m_EventQueue
   cio     : Conn \cup {NoConn},    \* m_CurrentPeerEventParam->m_IO
   next    : Id,                    \* DIAMETER_HOPBYHOP_GEN
   tx      : SUBSET Id,             \* m_LastTxHopId / m_LastTxEndId
   rx      : Seq(Id),               \* m_LastRxHopId / m_LastRxEndId
   up      : BOOLEAN,               \* Connected() not followed by Disconnected()
   retx    : BOOLEAN,               \* the last step called ReTransmitEvent
   start   : BOOLEAN,               \* the last step called connector.Connect
   sent    : Seq([io : Conn, msg : Msg]),  \* messages sent by the last step
   gone    : SUBSET Conn,           \* IO objects deleted by the last step
   fault   : BOOLEAN]               \* a NULL IO has been dereferenced

NewPeer(elect) ==
  [state |-> "CLOSED", ini |-> NoConn, res |-> NoConn, timers |-> {},
   attempt |-> 0, reboot |-> FALSE, elect |-> elect, running |-> TRUE,
   queue |-> <<>>, cio |-> NoConn, next |-> 0, tx |-> {}, rx |-> <<>>,
   up |-> FALSE, retx |-> FALSE, start |-> FALSE, sent |-> <<>>,
   gone |-> {}, fault |-> FALSE]

\* Which timers run in which state: whatever the machine waits for, TIMEOUT
\* ends the wait; an open peer is supervised by the watchdog, and no TIMEOUT
\* can close it; a closed one runs nothing but the retry.
TimersMatch(p) ==
  /\ p.state \in Waiting => "TIMEOUT" \in p.timers /\ "WATCHDOG" \notin p.timers
  /\ p.state \in Open    => "WATCHDOG" \in p.timers /\ "TIMEOUT" \notin p.timers
  /\ p.state = "CLOSED"  => p.timers \subseteq {"CONN_RETRY"}

\* Which connections a state needs, and which it must not have.  R_OPEN lacks
\* its responder only where that has just been dereferenced.
ConnsMatch(p) ==
  /\ p.state \in {"I_OPEN", "WAIT_I_CEA", "WAIT_RETURNS"} => p.ini # NoConn
  /\ p.state \in {"WAIT_CONN_ACK_ELECT", "WAIT_RETURNS"}  => p.res # NoConn
  /\ p.state \in {"CLOSED", "WAIT_CONN_ACK", "WAIT_I_CEA", "I_OPEN"} =>
       p.res = NoConn
  /\ p.state = "R_OPEN" /\ ~p.fault => p.res # NoConn
----------------------------------------------------------------------------
(* Event queue, timers, ownership of IO objects.                           *)

\* The record after the environment has taken what the step put out, and
\* what it is between two steps.
Settled(p) == [p EXCEPT !.sent = <<>>, !.gone = {}, !.retx = FALSE,
                        !.start = FALSE]
Quiet(p) == /\ p.sent = <<>> /\ p.gone = {} /\ ~p.retx /\ ~p.start
            /\ p.cio = NoConn

\* Notify(): queued only while the machine runs.  The auto_ptr of a refused
\* event deletes its IO.
Notify(p, e) ==
  IF p.running THEN [p EXCEPT !.queue = Append(@, e)]
               ELSE [p EXCEPT !.gone = @ \cup ({e.io} \ {NoConn})]

Goto(p, s)    == [p EXCEPT !.state = s]
Arm(p, t)     == [p EXCEPT !.timers = @ \cup {t}]
Cancel(p, t)  == [p EXCEPT !.timers = @ \ {t}]
StopReConnect(p) == Cancel(p, "CONN_RETRY")

\* Assigning an auto_ptr deletes the object it owned; the event gives up
\* its own.
TakeResponder(p) == [p EXCEPT !.res = p.cio, !.cio = NoConn,
                              !.gone = @ \cup ({p.res} \ {NoConn})]
TakeInitiatorLeak(p) == [p EXCEPT !.ini = p.cio, !.cio = NoConn]
TakeInitiator(p) == [p EXCEPT !.ini = p.cio, !.cio = NoConn,
                              !.gone = @ \cup ({p.ini} \ {NoConn})]
DropResponder(p) == [p EXCEPT !.res = NoConn,
                              !.gone = @ \cup ({p.res} \ {NoConn})]
DropInitiator(p) == [p EXCEPT !.ini = NoConn,
                              !.gone = @ \cup ({p.ini} \ {NoConn})]
DropCurrent(p)   == [p EXCEPT !.cio = NoConn,
                              !.gone = @ \cup ({p.cio} \ {NoConn})]

\* Cleanup(CLEANUP_ALL & ~CLEANUP_IO_I) and Cleanup(CLEANUP_ALL).  The
\* restart of the machine puts it in CLOSED; queued events stay queued, and
\* so do the message ids.
CleanupKeepI(p) ==
  [DropCurrent(DropResponder(p)) EXCEPT !.timers = {}, !.state = "CLOSED"]
Cleanup(p) == CleanupKeepI(DropInitiator(p))

Connected(p)    == [p EXCEPT !.up = TRUE]
Disconnected(p) == [p EXCEPT !.up = FALSE, !.retx = TRUE]

DoReConnectOnceTooOften(p) ==
  IF p.attempt > ReconnectMax THEN [p EXCEPT !.attempt = 0]
  ELSE IF ReconnectOn
       THEN Arm([p EXCEPT !.attempt = @ + 1], "CONN_RETRY")
       ELSE p
DoReConnect(p) ==
  IF p.attempt >= ReconnectMax THEN [p EXCEPT !.attempt = 0]
  ELSE IF ReconnectOn
       THEN Arm([p EXCEPT !.attempt = @ + 1], "CONN_RETRY")
       ELSE p
----------------------------------------------------------------------------
(* Message ids and transmission.                                           *)

\* MsgIdRxMessage: a request queues its id, an answer must match one of ours.
MsgIdRx(p, m) ==
  CASE m.cmd \in Request -> [p EXCEPT !.rx = Append(@, m.id)]
    [] m.cmd \in Answer  -> [p EXCEPT !.tx = @ \ {m.id}]
    [] OTHER             -> p
IdRefused(p, m) == m.cmd \in Answer /\ m.id \notin p.tx

\* m_TxMsgCollector.Send: the transmitter thread calls io->Send, and
\* AssembleCE calls TransportProtocolInUse on the same pointers.
Send(p, io, m) ==
  IF io = NoConn THEN [p EXCEPT !.fault = TRUE]
                 ELSE [p EXCEPT !.sent = Append(@, [io |-> io, msg |-> m])]

SendRequest(p, io, cmd) ==
  LET id == (p.next % IdMod) + 1
  IN Send([p EXCEPT !.next = id, !.tx = @ \cup {id}], io,
          [cmd |-> cmd, id |-> id, ok |-> TRUE])

\* The answer takes the oldest queued request id, and 0 when there is none.
SendAnswer(p, io, cmd, ok) ==
  IF p.rx = <<>>
  THEN Send(p, io, [cmd |-> cmd, id |-> 0, ok |-> ok])
  ELSE Send([p EXCEPT !.rx = Tail(@)], io,
            [cmd |-> cmd, id |-> Head(p.rx), ok |-> ok])

OpenIO(p) == IF p.state = "I_OPEN" THEN p.ini ELSE p.res
SendCER(p)     == SendRequest(p, p.ini, "CER")
SendCEA(p, ok) == SendAnswer(p, OpenIO(p), "CEA", ok)
SendDWR(p)     == SendRequest(p, OpenIO(p), "DWR")
SendDWA(p)     == SendAnswer(p, OpenIO(p), "DWA", TRUE)
----------------------------------------------------------------------------
(* The actions of the state table.                                         *)

ISendConnReq(p) == Arm(p, "TIMEOUT")

StartWatchdog(p) == Arm(Cancel(p, "TIMEOUT"), "WATCHDOG")

RAcceptSendCEA(p, m) ==
  LET q == SendCEA(TakeResponder(p), m.ok)
  IN IF m.ok THEN Connected(StopReConnect(StartWatchdog(q)))
             ELSE Cleanup(q)

ISendCER(p) == SendCER(TakeInitiator(p))
ConnNack(p) == DoReConnect(Cleanup(p))

\* StopReConnect(); then DiameterPeerEntry::Start(): START is queued and the
\* connector asked to connect.
Start(p)     == [Notify(p, Simple("START")) EXCEPT !.start = TRUE]
ReConnect(p) == Start(StopReConnect(p))

RAccept(p, m) ==
  IF m.ok THEN TakeResponder(p) ELSE Cleanup(TakeResponder(p))

Error(p) == Cleanup(p)

ProcessCEAUntold(p, m) ==
  IF m.ok THEN StartWatchdog(StopReConnect(p)) ELSE Cleanup(p)
ProcessCEA(p, m) ==
  IF m.ok THEN Connected(StartWatchdog(StopReConnect(p))) ELSE Cleanup(p)

\* Losing leaves the machine waiting for the peer's CEA.
Elect(p) ==
  CASE p.elect = "same" -> Cleanup(p)
    [] p.elect = "win"  -> Notify(p, Simple("WIN_ELECTION"))
    [] p.elect = "lose" -> p

RAcceptElect(p, m) ==
  IF m.ok THEN Elect(TakeResponder(p)) ELSE CleanupKeepI(TakeResponder(p))

ISendCERNoElect(p) == SendCER(TakeInitiator(p))
ISendCERElect(p) == Elect(SendCER(TakeInitiator(p)))

\* m_IOResponder is assigned the IO of the event, which for a NACK is NULL.
RSendCEA(p) == Connected(StartWatchdog(SendCEA(TakeResponder(p), TRUE)))

RDisconnectRespNoTimer(p) == Cancel(DropResponder(p), "TIMEOUT")
RDisconnectResp(p) == DropResponder(p)

RDisconnectIOpenKeepR(p, m) ==
  IF m.ok THEN Connected(StartWatchdog(p)) ELSE Cleanup(p)
RDisconnectIOpen(p, m) ==
  IF m.ok THEN Connected(DropResponder(StartWatchdog(p))) ELSE Cleanup(p)

RReject(p) == DropCurrent(p)

IDisconnectSendCEA(p) ==
  Connected(StartWatchdog(SendCEA(DropInitiator(p), TRUE)))

ProcessDWA(p, m) == IF m.ok THEN p ELSE Cleanup(p)

SendDPRWatched(p, io) == SendRequest(Arm(p, "TIMEOUT"), io, "DPR")
SendDPR(p, io) ==
  SendRequest(Arm(Cancel(p, "WATCHDOG"), "TIMEOUT"), io, "DPR")

SendDPADisconnect(p, io) ==
  Disconnected(Cleanup(SendAnswer(p, io, "DPA", TRUE)))

Disconnect(p) == Disconnected(DoReConnect(Cleanup(p)))

DisconnectDPA(p) ==
  LET q == Cleanup(Disconnected(p))
  IN IF q.reboot THEN DoReConnect(q) ELSE q
----------------------------------------------------------------------------
(* The state table: one operator per state, one line per entry.  OTHER is  *)
(* the wildcard entry of CLOSED and CLOSING, and for the other states      *)
(* "no entry": the event is logged and dropped.                            *)

Rcv(e, role, cmd) == e.ev = "RCV" /\ e.role = role /\ e.msg.cmd = cmd

InClosed(p, e) ==
  CASE e.ev = "START"      -> ISendConnReq(Goto(p, "WAIT_CONN_ACK"))
    [] e.ev = "R_CONN_CER" -> RAcceptSendCEA(Goto(p, "R_OPEN"), e.msg)
    [] e.ev = "CONN_RETRY" -> ReConnect(Goto(p, "CLOSED"))
    [] OTHER               -> Cleanup(Goto(p, "CLOSED"))

InWaitConnAck(p, e) ==
  CASE e.ev = "CONN_ACK"   -> ISendCER(Goto(p, "WAIT_I_CEA"))
    [] e.ev = "CONN_NACK"  -> ConnNack(Goto(p, "CLOSED"))
    [] e.ev = "R_CONN_CER" -> RAccept(Goto(p, "WAIT_CONN_ACK_ELECT"), e.msg)
    [] e.ev \in {"TIMEOUT", "STOP"} -> Error(Goto(p, "CLOSED"))
    [] OTHER -> p

InWaitICEA(p, e) ==
  CASE Rcv(e, "I", "CEA")  -> ProcessCEA(Goto(p, "I_OPEN"), e.msg)
    [] e.ev = "R_CONN_CER" -> RAcceptElect(Goto(p, "WAIT_RETURNS"), e.msg)
    [] e.ev = "PEER_DISC" /\ e.role = "I" -> Disconnect(Goto(p, "CLOSED"))
    [] e.ev \in {"NON_CEA", "TIMEOUT", "STOP"} -> Error(Goto(p, "CLOSED"))
    [] OTHER -> p

InWaitConnAckElect(p, e) ==
  CASE e.ev = "CONN_ACK"   -> ISendCERElect(Goto(p, "WAIT_RETURNS"))
    [] e.ev = "CONN_NACK"  -> RSendCEA(Goto(p, "R_OPEN"))
    [] e.ev = "PEER_DISC" /\ e.role = "R" ->
                              RDisconnectResp(Goto(p, "WAIT_CONN_ACK"))
    [] e.ev = "R_CONN_CER" -> RReject(p)
    [] e.ev = "TIMEOUT"    -> Error(Goto(p, "CLOSED"))
    [] OTHER -> p

InWaitReturns(p, e) ==
  CASE e.ev = "WIN_ELECTION" -> IDisconnectSendCEA(Goto(p, "R_OPEN"))
    [] e.ev = "PEER_DISC" /\ e.role = "I" ->
                                IDisconnectSendCEA(Goto(p, "R_OPEN"))
    [] Rcv(e, "I", "CEA")    -> RDisconnectIOpen(Goto(p, "I_OPEN"), e.msg)
    [] e.ev = "PEER_DISC" /\ e.role = "R" ->
                                RDisconnectResp(Goto(p, "WAIT_I_CEA"))
    [] e.ev = "R_CONN_CER"   -> RReject(p)
    [] e.ev = "TIMEOUT"      -> Error(Goto(p, "CLOSED"))
    [] OTHER -> p

\* R_OPEN and I_OPEN have the same entries, each for the events and the IO
\* of its own role.  An application message goes to the router.
InOpen(p, e, role, io) ==
  CASE Rcv(e, role, "CER") -> SendCEA(p, e.msg.ok)
    [] Rcv(e, role, "CEA") -> ProcessCEA(p, e.msg)
    [] Rcv(e, role, "DWR") -> SendDWA(p)
    [] Rcv(e, role, "DWA") -> ProcessDWA(p, e.msg)
    [] Rcv(e, role, "DPR") -> SendDPADisconnect(Goto(p, "CLOSED"), io)
    [] e.ev = "WATCHDOG"   -> SendDWR(p)
    [] e.ev = "STOP"       -> SendDPR(Goto(p, "CLOSING"), io)
    [] e.ev = "PEER_DISC" /\ e.role = role -> Disconnect(Goto(p, "CLOSED"))
    [] e.ev = "R_CONN_CER" -> RReject(p)
    [] OTHER -> p

InClosing(p, e) ==
  CASE e.ev = "RCV" /\ e.msg.cmd = "DPA" -> DisconnectDPA(Goto(p, "CLOSED"))
    [] e.ev = "TIMEOUT"    -> Error(Goto(p, "CLOSED"))
    [] e.ev = "PEER_DISC"  -> Disconnect(Goto(p, "CLOSED"))
    [] OTHER -> p

\* Serve(): the head of the queue is the current event, and what is left of
\* it afterwards is deleted.
Begin(p) == [p EXCEPT !.queue = Tail(@), !.cio = Head(p.queue).io]
Handle(p, e) ==
  CASE p.state = "CLOSED"              -> InClosed(p, e)
    [] p.state = "WAIT_CONN_ACK"       -> InWaitConnAck(p, e)
    [] p.state = "WAIT_I_CEA"          -> InWaitICEA(p, e)
    [] p.state = "WAIT_CONN_ACK_ELECT" -> InWaitConnAckElect(p, e)
    [] p.state = "WAIT_RETURNS"        -> InWaitReturns(p, e)
    [] p.state = "R_OPEN"              -> InOpen(p, e, "R", p.res)
    [] p.state = "I_OPEN"              -> InOpen(p, e, "I", p.ini)
    [] p.state = "CLOSING"             -> InClosing(p, e)
Serve(p) ==
  IF p.running THEN DropCurrent(Handle(Begin(p), Head(p.queue)))
               ELSE DropCurrent(Begin(p))
----------------------------------------------------------------------------
(* DiameterPeerEntry (aaa_peer_table.cxx): what the other threads do.      *)

\* Stop(cause) by the application.
Stop(p, reboot) == Notify([p EXCEPT !.reboot = reboot], Simple("STOP"))

\* A CER that reached the acceptor, on a connection of its own.
IncommingConnectionRequest(p, io, m) ==
  Notify(MsgIdRx(p, m),
         [ev |-> "R_CONN_CER", role |-> "R", msg |-> m, io |-> io])

\* The connector's thread.
ConnectionRequestAccepted(p, io) ==
  Notify(p, [Simple("CONN_ACK") EXCEPT !.io = io])
ConnectionRequestFailed(p) == Notify(p, Simple("CONN_NACK"))

\* Message(): the reader thread chooses the event from the state it sees
\* now; the event is served later.
Message(p, m) ==
  LET q == MsgIdRx(p, m)
  IN CASE p.state = "WAIT_I_CEA" /\ m.cmd # "CEA" ->
            Notify(p, Simple("NON_CEA"))
       [] IdRefused(p, m) -> p
       [] p.state = "I_OPEN" -> Notify(q, Received("I", m))
       [] p.state = "R_OPEN" -> Notify(q, Received("R", m))
       [] p.state = "CLOSING" /\ m.cmd # "APP" ->
            Notify(q, Received(IF p.ini # NoConn THEN "I" ELSE "R", m))
       [] p.state \in {"WAIT_RETURNS", "WAIT_I_CEA"} /\ m.cmd = "CEA" ->
            Notify(q, Received("I", m))
       [] OTHER -> q

\* Error(): the reader thread of an acceptor's or a connector's connection
\* reports a transport error.
TransportError(p, role) == Notify(p, Disc(role))
============================================================================
