-------------------------------- MODULE Pana --------------------------------
(***************************************************************************)
(* A PANA client, the agent with its session factory, and the EAP methods  *)
(* of both, over UDP.                                                      *)
(*                                                                         *)
(* A step of a session is one Serve(): a message that has arrived and one  *)
(* event, under one lock.  UDP may lose, repeat and reorder; the EAP       *)
(* methods run in threads of their own and answer with events.             *)
(***************************************************************************)
EXTENDS PanaFsm, FiniteSets

CONSTANTS
  Rounds,     \* EAP requests before a verdict
  MaxConv,    \* EAP conversations of a session
  MaxFaults,  \* losses, repetitions, reorderings, expiries of the retry timer
  MaxCalls    \* calls of the applications and expiries of the session timers

ASSUME PanaAssumption == /\ Rounds \in Nat \ {0} /\ MaxConv \in Nat \ {0}
                         /\ MaxFaults \in Nat /\ MaxCalls \in Nat

Sids == {1, 2}

VARIABLES
  pac, paa,       \* the client's session; the agent's, None where there is none
  pig, opt,       \* EAP piggybacking of the client, optimized handshake of the agent
  method,         \* the agent's EAP method of each session
  granted,        \* conversations that ended with an authorized success
  toPac, toPaa,   \* datagrams under way
  faults, calls
vars == <<pac, paa, pig, opt, method, granted, toPac, toPaa, faults, calls>>

Init ==
  /\ pac = [Session(0, 100) EXCEPT !.q = <<"AuthUser">>]
  /\ paa = [s \in Sids |-> None]
  /\ pig \in BOOLEAN /\ opt \in BOOLEAN
  /\ method = [s \in Sids |-> [conv |-> 0, id |-> 0, on |-> FALSE]]
  /\ granted = {} /\ toPac = <<>> /\ toPaa = <<>> /\ faults = 0 /\ calls = 0

Live(s) == paa[s] # None
Delivered(x) == [x EXCEPT !.out = <<>>]
\* The numbers a factory derives from the address of a client.
FirstSeq(s) == 10 * s
PARStart    == Msg("PA", TRUE, "S", FirstSeq(1), 1, None, None)
----------------------------------------------------------------------------
(* The sessions.                                                           *)

PacTakes(m) ==
  LET x == IF m = None THEN pac ELSE PacRx(pac, m)
      y == IF x.q = <<>> THEN x ELSE PacEvent([x EXCEPT !.q = Tail(@)], Head(x.q), pig)
  IN pac' = Delivered(y) /\ toPaa' = toPaa \o y.out

PacServe ==
  /\ pac.run /\ pac.q # <<>>
  /\ PacTakes(None)
  /\ UNCHANGED <<paa, pig, opt, method, granted, toPac, faults, calls>>

PacReceives ==
  /\ pac.run /\ toPac # <<>>
  /\ PacTakes(Head(toPac)) /\ toPac' = Tail(toPac)
  /\ UNCHANGED <<paa, pig, opt, method, granted, faults, calls>>

PaaTakes(s, x0, m) ==
  LET x == IF m = None THEN x0 ELSE PaaRx(x0, m, opt)
      y == IF x.q = <<>> THEN x ELSE PaaStep([x EXCEPT !.q = Tail(@)], Head(x.q), opt)
  IN paa' = [paa EXCEPT ![s] = Delivered(y)] /\ toPac' = toPac \o y.out

PaaServe(s) ==
  /\ Live(s) /\ paa[s].run /\ paa[s].q # <<>>
  /\ PaaTakes(s, paa[s], None)
  /\ UNCHANGED <<pac, pig, opt, method, granted, toPaa, faults, calls>>

PaaReceives(s) ==
  /\ toPaa # <<>> /\ Head(toPaa).t # "PCI" /\ Head(toPaa).s = s
  /\ Live(s) /\ paa[s].run
  /\ PaaTakes(s, paa[s], Head(toPaa)) /\ toPaa' = Tail(toPaa)
  /\ UNCHANGED <<pac, pig, opt, method, granted, faults, calls>>

\* PacFound: a session at once, or a request that any session may answer.
FactoryRxPCI ==
  /\ toPaa # <<>> /\ Head(toPaa).t = "PCI" /\ toPaa' = Tail(toPaa)
  /\ IF opt
     THEN /\ paa' = IF \E s \in Sids : paa[s] = None
                    THEN LET s == CHOOSE s \in Sids : paa[s] = None /\ \A u \in 1..s - 1 : paa[u] # None
                         IN [paa EXCEPT ![s] = [Session(s, FirstSeq(s) - 1) EXCEPT !.q = <<"PacFound">>]]
                    ELSE paa
          /\ UNCHANGED toPac
     ELSE toPac' = Append(toPac, PARStart) /\ UNCHANGED paa
  /\ UNCHANGED <<pac, pig, opt, method, granted, faults, calls>>

\* A start answer that fits the numbers makes the session, which then receives it.
FactoryRxPAN ==
  /\ toPaa # <<>> /\ Head(toPaa).t = "PA" /\ ~Head(toPaa).r /\ Head(toPaa).f = "S"
  /\ paa[Head(toPaa).s] = None
  /\ Head(toPaa).s = 1 /\ Head(toPaa).n = FirstSeq(1)
  /\ PaaTakes(1, Session(1, FirstSeq(1)), Head(toPaa)) /\ toPaa' = Tail(toPaa)
  /\ UNCHANGED <<pac, pig, opt, method, granted, faults, calls>>

\* Nobody takes a message for a session that is not there or was stopped.
Dropped ==
  \/ /\ toPac # <<>> /\ ~pac.run /\ toPac' = Tail(toPac)
     /\ UNCHANGED <<pac, paa, pig, opt, method, granted, toPaa, faults, calls>>
  \/ /\ toPaa # <<>> /\ Head(toPaa).t # "PCI"
     /\ \/ Head(toPaa).s = 0
        \/ paa[Head(toPaa).s] # None /\ ~paa[Head(toPaa).s].run
     /\ toPaa' = Tail(toPaa)
     /\ UNCHANGED <<pac, paa, pig, opt, method, granted, toPac, faults, calls>>
----------------------------------------------------------------------------
(* The EAP methods.                                                        *)

EapSend(x, eap, e) == Notify([x EXCEPT !.eap = Append(@, eap)], e)

PeerAnswers ==
  /\ pac.run /\ pac.ask # None
  /\ LET x == [pac EXCEPT !.ask = None]
     IN CASE pac.ask[1] = "req"     -> pac' \in {EapSend(x, <<"resp", pac.ask[2]>>, "Response"),
                                                 Notify(x, "EapInvalid")}
          [] pac.ask[1] = "success" -> pac' \in {Notify(x, "EapSuccess"), Notify(x, "EapFailure")}
          [] pac.ask[1] = "failure" -> pac' = Notify(x, "EapFailure")
  /\ UNCHANGED <<paa, pig, opt, method, granted, toPac, toPaa, faults, calls>>

\* A request of the method; ids go on through the conversations.
Asks(s) ==
  /\ method' = [method EXCEPT ![s].id = @ + 1]
  /\ paa' = [paa EXCEPT ![s] = EapSend([@ EXCEPT !.ask = None], <<"req", method[s].id + 1>>, "EapRequest")]
  /\ UNCHANGED granted

\* EapSuccess() asks the application whether the user is authorized.
Judges(s) ==
  LET c == method[s].conv
      x == [paa[s] EXCEPT !.ask = None]
  IN /\ method' = [method EXCEPT ![s].on = FALSE]
     /\ \/ /\ paa' = [paa EXCEPT ![s] = EapSend([x EXCEPT !.seen = c], <<"success", c>>, "EapSuccess")]
           /\ granted' = granted \cup {<<s, c>>}
        \/ /\ paa' = [paa EXCEPT ![s] = EapSend(x, <<"success", c>>, "EapUnauth")]
           /\ UNCHANGED granted
        \/ /\ paa' = [paa EXCEPT ![s] = EapSend(x, <<"failure", c>>, "EapFailure")]
           /\ UNCHANGED granted

AgentBegins(s) ==
  /\ Live(s) /\ paa[s].run /\ paa[s].ask = <<"start", 0>> /\ method[s].conv < MaxConv
  /\ method' = [method EXCEPT ![s] = [conv |-> @.conv + 1, id |-> Rounds * @.conv + 1, on |-> TRUE]]
  /\ paa' = [paa EXCEPT ![s] = EapSend([@ EXCEPT !.ask = None], <<"req", Rounds * method[s].conv + 1>>, "EapRequest")]
  /\ UNCHANGED <<pac, pig, opt, granted, toPac, toPaa, faults, calls>>

AgentAnswers(s) ==
  /\ Live(s) /\ paa[s].run /\ paa[s].ask \notin {None, <<"start", 0>>}
  /\ IF method[s].on /\ paa[s].ask = <<"resp", method[s].id>>
     THEN IF method[s].id < Rounds * method[s].conv THEN Asks(s) ELSE Judges(s)
     ELSE paa' = [paa EXCEPT ![s].ask = None] /\ UNCHANGED <<method, granted>>
  /\ UNCHANGED <<pac, pig, opt, toPac, toPaa, faults, calls>>

\* The method repeats a request that was not answered, or gives up.
AgentEapTimer(s) ==
  /\ Live(s) /\ paa[s].run /\ method[s].on /\ paa[s].st \in {"WaitEapMsg", "WaitPanOrPar"}
  /\ faults < MaxFaults /\ faults' = faults + 1
  /\ \/ /\ paa' = [paa EXCEPT ![s] = EapSend(@, <<"req", method[s].id>>, "EapRequest")]
        /\ UNCHANGED method
     \/ /\ paa' = [paa EXCEPT ![s] = Notify(@, "EapTimeout")]
        /\ method' = [method EXCEPT ![s].on = FALSE]
  /\ UNCHANGED <<pac, pig, opt, granted, toPac, toPaa, calls>>
----------------------------------------------------------------------------
(* Timers, applications, the network.                                      *)

Due(x, e) == x.run /\ \A i \in 1..Len(x.q) : x.q[i] # e

PacTimer ==
  /\ \/ /\ pac.retry /\ Due(pac, "ReTransmission") /\ faults < MaxFaults
        /\ faults' = faults + 1 /\ pac' = Notify(pac, "ReTransmission") /\ UNCHANGED calls
     \/ /\ pac.sess /\ Due(pac, "SessTimeout") /\ calls < MaxCalls
        /\ calls' = calls + 1 /\ pac' = Notify(pac, "SessTimeout") /\ UNCHANGED faults
     \/ /\ pac.resp /\ Due(pac, "RespTimeout") /\ calls < MaxCalls
        /\ calls' = calls + 1 /\ pac' = Notify(pac, "RespTimeout") /\ UNCHANGED faults
  /\ UNCHANGED <<paa, pig, opt, method, granted, toPac, toPaa>>

PaaTimer(s) ==
  /\ paa[s] # None
  /\ \/ /\ paa[s].retry /\ Due(paa[s], "ReTransmission") /\ faults < MaxFaults
        /\ faults' = faults + 1 /\ UNCHANGED calls
        /\ paa' = [paa EXCEPT ![s] = Notify(@, "ReTransmission")]
     \/ /\ paa[s].sess /\ Due(paa[s], "SessTimeout") /\ calls < MaxCalls
        /\ calls' = calls + 1 /\ UNCHANGED faults
        /\ paa' = [paa EXCEPT ![s] = Notify(@, "SessTimeout")]
  /\ UNCHANGED <<pac, pig, opt, method, granted, toPac, toPaa>>

\* Ping(), ReAuthenticate() and Stop() of the applications.
Calls ==
  /\ calls < MaxCalls /\ calls' = calls + 1
  /\ \E e \in {"Ping", "ReAuth", "Terminate"} :
       \/ pac.run /\ pac.st = "Open" /\ pac' = Notify(pac, e) /\ UNCHANGED paa
       \/ \E s \in Sids : /\ Live(s) /\ paa[s].run /\ paa[s].st = "Open"
                          /\ paa' = [paa EXCEPT ![s] = Notify(@, e)] /\ UNCHANGED pac
  /\ UNCHANGED <<pig, opt, method, granted, toPac, toPaa, faults>>

\* A datagram is lost, comes twice, or is overtaken by the next one.
Disturbed(net) ==
  {Tail(net), <<Head(net)>> \o net}
  \cup (IF Len(net) > 1 THEN {<<net[2], net[1]>> \o SubSeq(net, 3, Len(net))} ELSE {})
Disturb ==
  /\ faults < MaxFaults /\ faults' = faults + 1
  /\ \/ toPac # <<>> /\ toPac' \in Disturbed(toPac) /\ UNCHANGED toPaa
     \/ toPaa # <<>> /\ toPaa' \in Disturbed(toPaa) /\ UNCHANGED toPac
  /\ UNCHANGED <<pac, paa, pig, opt, method, granted, calls>>

Next ==
  \/ PacServe \/ PacReceives \/ PeerAnswers \/ PacTimer
  \/ \E s \in Sids : \/ PaaServe(s) \/ PaaReceives(s) \/ PaaTimer(s)
                     \/ AgentBegins(s) \/ AgentAnswers(s) \/ AgentEapTimer(s)
  \/ FactoryRxPCI \/ FactoryRxPAN \/ Dropped \/ Calls \/ Disturb

Spec == Init /\ [][Next]_vars
----------------------------------------------------------------------------
Sessions == {s \in Sids : Live(s)}
\* The two ends agree on who was let in: a client that counts itself authorized was
\* granted access in the conversation whose result it took, by that session of the
\* agent where no second one could take its place, and the agent opens a session only
\* after the client saw the result it granted (NotifyAuthorization on both sides).
Agreement ==
  /\ pac.st = "Open" => IF opt THEN \E s \in Sids : <<s, pac.auth>> \in granted
                               ELSE <<pac.sid, pac.auth>> \in granted
  /\ \A s \in Sessions : paa[s].st = "Open" => /\ <<s, paa[s].auth>> \in granted
                                               /\ paa[s].auth <= pac.seen

Timers == {<<"retry", "ReTransmission">>, <<"sess", "SessTimeout">>, <<"resp", "RespTimeout">>}
\* Something of the session itself will go on: a queued event, an EAP method at work, or
\* an armed timer whose event the state does not drop.
GoesOn(x, table) ==
  \/ x.q # <<>> \/ x.ask # None
  \/ \E k \in Timers : x[k[1]] /\ <<x.st, k[2]>> \in DOMAIN table

\* No session is left in a state that only a message of the other end could leave,
\* whatever the network loses or the calls and timers do (ScheduleTxRetry,
\* NotifyScheduleLifetime and the cancellations of the actions).  Not so: a client
\* that asked for a new authentication has no timer until the agent asks for one,
\* and an agent in WAIT_PAN_OR_PAR drops a verdict, after which it stays where it is
\* or, if a repeated message leads it there, in WAIT_EAP_MSG.
NeverForgotten ==
  /\ pac.run /\ pac.st \notin {"Initial", "Closed"} /\ pac.auth = 0 => GoesOn(pac, PacTable[pig])
  /\ \A s \in Sessions : paa[s].run /\ paa[s].st \notin {"Initial", "Closed", "WaitEapMsg", "WaitPanOrPar"} =>
        GoesOn(paa[s], PaaTable)

AtRest == /\ pac.q = <<>> /\ pac.ask = None /\ toPac = <<>> /\ toPaa = <<>>
          /\ \A s \in Sessions : /\ paa[s].q = <<>>
                                 /\ paa[s].ask = None \/ (paa[s].ask[1] = "start" /\ method[s].conv = MaxConv)

\* Where nothing is lost or late, the exchange ends at both ends: open at both, or
\* closed, and the agent waits only for a client whose EAP method gave up.
Concludes ==
  AtRest /\ faults = 0 /\ calls = 0 =>
     /\ pac.st \in {"Open", "Closed"} \/ (pac.st = "Initial" /\ pac.resp)
     /\ \A s \in Sessions : \/ paa[s].st \in {"Open", "Closed"}
                            \/ pac.st # "Open" /\ method[s].on
=============================================================================
