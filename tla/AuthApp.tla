------------------------------ MODULE AuthApp -------------------------------
(***************************************************************************)
(* An authorization application end to end: the user behind the access     *)
(* server, the client's machine, the sessions below it, the network, the   *)
(* server's machine and its authenticator.                                 *)
(*                                                                         *)
(* Events wait in the queue of a machine for job threads: one takes the    *)
(* event in one step and fires it in another, so that two may overtake     *)
(* each other; an event raised by an action is fired by the same thread.   *)
(* The session below knows the machine's verdict by m_LastEvent only.      *)
(***************************************************************************)
EXTENDS AuthAppFsm

CONSTANTS
  Threads,    \* job threads of a node that serve one machine at a time
  Rounds,     \* EAP requests before a verdict
  MaxFaults,  \* messages lost or repeated
  MaxCalls    \* expiries of the timers below

ASSUME AuthAppAssumption == /\ Threads \in Nat \ {0} /\ Rounds \in Nat \ {0}
                            /\ MaxFaults \in Nat /\ MaxCalls \in Nat

VARIABLES
  f,             \* the configuration
  c, s,          \* the machines
  user,          \* st: what the user is in; conv: conversations begun
  access,        \* the application was told to let the user in
  backend,       \* the EAP authenticator
  verdict,       \* what it judged, or None
  toS, toC,      \* messages under way
  faults, calls,
  unheard        \* history: the client's machine had no row for a "Disconnect"
vars == <<f, c, s, user, access, backend, verdict, toS, toC, faults, calls, unheard>>

Init ==
  /\ f \in Config /\ c = Machine /\ s = Machine
  /\ user = [st |-> "asked", n |-> 0, conv |-> 1] /\ access = FALSE
  /\ backend = [fresh |-> TRUE, on |-> FALSE, n |-> 0, ask |-> None] /\ verdict = None
  /\ toS = <<>> /\ toC = <<>> /\ faults = 0 /\ calls = 0 /\ unheard = FALSE

Settled(x) == [x EXCEPT !.out = <<>>, !.told = None]
----------------------------------------------------------------------------
(* The user and the access server.                                         *)

UserAnswers ==
  /\ user.st = "asked"
  /\ user' = [user EXCEPT !.st = "waits"]
  /\ c' = Notify([c EXCEPT !.pay = user.n], "RxUser")
  /\ UNCHANGED <<f, s, access, backend, verdict, toS, toC, faults, calls, unheard>>

\* nasd hands a verdict on only with a message in it.
Heard(what) == f.kind = "daemon" => what[2] # None

\* What the application does when it is called back.  To authenticate again nasd begins
\* another session.
Told(what) ==
  /\ access' = (what[1] = "success" \/ (access /\ what[1] \notin {"failure", "disconnect"}))
  /\ user' =
       CASE what[1] = "continue" -> [user EXCEPT !.st = "asked", !.n = what[2]]
         [] what[1] = "success"  -> IF Heard(what) THEN [user EXCEPT !.st = "in"] ELSE user
         [] what[1] = "failure"  -> IF Heard(what) THEN [user EXCEPT !.st = "out"] ELSE user
         [] what[1] = "disconnect"     -> [user EXCEPT !.st = "out"]
         [] what[1] = "reauthenticate" ->
              IF f.kind = "daemon" THEN [user EXCEPT !.st = "elsewhere", !.conv = @ + 1]
              ELSE [st |-> "asked", n |-> 0, conv |-> user.conv + 1]
----------------------------------------------------------------------------
(* Serve() of the machines.                                                *)

Takes(x) == [x EXCEPT !.q = Tail(@), !.hand = Append(@, Head(x.q))]

ClientTakes ==
  /\ c.q # <<>> /\ Len(c.hand) < Threads /\ c' = Takes(c)
  /\ UNCHANGED <<f, s, user, access, backend, verdict, toS, toC, faults, calls, unheard>>
ServerTakes ==
  /\ s.q # <<>> /\ Len(s.hand) < Threads /\ s' = Takes(s)
  /\ UNCHANGED <<f, c, user, access, backend, verdict, toS, toC, faults, calls, unheard>>

\* A disconnection that the client's machine, in the state it is in, loses.
Unheard(e) == e = "Disconnect" /\ Row(ClientTable[f.kind], c.st, e) = None

ClientServes ==
  \E i \in 1..Len(c.hand) :
    LET fired == Fire(c, ClientTable[f.kind], i) IN
    \E x \in ClientDo(f, fired.x, fired.do) :
      /\ c' = Settled(Raised(x)) /\ toS' = toS \o x.out
      /\ unheard' = (unheard \/ Unheard(c.hand[i]))
      /\ IF x.told = None THEN UNCHANGED <<user, access>> ELSE Told(x.told)
      /\ UNCHANGED <<f, s, backend, verdict, toC, faults, calls>>

\* ForwardEapResponse: the first response starts the authenticator; one that has
\* stopped takes nothing.
Handed(what) ==
  IF what[1] = "response"
  THEN /\ backend' = IF backend.fresh
                     THEN [fresh |-> FALSE, on |-> TRUE, n |-> 0, ask |-> what[2]]
                     ELSE IF backend.on THEN [backend EXCEPT !.ask = what[2]] ELSE backend
       /\ UNCHANGED verdict
  ELSE verdict' = what[1] /\ UNCHANGED backend

ServerServes ==
  \E i \in 1..Len(s.hand) :
    LET fired == Fire(s, ServerTable[f.kind], i) IN
    \E x \in ServerDo(f, fired.x, fired.do) :
      /\ s' = Settled(Raised(x)) /\ toC' = toC \o x.out
      /\ IF x.told = None THEN UNCHANGED <<backend, verdict>> ELSE Handed(x.told)
      /\ UNCHANGED <<f, c, user, access, toS, faults, calls, unheard>>
----------------------------------------------------------------------------
(* The authenticator of the server (libeap).                               *)

Signals(pay, e) == s' = Notify([s EXCEPT !.pay = pay], e)

\* Send(): aaad signals a success where the library's test server signals a request.
BackendAsks ==
  /\ backend.on /\ backend.ask = backend.n /\ backend.n < Rounds
  /\ backend' = [backend EXCEPT !.n = @ + 1, !.ask = None]
  /\ Signals(backend.n + 1, IF f.kind = "daemon" THEN "BackendSuccess" ELSE "BackendContinue")
  /\ UNCHANGED <<f, c, user, access, verdict, toS, toC, faults, calls, unheard>>

\* Success() and Failure(), with an EAP message or without, and then Stop().
BackendJudges ==
  /\ backend.on /\ backend.ask = backend.n
  /\ backend' = [backend EXCEPT !.on = FALSE, !.ask = None]
  /\ \E pay \in {None, Rounds + 1} :
       \/ /\ backend.n = Rounds /\ verdict' = "success" /\ Signals(pay, "BackendSuccess")
       \/ verdict' = "failure" /\ Signals(pay, "BackendFailure")
  /\ UNCHANGED <<f, c, user, access, toS, toC, faults, calls, unheard>>

\* A response to another request than the last is thrown away.
BackendDiscards ==
  /\ backend.on /\ backend.ask \notin {None, backend.n}
  /\ backend' = [backend EXCEPT !.ask = None]
  /\ UNCHANGED <<f, c, s, user, access, verdict, toS, toC, faults, calls, unheard>>
----------------------------------------------------------------------------
(* The sessions below.                                                     *)

\* The handler parses the message and notifies; a session that ends hands on nothing.
Arrives(x, m, e) == IF Up(x) THEN [Notify([x EXCEPT !.msg = m], e) EXCEPT !.ret = TRUE] ELSE x

ClientReceives ==
  /\ toC # <<>> /\ ~c.ret
  /\ c' = Arrives(c, Head(toC), "RxAnswer") /\ toC' = Tail(toC)
  /\ UNCHANGED <<f, s, user, access, backend, verdict, toS, faults, calls, unheard>>
ServerReceives ==
  /\ toS # <<>> /\ ~s.ret
  /\ s' = Arrives(s, Head(toS), "RxRequest") /\ toS' = Tail(toS)
  /\ UNCHANGED <<f, c, user, access, backend, verdict, toC, faults, calls, unheard>>

\* CheckUpdateEvent() returns by m_LastEvent as it is by now.
Returned(x) ==
  CASE x.last = "SUCCESS"  -> [x EXCEPT !.ret = FALSE, !.low = IF Up(x) THEN "open" ELSE @]
    [] x.last = "CONTINUE" -> [x EXCEPT !.ret = FALSE]
    [] x.last = "FAILED"   -> [x EXCEPT !.ret = FALSE, !.low = IF Up(x) THEN "ended" ELSE @]

\* On a failure the open session of a client disconnects its user.
ClientReturns ==
  /\ c.ret
  /\ c' = IF c.last = "FAILED" /\ c.low = "open" THEN Notify(Returned(c), "Disconnect")
          ELSE Returned(c)
  /\ UNCHANGED <<f, s, user, access, backend, verdict, toS, toC, faults, calls, unheard>>
ServerReturns ==
  /\ s.ret /\ s' = Returned(s)
  /\ UNCHANGED <<f, c, user, access, backend, verdict, toS, toC, faults, calls, unheard>>

Expiry == {<<"AuthGracePeriodTimeout", "AuthLifetimeTimeout">>, <<"Timeout", "SessionTimeout">>}
Expired(x, low, es) == [x EXCEPT !.low = low, !.q = @ \o es]

\* AuthorizationTimeout(), SessionTimeout(): two events at once, whatever the machine is
\* at.  The timers run from the first answer on.
TimersExpire ==
  /\ calls < MaxCalls /\ calls' = calls + 1
  /\ \E es \in Expiry :
       \/ c.low = "open" /\ c' = Expired(c, "ends", es) /\ UNCHANGED s
       \/ s.low = "open" /\ s' = Expired(s, "ended", es) /\ UNCHANGED c
  /\ UNCHANGED <<f, user, access, backend, verdict, toS, toC, faults, unheard>>

\* The request of a client that ends, and its answer, or the wait for it.
Terminates ==
  /\ \/ /\ c.low \in {"ends", "ended"} /\ s.low = "open"
        /\ s' = Notify([s EXCEPT !.low = "ended"], "Disconnect") /\ UNCHANGED c
     \/ /\ c.low = "ends" /\ c' = Notify([c EXCEPT !.low = "ended"], "Disconnect") /\ UNCHANGED s
  /\ UNCHANGED <<f, user, access, backend, verdict, toS, toC, faults, calls, unheard>>

\* A message is lost, or sent again after a reconnection.
Disturb ==
  /\ faults < MaxFaults /\ faults' = faults + 1
  /\ \/ toS # <<>> /\ toS' \in {Tail(toS), <<Head(toS)>> \o toS} /\ UNCHANGED toC
     \/ toC # <<>> /\ toC' = Tail(toC) /\ UNCHANGED toS
  /\ UNCHANGED <<f, c, s, user, access, backend, verdict, calls, unheard>>

Next ==
  \/ UserAnswers \/ ClientTakes \/ ClientServes \/ ClientReceives \/ ClientReturns
  \/ ServerTakes \/ ServerServes \/ ServerReceives \/ ServerReturns
  \/ BackendAsks \/ BackendJudges \/ BackendDiscards
  \/ TimersExpire \/ Terminates \/ Disturb

Spec == Init /\ [][Next]_vars
----------------------------------------------------------------------------
Idle(x) == x.q = <<>> /\ x.hand = <<>> /\ ~x.ret

AtRest == /\ Idle(c) /\ Idle(s)
          /\ toS = <<>> /\ toC = <<>> /\ user.st # "asked"
          /\ ~(backend.on /\ backend.ask # None)

\* A reauthentication has begun: nasd in another session, the others in this one.
Again == user.conv > 1

\* A user is let in only after the server's authenticator has judged so and, where the
\* request asks for it, Authorize() has returned true: two machines, a network that
\* loses and repeats, and threads that overtake each other lie between.  aaad is left
\* out, whose Send() signals a success for the first EAP request.
GrantedByVerdict ==
  access /\ f.kind # "daemon" => verdict = "success" /\ (s.done \/ f.only)

\* While the client's machine is in StAccepted its session below is open, with its
\* lifetime timer running, or its handler is about to open it: CheckUpdateEvent() reads
\* m_LastEvent, which the machine may not have written yet, and finds it right because
\* the constructor of AAASession writes EVENT_AUTH_SUCCESS into it.
AcceptedIsTimed == c.st = "Accepted" /\ Up(c) => c.low = "open" \/ c.ret

\* A session that has ended leaves no user in, in whatever order two threads fire the
\* events of its end and those of an answer that is still served, and even where the
\* user is let in after that end: the "Disconnect" of the session calls the application
\* back.  Three cases of the code are left out, in which a user does stay in: the NASREQ
\* application that stopped its machine; a reauthentication, from whose states every
\* event leads to StTerminated without a call; and a "Disconnect" that found the machine
\* in StCheckResultCode, which alone has no row for it on the way to StAccepted.
AccessEnds == AtRest /\ c.run /\ ~Again /\ ~unheard /\ c.low = "ended" => ~access

\* Where nothing is lost and no timer expires, all that is begun ends in a verdict that
\* the user, the client and the server agree on.  Left out: a user without a realm and
\* an authentication only, whose machines stop half way, and nasd, which tells the user
\* nothing of a verdict that comes without an EAP message.
Concludes ==
  AtRest /\ faults = 0 /\ calls = 0 /\ f.realm /\ ~f.only =>
    \/ s.st = "Accepted" /\ c.st = "Accepted" /\ user.st = "in"
    \/ s.st = "Rejected" /\ c.st \in {"Rejected", "Terminated"} /\ user.st = "out"
    \/ f.kind = "daemon" /\ c.msg.pay = None
=============================================================================
