-------------------------------- MODULE Eap --------------------------------
(***************************************************************************)
(* One EAP conversation: the peer, the authenticator of the access device  *)
(* and, behind a pass-through, the backend of the AAA server.              *)
(*                                                                         *)
(* Each machine is served by one job thread; the application's receive     *)
(* thread hands a message over in the two steps of Receive().  The link    *)
(* between peer and authenticator keeps the order and may lose; the AAA    *)
(* link is reliable, and Success() and Failure() of an application send    *)
(* the message that the machine has made.                                  *)
(***************************************************************************)
EXTENDS EapAuth, FiniteSets

CONSTANTS
  Methods,    \* methods with which a conversation may be held
  NetCap,     \* messages under way in one direction
  MaxFaults   \* by method, bound on losses and on expiries of the authenticator's timer

ASSUME EapAssumption == Methods \subseteq {"md5", "archie", "gpsk", "tls"}
                        /\ NetCap \in Nat \ {0} /\ MaxFaults \in [Methods -> Nat]

VARIABLES peer, auth, back, toPeer, toAuth,
          noting,   \* receivers between enqueue_tail() and Notify()
          pass,     \* what the user of the peer has given, None for none
          faults    \* losses and expiries so far
vars == <<peer, auth, back, toPeer, toAuth, noting, pass, faults>>

\* The authenticators of the access device: the policies with a Nak and a notification
\* are run with MD5-Challenge, the others with each method.
Servers(method) ==
  IF method = "md5"
  THEN {AuthInit("standalone", p) : p \in {"nak", "notify"}}
       \cup {AuthInit("passthrough", p) : p \in {"pickup", None}}
  ELSE {AuthInit("standalone", method), AuthInit("passthrough", None)}

\* What the user of the peer may have.  The passphrase of MD5-Challenge is asked for
\* when a challenge comes.
Credentials ==
  [md5    |-> {None},
   archie |-> {"right", "wrong", None},
   gpsk   |-> {"right", "wrong", "stranger", "barred"},
   tls    |-> {"right", "wrong", "odd", "distrust"}]

Init ==
  \E method \in Methods :
    /\ peer = PeerInit(method)
    /\ auth \in {AuthStart(s, None) : s \in Servers(method)}
    /\ back = AuthInit("backend", IF method = "md5" THEN "plain" ELSE method)
    /\ toPeer = <<>> /\ toAuth = <<>> /\ noting = {}
    /\ pass \in Credentials[method] /\ faults = 0
----------------------------------------------------------------------------
Sent(net, msgs) == IF Len(net) + Len(msgs) <= NetCap THEN net \o msgs ELSE net
Delivered(x)    == [x EXCEPT !.tx = <<>>]

\* A machine in the middle of Event() finishes it first: what the other threads do
\* meanwhile is not seen before the call is over.
InCall == PeerInCall(peer) \/ AuthInCall(auth) \/ AuthInCall(back)

PeerTask ==
  /\ PeerBusy(peer) /\ (InCall => PeerInCall(peer))
  /\ pass' \in IF PeerAsks(peer) /\ peer.cur = "md5" THEN {"right", "wrong", None} ELSE {pass}
  /\ \E chance \in BOOLEAN :
       LET y == PeerStep(peer, chance, pass')
       IN peer' = Delivered(y) /\ toAuth' = Sent(toAuth, y.tx)
  /\ UNCHANGED <<auth, back, toPeer, noting, faults>>

\* The application of a pass-through takes what is for the server to a new backend
\* at first, and to the same one from then on.
ToBackend(x, msg) ==
  IF ~x.run /\ x.said = None THEN AuthStart(x, msg)
  ELSE IF msg # None /\ x.run THEN Notify([x EXCEPT !.rx = Append(@, msg)], "RxMsg")
  ELSE x

AuthTask ==
  /\ AuthBusy(auth) /\ (InCall => AuthInCall(auth) /\ ~PeerInCall(peer))
  /\ \E known \in BOOLEAN :
       LET y == AuthStep(auth, known, FALSE)
           aaa == auth.fsm \in {"InitializePassThrough", "AaaRequest"} /\ y.tx # <<>>
       IN /\ auth' = Delivered(y)
          /\ toPeer' = IF aaa THEN toPeer ELSE Sent(toPeer, y.tx)
          /\ back' = IF aaa THEN ToBackend(back, Head(y.tx)) ELSE back
  /\ UNCHANGED <<peer, toAuth, noting, pass, faults>>

\* What the AAA client does with an answer, by its result; a key comes with success.
Answered(x, said, m, key) ==
  IF ~x.run THEN x
  ELSE Notify([x EXCEPT !.aaa = Append(@, m), !.key = IF said = "success" THEN key ELSE @],
              CASE said = "success" -> "AaaSuccess"
                [] said = "failure" -> "AaaFailure"
                [] said = None      -> "AaaContinue")

BackTask ==
  /\ AuthBusy(back) /\ (InCall => AuthInCall(back) /\ ~PeerInCall(peer) /\ ~AuthInCall(auth))
  /\ \E known \in BOOLEAN :
       LET y == AuthStep(back, known, auth.policy = "pickup")
       IN /\ back' = Delivered(y)
          /\ auth' = IF y.tx = <<>> THEN auth ELSE Answered(auth, y.said, Head(y.tx), y.key)
  /\ UNCHANGED <<peer, toPeer, toAuth, noting, pass, faults>>
----------------------------------------------------------------------------
Quiet == ~InCall

\* Receive(): enqueue_tail(), then Notify(EvRxMsg).  A machine that has stopped is
\* not given messages any more.
PeerReceives ==
  /\ Quiet /\ toPeer # <<>> /\ "peer" \notin noting
  /\ toPeer' = Tail(toPeer)
  /\ peer' = IF peer.run THEN [peer EXCEPT !.rx = Append(@, Head(toPeer))] ELSE peer
  /\ noting' = IF peer.run THEN noting \cup {"peer"} ELSE noting
  /\ UNCHANGED <<auth, back, toAuth, pass, faults>>

PeerNoted ==
  /\ Quiet /\ "peer" \in noting
  /\ peer' = IF peer.run THEN Notify(peer, "RxMsg") ELSE peer
  /\ noting' = noting \ {"peer"}
  /\ UNCHANGED <<auth, back, toPeer, toAuth, pass, faults>>

AuthReceives ==
  /\ Quiet /\ toAuth # <<>> /\ "auth" \notin noting
  /\ toAuth' = Tail(toAuth)
  /\ auth' = IF auth.run THEN [auth EXCEPT !.rx = Append(@, Head(toAuth))] ELSE auth
  /\ noting' = IF auth.run THEN noting \cup {"auth"} ELSE noting
  /\ UNCHANGED <<peer, back, toPeer, pass, faults>>

AuthNoted ==
  /\ Quiet /\ "auth" \in noting
  /\ auth' = IF auth.run THEN Notify(auth, "RxMsg") ELSE auth
  /\ noting' = noting \ {"auth"}
  /\ UNCHANGED <<peer, back, toPeer, toAuth, pass, faults>>

Lose ==
  /\ Quiet
  /\ \/ toPeer # <<>> /\ toPeer' = Tail(toPeer) /\ UNCHANGED toAuth
     \/ toAuth # <<>> /\ toAuth' = Tail(toAuth) /\ UNCHANGED toPeer
  /\ faults < MaxFaults[peer.allows] /\ faults' = faults + 1
  /\ UNCHANGED <<peer, auth, back, noting, pass>>

\* A period that ends while its event is still queued adds nothing.
Due(x, e) == x.run /\ \A i \in 1..Len(x.q) : x.q[i] # e

AuthTimer ==
  /\ Quiet /\ auth.armed /\ Due(auth, "To")
  /\ faults < MaxFaults[peer.allows] /\ faults' = faults + 1
  /\ auth' = Notify(auth, "To")
  /\ UNCHANGED <<peer, back, toPeer, toAuth, noting, pass>>

PeerTimer ==
  /\ Quiet /\ peer.armed /\ Due(peer, "To")
  /\ peer' = Notify(peer, "To")
  /\ UNCHANGED <<auth, back, toPeer, toAuth, noting, pass, faults>>

PeerPoll ==
  /\ Quiet /\ peer.poll /\ Due(peer, "ToCheckIdentity")
  /\ peer' = Notify(peer, "ToCheckIdentity")
  /\ UNCHANGED <<auth, back, toPeer, toAuth, noting, pass, faults>>

Next == PeerTask \/ AuthTask \/ BackTask \/ PeerReceives \/ PeerNoted \/ AuthReceives
        \/ AuthNoted \/ Lose \/ AuthTimer \/ PeerTimer \/ PeerPoll

Spec == Init /\ [][Next]_vars
----------------------------------------------------------------------------
\* Whoever speaks of success repeats the one that decided: the access device behind a
\* pass-through gives the verdict of the AAA server, whatever is lost, repeated or late
\* between it and the peer, and the peer reports success only after the server has
\* (AcAaaSuccess, AcAaaFailure, AcReceiveMsg of the peer).
Agreement ==
  /\ auth.kind = "passthrough" /\ auth.said # None => auth.said = back.said
  /\ peer.said = "success" => auth.said = "success"

\* The server accepts the peer that has the passphrase and rejects no peer that has it,
\* whichever answers arrive twice, late, or to a request that is not the last one
\* (identifier check of AcReceiveMsg, method state of a Nak, AcDoPolicyCheck).
Judged ==
  /\ auth.said = "success" => pass = "right"
  /\ auth.said = "failure" => pass # "right"

\* No thread of a server waits in dequeue_head() for a message that was consumed
\* before: AcReceiveMsg, AcDiscard2 and AcDiscard3 dequeue without a look at the count.
NeverStarved == ~AuthBlocked(auth) /\ ~AuthBlocked(back)

\* The machine whose policy decides.
Decider == IF auth.kind = "passthrough" THEN back ELSE auth

\* Both ends that report success hold the same key, of one run of the method, whatever was
\* lost, sent twice or begun again (MK() in AcNotifySuccess of both sides, AAA_Success());
\* and with TLS, whose fragments nothing else accounts for, both engines have finished
\* the handshake: no state machine asks them (AcProcessResponseFinish).
KeysAgree ==
  peer.said = "success" /\ auth.said = "success" =>
    /\ auth.key = peer.key
    /\ peer.allows \in {"archie", "gpsk"} => peer.key # None
    /\ peer.allows = "tls" => peer.mem.eng = "done" /\ Decider.mem.eng = "done"

Waits == /\ noting = {} /\ toPeer = <<>> /\ toAuth = <<>>
         /\ ~PeerBusy(peer) /\ ~AuthBusy(auth) /\ ~AuthBusy(back)

\* AcNotifyFailure of the identity method: EvSgInvalidResp discards the response, and
\* neither the policy's verdict nor a Failure is sent.
Refused == \E x \in {auth, back} : x.run /\ x.cur = "identity" /\ x.meth = "Failure"

\* Without a loss or an early retransmission nobody is left waiting for the timers,
\* but in the cases the code has: the identity was refused, no secret was given, a
\* notification has taken the place of the peer's method, or the Failure came to a peer
\* that had decided for success (UNCOND_SUCC) or whose method was to be continued.
Concludes ==
  Waits /\ faults = 0 /\ ~peer.poll /\ peer.said = None =>
    \/ Refused
    \/ peer.cur \in {"md5", "archie"} /\ pass = None
    \/ peer.cur = "notification" /\ auth.cur = "md5"
    \/ auth.said = "failure" /\ (peer.dec = "UNCOND_SUCC" \/ peer.mstate = "CONT")
=============================================================================
