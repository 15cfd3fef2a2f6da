----------------------------- MODULE MsgRouter -----------------------------
(***************************************************************************)
(* DiameterMsgRouter (aaa_route_msg_router, aaa_route_framework.h): the    *)
(* chain that routes requests, the three containers of pending requests in *)
(* which answers are looked up, and the checks that retransmit or discard  *)
(* what is pending.  Job threads route what peers send and run a check     *)
(* when a peer is lost; the reactor's timer runs a check of its own.  One  *)
(* action per step between two operations on a container (each of which    *)
(* takes the container's lock, and a check holds it throughout).           *)
(*                                                                         *)
(* A message is what the router reads of it.  Ids count up from a seed; an *)
(* answer names the request it answers, as its End-to-End id does.         *)
(***************************************************************************)
EXTENDS Integers, Sequences

CONSTANTS
  Peer, Us,    \* entries of the peer table; the sessions of this node
  Request,     \* each is sent once by its origin
  Flagged,     \* those that have the T flag set then
  Source,      \* its origin, a peer or Us
  OwnOrigin,   \* those with our identity as Origin-Host: ours, and those that loop back
  OwnHh,       \* the hop-by-hop id it has when a peer sends it
  Host,        \* its Destination-Host: a peer, Us (or a realm of ours), or None
  Servers,     \* the servers of its realm and application, in order
  Action,      \* of its realm: "local", "relay", "proxy" or "redirect"
  JobThread, Reactor,
  FirstHh, MaxHh,   \* the generator's seed; bound: the ids it gives out
  RetxMax,          \* max_request_retransmission_count
  MayFail,          \* bound: the peers that may be lost
  MayRedirect,      \* bound: the requests a server answers with a redirection
  MaxChecks,        \* bound: how often a peer is lost or the retransmission timer expires
  None

Container == {"local", "forward", "routed"}
Thread    == JobThread \cup {Reactor}
Hh        == 1 .. MaxHh

ASSUME MsgRouterAssumption ==
  /\ Us \notin Peer /\ None \notin Peer \cup {Us} \cup Thread
  /\ Source \in [Request -> Peer \cup {Us}] /\ MayFail \subseteq Peer
  /\ FirstHh \in Nat \ {0} /\ MaxHh \in Nat /\ RetxMax \in Nat /\ MaxChecks \in Nat
  /\ OwnHh \in [Request -> Hh]
  /\ Host \in [Request -> Peer \cup {Us, None}]
  /\ {r \in Request : Source[r] = Us} \subseteq OwnOrigin /\ OwnOrigin \subseteq Request
  /\ MayRedirect \subseteq Request
  /\ Servers \in [Request -> Seq(Peer)] /\ Flagged \subseteq Request
  /\ Action \in [Request -> {"local", "relay", "proxy", "redirect"}]

\* Its T flag, and whether our identity is among its Route-Records.
Msg   == [req : Request, hh : Hh \cup {0}, t : BOOLEAN, rr : BOOLEAN]
NoMsg == [req |-> None]

\* DiameterRouterPendingReq.
Record   == [orig : Hh, source : Peer \cup {Us}, dest : Peer \cup {None},
             count : 0 .. RetxMax, msg : Msg \cup {NoMsg}]
NoRecord == [orig |-> 0]

\* A message on its way through the router: the container it is in, where it
\* came from, where it goes, its id in the container, and for an answer the
\* request that was pending.
Job   == [c : Container, m : Msg, from : Peer \cup {Us}, to : Peer \cup {Us, None},
          id : Hh \cup {0}, kind : {"request", "answer", "redirect"},
          p : Msg \cup {NoMsg}]
NoJob == [c |-> None]

\* A ReTransmitCheck: because of a lost peer, or of age (None).
Check   == [c : {"forward", "routed"}, lost : Peer \cup {None}, todo : SUBSET Hh]
NoCheck == [c |-> None]

VARIABLES
  open,       \* peers in an open state
  next,       \* the generator's m_Id, plus one
  arrived,    \* requests their origins have sent
  pending,    \* m_ReqMap of each delivery node
  lock,       \* the thread that holds m_ReqMap's write lock in Iterate()
  pc, job, check,   \* of each thread
  atPeer,     \* transmitted to a peer and not yet answered by it
  atUs,       \* given to the sessions and not yet answered by them
  sends,      \* how often each id has been transmitted
  delivered,  \* answers that have reached an origin
  again,      \* those that have reached it more than once
  checks,     \* history: how many have been started
  given,      \* history: how often the generator has given out each id
  raced       \* history: requests two threads had an answer of at one record

vars == <<open, next, arrived, pending, lock, pc, job, check, atPeer, atUs,
          sends, delivered, again, checks, given, raced>>
history == <<checks, given, raced>>
control == <<pc, job, check>>
outside == <<open, arrived, atPeer, atUs, sends, delivered, again>>

Init ==
  /\ open = Peer
  /\ next = FirstHh
  /\ arrived = {}
  /\ pending = [c \in Container |-> [h \in Hh |-> NoRecord]]
  /\ lock = [c \in Container |-> None]
  /\ pc = [t \in Thread |-> "idle"]
  /\ job = [t \in Thread |-> NoJob]
  /\ check = [t \in Thread |-> NoCheck]
  /\ atPeer = {} /\ atUs = {}
  /\ sends = [h \in Hh |-> 0]
  /\ delivered = {} /\ again = {} /\ checks = 0
  /\ given = [h \in Hh |-> 0] /\ raced = {}

Has(c, h) == pending[c][h] # NoRecord

\* The lock is obtained; or refused to the thread that has it (EDEADLK), which
\* then goes on without.
Free(c, t) == lock[c] \in {None, t}

\* A NULL or a deleted record is used: the process ends.
Crash == /\ pc' = [t \in Thread |-> "crashed"]
         /\ UNCHANGED <<outside, history, next, pending, lock, job, check>>

Goto(t, l)    == pc' = [pc EXCEPT ![t] = l]
Continue(t, l, j) == Goto(t, l) /\ job' = [job EXCEPT ![t] = j]
\* The call returns, into the check that made it if there is one.
Done(t) == Continue(t, IF check[t] = NoCheck THEN "idle" ELSE "check", NoJob)

\* DiameterPeerEntry::Send() discards what is for a peer that is not open.
\* Bound: sends counts to one more than is allowed.
Transmit(p, m) ==
  IF p \in open
  THEN /\ atPeer' = atPeer \cup {[peer |-> p, req |-> m.req, hh |-> m.hh]}
       /\ sends' = [sends EXCEPT ![m.hh] = IF @ > RetxMax + 1 THEN @ ELSE @ + 1]
  ELSE UNCHANGED <<atPeer, sends>>

Deliver(to, m) ==
  LET d == [to |-> to, req |-> m.req, hh |-> m.hh]
  IN IF to \in open \cup {Us}
     THEN /\ delivered' = delivered \cup {d}
          /\ again' = IF d \in delivered THEN again \cup {d} ELSE again
     ELSE UNCHANGED <<delivered, again>>
----------------------------------------------------------------------------
(* Ids, and the request chain: RcLocal, RcForwarded, RcRouted, RcRejected. *)

\* DIAMETER_HOPBYHOP_GEN()->Get(): ++m_Id, without a lock.
ReadId(t) ==
  /\ pc[t] = "id" /\ next <= MaxHh
  /\ Continue(t, "newid", [job[t] EXCEPT !.id = next])
  /\ UNCHANGED <<outside, history, next, pending, lock, check>>

\* A session gives its requests their id; the router those of peers.
WriteId(t) ==
  /\ pc[t] = "newid"
  /\ LET j == job[t] IN
     /\ next' = j.id + 1
     /\ given' = [given EXCEPT ![j.id] = IF @ = 2 THEN @ ELSE @ + 1]
     /\ IF j.m.hh = 0 THEN Continue(t, "route", [j EXCEPT !.m.hh = j.id])
        ELSE Continue(t, "add", j)
  /\ UNCHANGED <<outside, checks, raced, pending, lock, check>>

\* A job thread stands for an application's thread too.
Arrive(t, r) ==
  /\ t \in JobThread /\ pc[t] = "idle"
  /\ r \notin arrived /\ Source[r] \in open \cup {Us}
  /\ arrived' = arrived \cup {r}
  /\ Continue(t, IF Source[r] = Us THEN "id" ELSE "route",
       [c |-> "local", from |-> Source[r], to |-> None, id |-> 0,
        kind |-> "request", p |-> NoMsg,
        m |-> [req |-> r, hh |-> IF Source[r] = Us THEN 0 ELSE OwnHh[r],
               t |-> r \in Flagged, rr |-> FALSE]])
  /\ UNCHANGED <<history, open, next, pending, lock, check, atPeer, atUs, sends, delivered, again>>

OpenServer(r) ==
  {Servers[r][i] : i \in {i \in DOMAIN Servers[r] :
     Servers[r][i] \in open /\ \A j \in 1 .. i - 1 : Servers[r][j] \notin open}}

Route(node, dest) == [node |-> node, dest |-> dest]
Lookup(r) ==
  CASE Host[r] = Us        -> Route("local", None)
    [] Host[r] \in open    -> Route("forward", Host[r])
    [] OTHER ->
       IF Action[r] = "redirect" THEN Route("redirect", None)
       ELSE IF OpenServer(r) = {} THEN Route("rejected", None)
       ELSE Route(IF Action[r] = "local" THEN "local" ELSE "routed",
                  CHOOSE p \in OpenServer(r) : TRUE)

Ours(m) == m.req \in OwnOrigin
\* DcRouted tests nothing of requests with our Origin-Host.
Exempt(m, c) == c = "routed" /\ Ours(m)
Retransmitted(m, c) == m.t /\ Has(c, m.hh) /\ ~Exempt(m, c)
Looping(m, c) == m.rr /\ ~Exempt(m, c)

RouteLocally(t) ==
  /\ pc[t] = "route"
  /\ LET j == job[t]  route == Lookup(j.m.req) IN
     /\ route.node = "local"
     /\ IF j.from = Us THEN Done(t)
        ELSE Continue(t, "add", [j EXCEPT !.c = "local", !.to = route.dest, !.id = j.m.hh])
  /\ UNCHANGED <<outside, history, next, pending, lock, check>>

\* DcForward and DcRouted::RequestMsg up to Add(); DcRouted appends our own
\* identity as Route-Record.
RouteOnward(t) ==
  /\ pc[t] = "route"
  /\ LET j == job[t]  route == Lookup(j.m.req)  c == route.node
         onward == [j EXCEPT !.c = c, !.to = route.dest, !.id = j.m.hh]
         recorded == [onward EXCEPT !.m.rr = @ \/ (c = "routed" /\ ~Ours(j.m))]
     IN
     /\ c \in {"forward", "routed"}
     /\ j.m.t => Free(c, t) \/ Exempt(j.m, c)
     /\ IF Retransmitted(j.m, c)
        THEN Continue(t, "send", onward) /\ UNCHANGED <<delivered, again>>
        ELSE IF Looping(j.m, c)
        THEN Deliver(j.from, j.m) /\ Done(t)
        ELSE /\ Continue(t, IF j.from = Us THEN "add" ELSE "id", recorded)
             /\ UNCHANGED <<delivered, again>>
  /\ UNCHANGED <<history, open, next, arrived, pending, lock, check, atPeer, atUs, sends>>

\* A proxy's policy: nothing is sent, nothing is pending.
RouteRefused(t) ==
  /\ pc[t] = "route"
  /\ LET m == job[t].m IN
     /\ Lookup(m.req).node = "routed" /\ Action[m.req] = "proxy"
     /\ m.t => Free("routed", t) \/ Exempt(m, "routed")
     /\ ~Retransmitted(m, "routed") /\ ~Looping(m, "routed")
  /\ Done(t)
  /\ UNCHANGED <<outside, history, next, pending, lock, check>>

\* An answer with the error's code: no route, or a redirect indication.
RouteBack(t) ==
  /\ pc[t] = "route"
  /\ LET j == job[t]  node == Lookup(j.m.req).node IN
     /\ node \in {"rejected", "redirect"}
     /\ IF node = "redirect" /\ j.from = Us THEN Crash
        ELSE /\ Deliver(j.from, j.m) /\ Done(t)
             /\ UNCHANGED <<history, open, next, arrived, pending, lock, check, atPeer, atUs, sends>>
----------------------------------------------------------------------------
(* The delivery nodes' RequestMsg.                                         *)

RecordSwapped(j) == [orig |-> j.m.hh, source |-> j.to, dest |-> j.from,
                     count |-> 0, msg |-> NoMsg]
NewRecord(j) == [orig |-> j.m.hh, source |-> j.from, dest |-> j.to,
                 count |-> 0, msg |-> NoMsg]

InsertedOver(c, h, r) == [pending EXCEPT ![c][h] = r]
\* map::insert does not replace.
Inserted(c, h, r) == [pending EXCEPT ![c][h] = IF Has(c, h) THEN @ ELSE r]

Add(t) ==
  /\ pc[t] = "add"
  /\ LET j == job[t] IN
     /\ j.c # "local" /\ Free(j.c, t)
     /\ pending' = Inserted(j.c, j.id, NewRecord(j))
     /\ Continue(t, "send", [j EXCEPT !.m.hh = j.id])
  /\ UNCHANGED <<outside, history, next, lock, check>>

AddLocal(t) ==
  /\ pc[t] = "add"
  /\ LET j == job[t] IN
     /\ j.c = "local" /\ Free(j.c, t)
     /\ pending' = Inserted(j.c, j.m.hh, NewRecord(j))
  /\ Goto(t, "hand")
  /\ UNCHANGED <<outside, history, next, lock, job, check>>

\* The H_LOCAL handler takes it to the sessions.
HandOver(t) ==
  /\ pc[t] = "hand"
  /\ atUs' = atUs \cup {[req |-> job[t].m.req, hh |-> job[t].m.hh]}
  /\ Done(t)
  /\ UNCHANGED <<history, open, next, arrived, pending, lock, check, atPeer, sends, delivered, again>>

Send(t) ==
  /\ pc[t] = "send"
  /\ Transmit(job[t].to, job[t].m)
  /\ Goto(t, "store")
  /\ UNCHANGED <<history, open, next, arrived, pending, lock, job, check, atUs, delivered, again>>

\* The message is deleted if its record has gone.
Store(t) ==
  /\ pc[t] = "store"
  /\ LET c == job[t].c  h == job[t].m.hh IN
     /\ Free(c, t)
     /\ pending' = IF Has(c, h) THEN [pending EXCEPT ![c][h].msg = job[t].m] ELSE pending
  /\ Done(t)
  /\ UNCHANGED <<outside, history, next, lock, check>>
----------------------------------------------------------------------------
(* Answers: from the sessions, and from the peers.                         *)

Answering(t, from, a, kind) ==
  /\ t \in JobThread /\ pc[t] = "idle"
  /\ Continue(t, "lookup",
       [c |-> "local", from |-> from, to |-> None, id |-> a.hh, kind |-> kind, p |-> NoMsg,
        m |-> [req |-> a.req, hh |-> a.hh, t |-> FALSE, rr |-> FALSE]])

AnswerLocally(t, a) ==
  /\ a \in atUs
  /\ Answering(t, Us, a, "answer")
  /\ atUs' = atUs \ {a}
  /\ UNCHANGED <<history, open, next, arrived, pending, lock, check, atPeer, sends, delivered, again>>

AnswerArrives(t, a, kind) ==
  /\ a \in atPeer /\ a.peer \in open
  /\ kind = "redirect" => a.req \in MayRedirect
  /\ Answering(t, a.peer, a, kind)
  /\ atPeer' = atPeer \ {a}
  /\ UNCHANGED <<history, open, next, arrived, pending, lock, check, atUs, sends, delivered, again>>

\* Threads between Lookup() and Remove() of a record.
HasFound(c, h) ==
  {t \in Thread : pc[t] \in {"read", "delete"} /\ job[t].c = c /\ job[t].id = h}

AnsweredBy(ts) == {job[t].m.req : t \in ts}

\* m_ReqMap.Lookup() in one node after the other; DcReject drops the rest.
LookupPending(t) ==
  /\ pc[t] = "lookup"
  /\ LET c == job[t].c  h == job[t].id IN
     /\ Free(c, t)
     /\ IF Has(c, h) THEN Goto(t, "read") /\ UNCHANGED job
        ELSE IF c = "routed" THEN Done(t)
        ELSE /\ job' = [job EXCEPT ![t].c = IF c = "local" THEN "forward" ELSE "routed"]
             /\ UNCHANGED pc
     /\ raced' = IF Has(c, h) THEN raced \cup (AnsweredBy(HasFound(c, h)) \cap {job[t].m.req})
                 ELSE raced
  /\ UNCHANGED <<outside, checks, given, next, pending, lock, check>>

\* Its record is read, and its message moved out, without the lock.  Another thread
\* may have deleted it by then, and a new record may be in its place.
ReadPending(t) ==
  /\ pc[t] = "read"
  /\ LET c == job[t].c  h == job[t].id  r == pending[c][h] IN
     IF ~Has(c, h) THEN Crash
     ELSE /\ Continue(t, "delete", [job[t] EXCEPT !.to = r.source, !.p = r.msg, !.m.hh = r.orig])
          /\ pending' = [pending EXCEPT ![c][h].msg = NoMsg]
          /\ UNCHANGED <<outside, history, next, lock, check>>

RemovedNot(c, h) == pending
Removed(c, h)    == [pending EXCEPT ![c][h] = NoRecord]

\* DeleteQueuedMessage().
DeletePending(t) ==
  /\ pc[t] = "delete"
  /\ Free(job[t].c, t)
  /\ pending' = Removed(job[t].c, job[t].id)
  /\ Goto(t, "process")
  /\ UNCHANGED <<outside, history, next, lock, job, check>>

\* Process(): to the source of the request, or to the sessions.
ProcessAnswer(t) ==
  /\ pc[t] = "process" /\ job[t].kind = "answer"
  /\ Deliver(job[t].to, job[t].m) /\ Done(t)
  /\ UNCHANGED <<history, open, next, arrived, pending, lock, check, atPeer, atUs, sends>>

\* The request goes to one of the Redirect-Hosts, if one is open, and is not
\* pending any more.
ProcessRedirect(t) ==
  /\ pc[t] = "process" /\ job[t].kind = "redirect"
  /\ LET p == job[t].p IN
     \/ p = NoMsg /\ Crash
     \/ /\ p # NoMsg
        /\ \E hosts \in {{}} \cup {{q} : q \in open} :
             atPeer' = atPeer \cup {[peer |-> q, req |-> p.req, hh |-> p.hh] : q \in hosts}
        /\ Done(t)
        /\ UNCHANGED <<history, open, next, arrived, pending, lock, check, atUs, sends, delivered, again>>
----------------------------------------------------------------------------
(* ReTransmitEvent(): m_rcForward's check, then m_rcRouted's.              *)

StartCheck(t, lost) ==
  /\ pc[t] = "idle" /\ checks < MaxChecks
  /\ checks' = checks + 1
  /\ check' = [check EXCEPT ![t] = [c |-> "forward", lost |-> lost, todo |-> {}]]
  /\ Goto(t, "lock")

\* DiameterPeer::Disconnected(); the machine has left its open state by then.
Disconnect(t, p) ==
  /\ t \in JobThread /\ p \in open \cap MayFail
  /\ StartCheck(t, p)
  /\ open' = open \ {p}
  /\ UNCHANGED <<given, raced, arrived, next, pending, lock, job, atPeer, atUs, sends, delivered, again>>

\* Not while the machine still serves the disconnection.
PeerOpens(p) ==
  /\ p \notin open /\ pc[Reactor] # "crashed"
  /\ \A t \in Thread : check[t] # NoCheck => check[t].lost # p
  /\ open' = open \cup {p}
  /\ UNCHANGED <<history, arrived, next, pending, lock, control, atPeer, atUs, sends, delivered, again>>

Timer ==
  /\ StartCheck(Reactor, None)
  /\ UNCHANGED <<outside, given, raced, next, pending, lock, job>>

\* Records of a lost peer; or old ones, which none is before it has been sent.
BeingSent(c, h) == \E t \in Thread : /\ pc[t] \in {"send", "store"}
                                     /\ job[t].c = c /\ job[t].m.hh = h
CheckLocks(t) ==
  /\ pc[t] = "lock"
  /\ LET c == check[t].c  lost == check[t].lost  here == {h \in Hh : Has(c, h)} IN
     /\ lock[c] = None
     /\ lock' = [lock EXCEPT ![c] = t]
     /\ \E old \in IF lost # None THEN {{h \in here : pending[c][h].dest = lost}}
                   ELSE SUBSET {h \in here : ~BeingSent(c, h)} :
          check' = [check EXCEPT ![t].todo = old]
     /\ Goto(t, "check")
  /\ UNCHANGED <<outside, history, next, pending, job>>

Nearest(hs) == CHOOSE h \in hs : \A g \in hs : h <= g

Exhausted(r) == r.count >= RetxMax

\* The record's message is marked and moved into RequestMsg().
CheckRetransmits(t) ==
  /\ pc[t] = "check" /\ check[t].todo # {}
  /\ LET c == check[t].c  h == Nearest(check[t].todo)  r == pending[c][h] IN
     /\ ~Exhausted(r)
     /\ IF r.msg = NoMsg THEN Crash
        ELSE /\ pending' = [pending EXCEPT ![c][h].count = @ + 1, ![c][h].msg = NoMsg]
             /\ check' = [check EXCEPT ![t].todo = @ \ {h}]
             /\ Continue(t, "route",
                  [c |-> "local", from |-> r.source, to |-> None, id |-> 0,
                   kind |-> "request", p |-> NoMsg, m |-> [r.msg EXCEPT !.t = TRUE]])
             /\ UNCHANGED <<outside, history, next, lock>>

CheckDiscards(t) ==
  /\ pc[t] = "check" /\ check[t].todo # {}
  /\ LET c == check[t].c  h == Nearest(check[t].todo) IN
     /\ Exhausted(pending[c][h])
     /\ pending' = Removed(c, h)
     /\ check' = [check EXCEPT ![t].todo = @ \ {h}]
  /\ UNCHANGED <<outside, history, next, lock, pc, job>>

CheckEnds(t) ==
  /\ pc[t] = "check" /\ check[t].todo = {}
  /\ lock' = [lock EXCEPT ![check[t].c] = None]
  /\ IF check[t].c = "forward"
     THEN check' = [check EXCEPT ![t].c = "routed"] /\ Goto(t, "lock")
     ELSE check' = [check EXCEPT ![t] = NoCheck] /\ Goto(t, "idle")
  /\ UNCHANGED <<outside, history, next, pending, job>>

Inside(t) ==
  \/ ReadId(t) \/ WriteId(t)
  \/ RouteLocally(t) \/ RouteOnward(t) \/ RouteRefused(t) \/ RouteBack(t)
  \/ Add(t) \/ AddLocal(t) \/ HandOver(t) \/ Send(t) \/ Store(t)
  \/ LookupPending(t) \/ ReadPending(t) \/ DeletePending(t)
  \/ ProcessAnswer(t) \/ ProcessRedirect(t)
  \/ CheckLocks(t) \/ CheckRetransmits(t) \/ CheckDiscards(t) \/ CheckEnds(t)

Next ==
  \/ \E t \in Thread : Inside(t)
  \/ \E t \in JobThread, r \in Request : Arrive(t, r)
  \/ \E t \in JobThread, a \in atUs : AnswerLocally(t, a)
  \/ \E t \in JobThread, a \in atPeer, kind \in {"answer", "redirect"} : AnswerArrives(t, a, kind)
  \/ \E t \in JobThread, p \in Peer : Disconnect(t, p)
  \/ \E p \in Peer : PeerOpens(p)
  \/ Timer

Spec == Init /\ [][Next]_vars
----------------------------------------------------------------------------
\* A request of a peer is answered under the peer's own id at most once,
\* although it may have been sent more than once, and each time be answered: "The
\* corresponding message should be removed from the list of pending requests"
\* (6.2.1, aaa_route_framework.h:274-279).  Lookup() finds the record in one
\* critical section and removes it in another, so two threads that have an answer
\* of the same request there at a time deliver both: that is the only way to a second
\* delivery, whatever is lost, retransmitted or discarded meanwhile.
AnsweredOnce ==
  \A d \in again : Source[d.req] \in Peer /\ d.hh = OwnHh[d.req] => d.req \in raced

\* An answer goes "to the host that it received the original request from"
\* (DcRouted::Process, 6.2.2), as far as ids keep requests apart.  Those of onward
\* requests are the router's own, so that a server's answer that is matched
\* with one of them goes to its origin, until two threads are given one
\* id (++m_Id).  Those of requests to our own sessions are their origins', which coincide
\* with other origins' and with the router's: what is matched there goes to a
\* peer that has sent our sessions a request under that id, whosever answer it is.
SentUs(p, h) == \E r \in Request : Source[r] = p /\ OwnHh[r] = h /\ Host[r] = Us
RightPeer ==
  \A t \in JobThread : pc[t] = "process" /\ job[t].kind = "answer" =>
    LET j == job[t] IN
    /\ j.c = "local" => SentUs(j.to, j.id)
    /\ j.c # "local" /\ j.from # Us /\ (\A h \in Hh : given[h] <= 1) => j.to = Source[j.m.req]

\* An onward request is sent once, and sent again at most
\* max_request_retransmission_count times, by the checks of lost peers and of
\* age together, unless another was given the same id.
RetransmissionsBounded == \A h \in Hh : given[h] <= 1 => sends[h] <= 1 + RetxMax
=============================================================================
