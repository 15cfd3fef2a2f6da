------------------------------- MODULE EapTls -------------------------------
(***************************************************************************)
(* EAP-TLS (eap-tls/): the two machines that carry the flights of a TLS    *)
(* handshake in fragments, with OpenSSL as an engine that is given whole   *)
(* flights (tls_handshake_recv of eap_tls_mng.cxx).                        *)
(*                                                                         *)
(* The memory of a machine: eng, the state of the engine; in and out, the  *)
(* pieces in dirty_in and dirty_out; rxFirst and txFirst, the variables    *)
(* first_fragment of its two actions.  Those are static in the code, one   *)
(* for the process: here it has one conversation, and a machine that       *)
(* starts again finds them as it left them.                                *)
(***************************************************************************)
EXTENDS EapShared

\* A flight by the number of its fragments: only the flight with the certificate of
\* the server and the one with the keys of the client are longer than a fragment.
Flight(name) == [i \in 1..(IF name \in {"certificate", "keys", "badkeys"} THEN 2 ELSE 1)
                   |-> <<name, i>>]

\* The contents of a message: the flags M and L, and the fragment or alert.
Tls(more, length, piece) == [more |-> more, length |-> length, piece |-> piece]
Ack == Tls(FALSE, FALSE, None)

\* The result of tls_handshake_recv: an error with output is an alert to send, one
\* without an alert that came.
Engine(eng, out, result) == [eng |-> eng, out |-> out, result |-> result]

PeerEngine(eng, in, pass) ==
  CASE eng = "new" ->
         Engine("hello", Flight(IF pass = "odd" THEN "oddhello" ELSE "hello"), "Valid")
    [] eng = "hello" /\ in = Flight("certificate") ->
         IF pass = "distrust" THEN Engine("dead", Flight("alert"), "AlertSend")
         ELSE Engine("keys", Flight(IF pass = "wrong" THEN "badkeys" ELSE "keys"), "Valid")
    [] eng = "keys" /\ in = Flight("finish") -> Engine("done", <<>>, "Valid")
    [] eng \in {"hello", "keys"} /\ in = Flight("alert") -> Engine("dead", <<>>, "AlertReceive")
    [] OTHER -> Engine(eng, <<>>, "Valid")

AuthEngine(eng, in) ==
  CASE eng = "new" /\ in = Flight("hello")    -> Engine("certificate", Flight("certificate"), "Valid")
    [] eng = "new" /\ in = Flight("oddhello") -> Engine("dead", Flight("alert"), "AlertSend")
    [] eng = "certificate" /\ in = Flight("keys")    -> Engine("done", Flight("finish"), "Valid")
    [] eng = "certificate" /\ in = Flight("badkeys") -> Engine("dead", Flight("alert"), "AlertSend")
    [] eng = "certificate" /\ in = Flight("alert")   -> Engine("dead", <<>>, "AlertReceive")
    [] OTHER -> Engine(eng, <<>>, "Valid")

\* A start of the machine leaves first_fragment as it was.
TlsSession(mem, pass) ==
  [eng |-> "new", in |-> <<>>, out |-> <<>>, pass |-> pass,
   rxFirst |-> mem = None \/ mem.rxFirst, txFirst |-> mem = None \/ mem.txFirst]

\* What the engine leaves behind: dirty_in is used up.
Fed(x, r) == [x EXCEPT !.mem.eng = r.eng, !.mem.in = <<>>, !.mem.out = r.out]
----------------------------------------------------------------------------
(* Fragments.                                                              *)

\* AcVerify...MoreFragments and AcSendFragment of the sender: the first fragment of
\* several has the length.  An empty dirty_out makes a message like an ACK.
Fragment(mem) ==
  LET more == Len(mem.out) > 1
  IN Tls(more, more /\ mem.txFirst, IF mem.out = <<>> THEN None ELSE Head(mem.out))

Advanced(x) ==
  [x EXCEPT !.mem.txFirst = Len(x.mem.out) <= 1, !.mem.out = IF @ = <<>> THEN @ ELSE Tail(@)]

\* AcVerify...MoreFragments of the receiver: a fragment that others follow must be the
\* first one and have the length, or a later one without it.
Misplaced(mem, m) == m.more /\ (m.length # mem.rxFirst \/ m.piece = None)
Piece(m) == IF m.piece = None THEN <<>> ELSE <<m.piece>>
Gathered(x, m) ==
  [x EXCEPT !.mem.in = IF x.mem.rxFirst THEN Piece(m) ELSE @ \o Piece(m), !.mem.rxFirst = ~m.more]
----------------------------------------------------------------------------
(* The peer.                                                               *)

\* AcSendAck and AcSendFragment give their result with a Notify(), the others with an
\* Event().
PeerTlsSends(x) ==
  Notify(Advanced(Responds(x, IF Len(x.mem.out) > 1 THEN "RecvAck" ELSE "WaitRequestFinish",
                        "CONT", Fragment(x.mem))), "SgValidReq")

\* AcBuildResponseAlert and AcBuildResponseAckAlert: what the engine has put out.
PeerTlsFails(x) ==
  Event(Decides(Responds(x, "Failure", "DONE", Fragment(x.mem)), "FAIL", None), "SgValidReq")

PeerTlsStart(x, pass) ==
  LET y == [x EXCEPT !.mem = TlsSession(@, pass)]
      z == Fed(y, PeerEngine("new", <<>>, pass))
  IN Event(Responds(z, "BuildResponseClientHello", "CONT", Fragment(z.mem)), "SgValidReq")

PeerTlsReceives(x, m) ==
  LET y == Gathered(x, m)
      r == PeerEngine(y.mem.eng, y.mem.in, x.mem.pass)
  IN CASE Misplaced(x.mem, m) -> Event([x EXCEPT !.meth = "Initialize"], "SgInvalidReq")
       [] ~Misplaced(x.mem, m) /\ m.more ->
            Notify(Responds(y, "BuildResponseClientHello", "CONT", Ack), "SgValidReq")
       [] ~m.more /\ r.result = "Valid" -> PeerTlsSends(Fed(y, r))
       [] ~m.more /\ r.result # "Valid" -> PeerTlsFails(Fed(y, r))

PeerTlsFinish(x, m) ==
  LET r == PeerEngine(x.mem.eng, Piece(m), x.mem.pass)
      y == Fed(x, r)
  IN IF r.result = "Valid"
     THEN Event(Decides(Responds(y, "Success", "DONE", Ack), "UNCOND_SUCC", None), "SgValidReq")
     ELSE PeerTlsFails(y)

PeerTlsAcked(x, m) ==
  IF m = Ack THEN PeerTlsSends(x)
  ELSE Event([x EXCEPT !.meth = "Initialize"], "SgInvalidReq")

PeerTls(x, pass) ==
  LET m == x.rxm.data
  IN CASE x.meth = "Initialize" -> PeerTlsStart(x, pass)
       [] x.meth = "BuildResponseClientHello" -> PeerTlsReceives(x, m)
       [] x.meth = "RecvAck" -> PeerTlsAcked(x, m)
       [] x.meth = "WaitRequestFinish" -> PeerTlsFinish(x, m)
       [] OTHER -> x
----------------------------------------------------------------------------
(* The authenticator.                                                      *)

AuthTlsSends(x) ==
  Advanced(Asks(x, IF Len(x.mem.out) > 1 THEN "RecvAck" ELSE "ProcessResponseSecondWay",
             Fragment(x.mem)))

AuthTlsInvalid(x) == Notify([x EXCEPT !.meth = "Initialize"], "InvalidResp")
AuthTlsFails(x)   == MethodEnds(Fail(x), "Failure", "ValidResp")

AuthTlsAcked(x)   == IF x.rxm.data = Ack THEN AuthTlsSends(x) ELSE AuthTlsInvalid(x)

\* The rows that follow tls_handshake_recv.
AuthTlsWent(x, result) ==
  IF result = "AlertSend" THEN Asks(x, "BuildRequestAlert", Fragment(x.mem)) ELSE AuthTlsFails(x)

AuthTlsHello(x, m) ==
  LET r == AuthEngine(x.mem.eng, Piece(m))
      y == Fed(x, r)
  IN IF r.result = "Valid" THEN AuthTlsSends(y) ELSE AuthTlsWent(y, r.result)

AuthTlsReceives(x, m) ==
  LET y == Gathered(x, m)
      r == AuthEngine(y.mem.eng, y.mem.in)
      z == Fed(y, r)
  IN CASE Misplaced(x.mem, m) -> AuthTlsInvalid(x)
       [] ~Misplaced(x.mem, m) /\ m.more -> Asks(y, "ProcessResponseSecondWay", Ack)
       [] ~m.more /\ r.result = "Valid" -> Asks(z, "SentRequestFinish", Fragment(z.mem))
       [] ~m.more /\ r.result # "Valid" -> AuthTlsWent(z, r.result)

\* AcProcessResponseFinish calls the engine without the response, which is not looked at.
AuthTlsFinish(x) ==
  LET r == AuthEngine(x.mem.eng, x.mem.in)
      y == Fed(x, r)
  IN IF r.result = "Valid" THEN MethodEnds(Succeed(y), "Success", "ValidResp")
     ELSE AuthTlsWent(y, r.result)

\* The bit S of the first request is left out.
AuthTlsStart(x) == [Asks(x, "BuildStart", Ack) EXCEPT !.mem = TlsSession(@, None)]

AuthTls(x) ==
  CASE x.meth = "Initialize" -> AuthTlsStart(x)
    [] x.meth = "BuildStart" -> AuthTlsHello(x, x.rxm.data)
    [] x.meth = "RecvAck" -> AuthTlsAcked(x)
    [] x.meth = "ProcessResponseSecondWay" -> AuthTlsReceives(x, x.rxm.data)
    [] x.meth = "SentRequestFinish" -> AuthTlsFinish(x)
    [] x.meth = "BuildRequestAlert" -> AuthTlsFails(x)
    [] OTHER -> x
=============================================================================
