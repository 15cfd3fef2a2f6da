----------------------------- MODULE EapShared -----------------------------
(***************************************************************************)
(* The two methods of libeap that prove a shared secret in more than one   *)
(* round: EAP-Archie (eap-archie/) and EAP-GPSK (eap-gpsk/).               *)
(*                                                                         *)
(* A machine of a method handles a message in one event: the events that   *)
(* its actions raise for itself are over when the handler returns, so a    *)
(* transient state (ProcessRequest, ProcessGpsk2 and the like) is a step   *)
(* of the operator.  A MAC is the record of what it covers and the secret  *)
(* it is made with; nonces are counted, a new one whenever the code draws  *)
(* one.                                                                    *)
(***************************************************************************)
EXTENDS EapBase

\* What the user of the peer has: the server knows the secret "right" for every peer
\* but a stranger, and one that is barred has no authorization.
Secret(pass) == IF pass = "wrong" THEN "wrong" ELSE "right"

\* ssm.MethodState(), Decision() and KeyData() when the peer's method has ended.
Decides(x, dec, key) == [x EXCEPT !.mstate = "DONE", !.dec = dec, !.mkey = key]

Nonces(x) == IF x.mem = None THEN 1 ELSE x.mem.mine + 1
----------------------------------------------------------------------------
(* EAP-Archie.  mem: the nonce of this side (mine) and of the other one.   *)

ArchieKey(a, p, secret) == <<"archie", a, p, secret>>

\* The messages.
ArchieRequestMsg       == [step |-> "request"]
ArchieResponseMsg(p, mac)  == [step |-> "response", p |-> p, mac |-> mac]
ArchieConfirmMsg(a, p, mac) == [step |-> "confirm", a |-> a, p |-> p, mac |-> mac]
ArchieFinishMsg(mac)   == [step |-> "finish", mac |-> mac]

\* Without a secret of 64 octets the message is invalid.
ArchieRequest(x, pass) ==
  IF x.rxm.data.step # "request" \/ pass = None
  THEN Event([x EXCEPT !.meth = "Initialize"], "SgInvalidReq")
  ELSE LET p == Nonces(x)
       IN Event([Responds(x, "ResponseSent", "CONT",
                          ArchieResponseMsg(p, Secret(pass)))
                   EXCEPT !.mem = [mine |-> p, other |-> 0, secret |-> Secret(pass)]], "SgValidReq")

\* Mutation: MK() is asked for before the state is DONE, and gives no key.
ArchieConfirmEarlyKey(x) ==
  LET m == x.rxm.data
  IN IF m.step = "confirm" /\ m.mac = x.mem.secret /\ m.p = x.mem.mine
     THEN Event(Decides(Responds(x, "Success", "DONE", ArchieFinishMsg(x.mem.secret)),
                        "UNCOND_SUCC", None), "SgValidReq")
     ELSE Event(x, "SgInvalidReq")

\* MAC2 covers the history, with the nonce of the peer in it.
ArchieConfirm(x) ==
  LET m == x.rxm.data
  IN IF m.step = "confirm" /\ m.mac = x.mem.secret /\ m.p = x.mem.mine
     THEN Event(Decides(Responds(x, "Success", "DONE", ArchieFinishMsg(x.mem.secret)),
                        "UNCOND_SUCC", ArchieKey(m.a, m.p, x.mem.secret)), "SgValidReq")
     ELSE Event(x, "SgInvalidReq")

PeerArchie(x, pass) ==
  CASE x.meth = "Initialize"   -> ArchieRequest(x, pass)
    [] x.meth = "ResponseSent" -> ArchieConfirm(x)
    [] OTHER -> x

\* Any flaw of a response ends the method: the authenticator has no other answer.
ArchieFails(x, meth) == MethodEnds(Fail(x), meth, "ValidResp")

AuthArchieRequest(x) == Asks(x, "RequestSent", ArchieRequestMsg)

AuthArchieConfirm(x) ==
  LET m == x.rxm.data
      a == Nonces(x)
  IN IF m.step = "response" /\ m.mac = "right"
     THEN [Asks(x, "ConfirmSent", ArchieConfirmMsg(a, m.p, "right"))
             EXCEPT !.mem = [mine |-> a, other |-> m.p]]
     ELSE ArchieFails(x, "Initialize")

AuthArchieFinish(x) ==
  IF x.rxm.data.step = "finish" /\ x.rxm.data.mac = "right"
  THEN MethodEnds(Succeed([x EXCEPT !.mkey = ArchieKey(x.mem.mine, x.mem.other, "right")]),
                  "Success", "ValidResp")
  ELSE ArchieFails(x, "ConfirmSent")

AuthArchie(x) ==
  CASE x.meth = "Initialize"  -> AuthArchieRequest(x)
    [] x.meth = "RequestSent" -> AuthArchieConfirm(x)
    [] x.meth = "ConfirmSent" -> AuthArchieFinish(x)
    [] OTHER -> x
----------------------------------------------------------------------------
(* EAP-GPSK.                                                               *)

GpskKey(a, p, secret) == <<"gpsk", a, p, secret>>

\* The messages; who: the identity of the peer.
Gpsk1Msg(a)              == [step |-> "gpsk1", a |-> a]
Gpsk2Msg(a, p, who, mac) == [step |-> "gpsk2", a |-> a, p |-> p, who |-> who, mac |-> mac]
Gpsk3Msg(a, p, mac)      == [step |-> "gpsk3", a |-> a, p |-> p, mac |-> mac]
Gpsk4Msg(mac)            == [step |-> "gpsk4", mac |-> mac]
GpskFailMsg              == [step |-> "fail"]
GpskProtectedFailMsg(mac) == [step |-> "protected", mac |-> mac]

Gpsk1(x, pass) ==
  IF x.rxm.data.step # "gpsk1" THEN Event(x, "SgInvalidReq")
  ELSE LET p == Nonces(x)
           m == Gpsk2Msg(x.rxm.data.a, p, pass, Secret(pass))
       IN Event([Responds(x, "Gpsk2Sent", "CONT", m)
                   EXCEPT !.mem = [mine |-> p, other |-> m.a, secret |-> m.mac]], "SgValidReq")

\* A failure is replayed: the response is built in the Event() that precedes
\* AcNotifyFailure, which sets what this response does not depend on.
GpskReplays(x) ==
  Event(Decides(Responds(x, "Initialize", "DONE", x.rxm.data), "FAIL", None), "SgValidReq")

\* Mutation: a failure is taken for a message that is no GPSK3.
Gpsk3NoFail(x) ==
  LET m == x.rxm.data
  IN IF m.step = "gpsk3" /\ m.p = x.mem.mine /\ m.a = x.mem.other /\ m.mac = x.mem.secret
     THEN Event(Decides(Responds(x, "Success", "DONE", Gpsk4Msg(x.mem.secret)),
                        "UNCOND_SUCC", GpskKey(m.a, m.p, x.mem.secret)), "SgValidReq")
     ELSE Event(x, "SgInvalidReq")

Gpsk3(x) ==
  LET m == x.rxm.data
  IN CASE m.step = "gpsk3" /\ m.p = x.mem.mine /\ m.a = x.mem.other /\ m.mac = x.mem.secret ->
            Event(Decides(Responds(x, "Success", "DONE", Gpsk4Msg(x.mem.secret)),
                          "UNCOND_SUCC", GpskKey(m.a, m.p, x.mem.secret)), "SgValidReq")
       [] m.step = "fail" -> GpskReplays(x)
       [] m.step = "protected" /\ m.mac = x.mem.secret -> GpskReplays(x)
       [] OTHER -> Event(x, "SgInvalidReq")

PeerGpsk(x, pass) ==
  CASE x.meth = "Initialize" -> Gpsk1(x, pass)
    [] x.meth = "Gpsk2Sent"  -> Gpsk3(x)
    [] OTHER -> x

\* The checks of GPSK2 in their order: what is no GPSK2 of this conversation, an
\* identity that is unknown, a wrong MAC, a peer that is not authorized.
AuthGpsk2(x) ==
  LET m == x.rxm.data
  IN CASE m.step # "gpsk2" \/ m.a # x.mem.mine -> Notify(x, "InvalidResp")
       [] m.step = "gpsk2" /\ m.a = x.mem.mine /\ (m.who = "stranger" \/ m.mac # "right") ->
            Asks(x, "GpskFailSent", GpskFailMsg)
       [] m.step = "gpsk2" /\ m.a = x.mem.mine /\ m.who = "barred" /\ m.mac = "right" ->
            Asks(x, "GpskFailSent", GpskProtectedFailMsg("right"))
       [] OTHER -> [Asks(x, "Gpsk3Sent", Gpsk3Msg(m.a, m.p, "right"))
                      EXCEPT !.mem.other = m.p]

AuthGpsk1(x) ==
  LET a == Nonces(x)
  IN [Asks(x, "Gpsk1Sent", Gpsk1Msg(a)) EXCEPT !.mem = [mine |-> a, other |-> 0]]

AuthGpskFailed(x) ==
  IF x.rxm.data.step \in {"fail", "protected"}
  THEN MethodEnds(Fail([x EXCEPT !.mstate = "END"]), "Initialize", "ValidResp")
  ELSE [x EXCEPT !.meth = "Initialize"]

AuthGpsk4(x) ==
  IF x.rxm.data.step = "gpsk4" /\ x.rxm.data.mac = "right"
  THEN MethodEnds(Succeed([x EXCEPT !.mkey = GpskKey(x.mem.mine, x.mem.other, "right")]),
                  "Success", "ValidResp")
  ELSE Notify(x, "InvalidResp")

AuthGpsk(x) ==
  CASE x.meth = "Initialize"   -> AuthGpsk1(x)
    [] x.meth = "Gpsk1Sent"    -> AuthGpsk2(x)
    [] x.meth = "GpskFailSent" -> AuthGpskFailed(x)
    [] x.meth = "Gpsk3Sent"    -> AuthGpsk4(x)
    [] OTHER -> x
=============================================================================
