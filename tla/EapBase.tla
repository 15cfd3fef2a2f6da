------------------------------ MODULE EapBase ------------------------------
(***************************************************************************)
(* What the machines of libeap share: messages, the two ways to give an    *)
(* event to a machine, and the policy of an authenticator.                 *)
(*                                                                         *)
(* A machine is a record that each step transforms.  Notify() appends to   *)
(* q, the queue of events that a job thread serves; Event() is a call in   *)
(* an action, always its last statement: ev holds it until the next step.  *)
(***************************************************************************)
EXTENDS Integers, Sequences

CONSTANT None

Type == {"identity", "notification", "nak", "md5", "alt", "archie", "gpsk", "tls"}
Code == {"request", "response", "success", "failure"}

\* An EAP message.  data: what an MD5 digest is of, besides the identifier that stands
\* for its challenge; the type a Nak asks for; the contents of another method's message.
Eap(code, id, type, data) == [code |-> code, id |-> id, type |-> type, data |-> data]

\* No message is left to send: SetTxMessage(0).
NoMessage == Eap(None, 0, None, None)

Indexed(rows) == [k \in {<<r[1], r[2]>> : r \in rows} |->
                    CHOOSE r \in rows : k = <<r[1], r[2]>>]

\* None is no code or verdict and none of the events that lead to a verdict or to a wait.
ASSUME EapBaseAssumption ==
  None \notin Code \cup {"RxMsg", "To", "UCT", "Dequeue", "Discard2", "Discard3", "SgDiscard",
                        "SgSuccess", "SgAaaSuccess", "SgAaaFailure", "AaaContinue", "AaaSuccess",
                        "AaaFailure", "PolicySat", "PolicyNotSat_EndSess"}

Notify(x, e) == [x EXCEPT !.q = Append(@, e)]
Event(x, e)  == [x EXCEPT !.ev = e]
Stop(x)      == [x EXCEPT !.run = FALSE, !.q = <<>>]
----------------------------------------------------------------------------
\* The policies of the servers that are modelled: the elements by name, with the
\* method of each, and where success and failure of the method lead.  Method
\* alt is one more challenge method, which the peer does not allow.
Policy == [
  plain  |-> [identity |-> <<"md5", "failure">>, md5 |-> <<"success", "failure">>],
  nak    |-> [identity |-> <<"alt", "failure">>, alt |-> <<"success", "md5">>,
              md5 |-> <<"success", "failure">>],
  notify |-> [identity |-> <<"notification", "failure">>,
              notification |-> <<"md5", "failure">>, md5 |-> <<"success", "failure">>],
  pickup |-> [identity |-> <<"success", "failure">>],
  archie |-> [identity |-> <<"archie", "failure">>, archie |-> <<"success", "failure">>],
  gpsk   |-> [identity |-> <<"gpsk", "failure">>, gpsk |-> <<"success", "failure">>],
  tls    |-> [identity |-> <<"tls", "failure">>, tls |-> <<"success", "failure">>]]

Continued(x) == x.at \notin {"success", "failure", None}
Succeed(x) == IF Continued(x) THEN [x EXCEPT !.at = Policy[x.policy][@][1]] ELSE x
Fail(x)    == IF Continued(x) THEN [x EXCEPT !.at = Policy[x.policy][@][2]] ELSE x

\* An authenticator's method has its next request, and has come to its end.
Asks(x, meth, data) ==
  Notify([x EXCEPT !.meth = meth, !.txm = Eap("request", 0, x.cur, data)], "ValidResp")
MethodEnds(x, meth, e) == Notify([x EXCEPT !.meth = meth, !.done = TRUE], e)

\* A peer's method has its next response.
Responds(x, meth, mstate, data) ==
  [x EXCEPT !.meth = meth, !.mstate = mstate, !.txm = Eap("response", 0, x.cur, data)]
=============================================================================
