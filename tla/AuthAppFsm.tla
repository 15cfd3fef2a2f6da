----------------------------- MODULE AuthAppFsm -----------------------------
(***************************************************************************)
(* The machines of the authorization applications: DiameterEapClient- and  *)
(* ServerStateMachine (libdiametereap), DiameterNasreqClient- and          *)
(* ServerStateMachine (libdiameternasreq), with what the applications in   *)
(* their test directories, nasd and aaad do when they are called back.     *)
(*                                                                         *)
(* The NASREQ tables are the EAP tables under other names.  Names here:    *)
(*   RxUser      EvRxEapResponse, EvRxAuthInfo                             *)
(*   RxAnswer    EvRxDEA, EvRxAA_Answer                                    *)
(*   RxRequest   EvRxDER, EvRxAA_Request                                   *)
(*   Backend...  EvRxEapRequest, ...Success, ...Failure, EvRxAuth...       *)
(* A machine is a record that each event transforms.                       *)
(***************************************************************************)
EXTENDS Integers, Sequences

CONSTANTS None

Kinds == {"eap", "nasreq", "daemon"}

\* What does not change: the application; whether the server knows the user's name,
\* the client finds a realm in it, and it asks for authentication only.
Config == {f \in [kind : Kinds, valid : BOOLEAN, realm : BOOLEAN, only : BOOLEAN] :
             /\ f.kind = "daemon" => f.valid /\ ~f.only
             /\ f.kind # "daemon" => f.realm
             /\ f.kind = "nasreq" => ~f.only}

\* The states and the events of the machines of both sides.
State == {"Initialize", "WaitDEA", "WaitEapResponse", "WaitDER", "WaitEapMsg", "WaitAA_Answer",
          "WaitAA_Request", "WaitAuthInfo", "CheckResultCode", "CheckRequest",
          "WaitAuthorization", "Accepted", "Rejected", "Terminated"}
Results == {"Success", "Failure", "Continue", "LimitedSuccess"}
Event == Results \cup
  {"RxUser", "RxAnswer", "RxRequest", "Valid", "Invalid", "Disconnect", "Timeout",
   "SessionTimeout", "AuthGracePeriodTimeout", "AuthLifetimeTimeout", "BackendContinue",
   "BackendSuccess", "BackendFailure", "AuthorizationSuccess", "AuthorizationFailure"}

\* An EAP message, or what the user is authenticated by; the messages of both sides;
\* what an application is called back with.
Pay      == Nat \cup {None}
Requests == [pay : Pay]
Answers  == [res : {"SUCCESS", "MULTI_ROUND", "AUTHENTICATION_REJECTED",
                    "AUTHORIZATION_REJECTED", "INVALID_AVP_VALUE"}, pay : Pay]
Verdict  == {"success", "failure"}
Calls    == (Verdict \cup {"continue", "reauthenticate", "disconnect", "response"}) \X Pay

ASSUME AuthAppFsmAssumption ==
  None \notin Nat \cup Event \cup Verdict \cup Requests \cup Answers \cup Calls

Indexed(rows) == [k \in {<<r[1], r[2]>> : r \in rows} |->
                    CHOOSE r \in rows : k = <<r[1], r[2]>>]

ClientRows(wait, more) == {
  <<"Initialize", "RxUser",     wait,         "SendRequest">>,
  <<"Initialize", "Disconnect", "Terminated", "nothing">>,
  <<"Initialize", "*",          "Initialize", "nothing">>,
  <<wait, "RxAnswer",   "CheckResultCode", "CheckResultCode">>,
  <<wait, "Disconnect", "Terminated",      "nothing">>,
  <<wait, "*",          "Terminated",      "nothing">>,
  <<"CheckResultCode", "Success",  "Accepted", "AccessAccept">>,
  <<"CheckResultCode", "Failure",  "Rejected", "AccessReject">>,
  <<"CheckResultCode", "Continue", more,       "Continue">>,
  <<more, "RxUser",     wait,         "SendRequest">>,
  <<more, "Disconnect", "Terminated", "nothing">>,
  <<more, "*",          "Terminated", "nothing">>}

\* Mutation: an accepted session that is disconnected ends in silence.
ClientEndRowsSilent == {
  <<"Accepted", "Disconnect",     "Terminated", "nothing">>,
  <<"Accepted", "SessionTimeout", "Terminated", "Disconnect">>,
  <<"Accepted", "AuthGracePeriodTimeout", "Terminated", "Disconnect">>,
  <<"Accepted", "AuthLifetimeTimeout",    "Initialize", "Reauthenticate">>,
  <<"Accepted",   "*", "Accepted",   "nothing">>,
  <<"Rejected",   "*", "Terminated", "nothing">>,
  <<"Terminated", "*", "Terminated", "nothing">>}

ClientEndRows == {
  <<"Accepted", "Disconnect",     "Terminated", "Disconnect">>,
  <<"Accepted", "SessionTimeout", "Terminated", "Disconnect">>,
  <<"Accepted", "AuthGracePeriodTimeout", "Terminated", "Disconnect">>,
  <<"Accepted", "AuthLifetimeTimeout",    "Initialize", "Reauthenticate">>,
  <<"Accepted",   "*", "Accepted",   "nothing">>,
  <<"Rejected",   "*", "Terminated", "nothing">>,
  <<"Terminated", "*", "Terminated", "nothing">>}

\* EAP only: an authentication without authorization asks for the latter, and nothing
\* in the library makes the event that ends WaitAA_Answer.
EapLimitedRows == {
  <<"CheckResultCode", "LimitedSuccess", "WaitAA_Answer", "nothing">>}

\* Mutation: who fails the authentication goes on to the authorization.
ServerRowsLenient(wait, more) == {
  <<"Initialize", "RxRequest", "CheckRequest", "CheckRequest">>,
  <<"Initialize", "*",         "Terminated",   "nothing">>,
  <<"CheckRequest", "Valid",   more,       "Forward">>,
  <<"CheckRequest", "Invalid", "Rejected", "AnswerInvalid">>,
  <<wait, "RxRequest", "CheckRequest", "CheckRequest">>,
  <<wait, "*",         "Terminated",   "nothing">>,
  <<more, "BackendContinue", wait,                "AnswerContinue">>,
  <<more, "BackendSuccess",  "WaitAuthorization", "Authorize">>,
  <<more, "BackendFailure",  "WaitAuthorization", "Authorize">>,
  <<more, "*",               "Terminated",        "nothing">>}

ServerRows(wait, more) == {
  <<"Initialize", "RxRequest", "CheckRequest", "CheckRequest">>,
  <<"Initialize", "*",         "Terminated",   "nothing">>,
  <<"CheckRequest", "Valid",   more,       "Forward">>,
  <<"CheckRequest", "Invalid", "Rejected", "AnswerInvalid">>,
  <<wait, "RxRequest", "CheckRequest", "CheckRequest">>,
  <<wait, "*",         "Terminated",   "nothing">>,
  <<more, "BackendContinue", wait,                "AnswerContinue">>,
  <<more, "BackendSuccess",  "WaitAuthorization", "Authorize">>,
  <<more, "BackendFailure",  "Rejected",          "AnswerFailure">>,
  <<more, "*",               "Terminated",        "nothing">>}

ServerEndRows == {
  <<"WaitAuthorization", "AuthorizationSuccess", "Accepted",   "AnswerSuccess">>,
  <<"WaitAuthorization", "AuthorizationFailure", "Rejected",   "AnswerUnauthorized">>,
  <<"WaitAuthorization", "*",                    "Terminated", "nothing">>,
  <<"Accepted",   "RxRequest", "CheckRequest", "CheckRequest">>,
  <<"Accepted",   "*",         "Terminated",   "nothing">>,
  <<"Rejected",   "*",         "Rejected",     "nothing">>,
  <<"Terminated", "*",         "Terminated",   "nothing">>}

ClientTable == [k \in Kinds |->
  IF k = "nasreq" THEN Indexed(ClientRows("WaitAA_Answer", "WaitAuthInfo") \cup ClientEndRows)
  ELSE Indexed(ClientRows("WaitDEA", "WaitEapResponse") \cup ClientEndRows \cup EapLimitedRows)]
ServerTable == [k \in Kinds |->
  IF k = "nasreq" THEN Indexed(ServerRows("WaitAA_Request", "WaitAuthInfo") \cup ServerEndRows)
  ELSE Indexed(ServerRows("WaitDER", "WaitEapMsg") \cup ServerEndRows)]

ASSUME AuthAppRows ==
  \A k \in Kinds : \A x \in DOMAIN ClientTable[k] : ClientTable[k][x] # None
----------------------------------------------------------------------------
(* q: the events queued; hand: the events job threads have taken; msg: the *)
(* message of the other side parsed last; last: m_LastEvent; low: the      *)
(* session below; ret: its callback still has to return; out: sent in this *)
(* step; next: the event an action raises in its own thread; told: what    *)
(* the application is called back with.                                    *)
(* Of the client: pay, the payload of its next request.  Of the server:    *)
(* pay, the payload of its next answer; done: authorizationDone; chosen:   *)
(* authenticationInfo is set.                                              *)

\* Mutation: the session below hears "continue" until the first verdict.
MachineUnsure ==
  [st |-> "Initialize", run |-> TRUE, q |-> <<>>, hand |-> <<>>, msg |-> None,
   last |-> "CONTINUE", low |-> "pending", ret |-> FALSE, out |-> <<>>, next |-> None,
   told |-> None, pay |-> None, done |-> FALSE, chosen |-> FALSE]

Machine ==
  [st |-> "Initialize", run |-> TRUE, q |-> <<>>, hand |-> <<>>, msg |-> None,
   last |-> "SUCCESS", low |-> "pending", ret |-> FALSE, out |-> <<>>, next |-> None,
   told |-> None, pay |-> None, done |-> FALSE, chosen |-> FALSE]

Notify(x, e)   == [x EXCEPT !.q = Append(@, e)]
Raise(x, e)    == [x EXCEPT !.next = e]
Tell(x, what)  == [x EXCEPT !.told = what]
Update(x, v)   == [x EXCEPT !.last = v]
Stop(x)        == [x EXCEPT !.run = FALSE]

\* Send() of the session below: nothing leaves a session that ends or has ended.
Up(x)      == x.low \in {"pending", "open"}
Send(x, m) == IF Up(x) THEN [x EXCEPT !.out = Append(@, m)] ELSE x

\* FindStateTableEntry(): the row of the event, or else the wildcard of the state.
Row(table, st, e) == IF <<st, e>> \in DOMAIN table THEN table[st, e]
                     ELSE IF <<st, "*">> \in DOMAIN table THEN table[st, "*"] ELSE None

Without(seq, i) == SubSeq(seq, 1, i - 1) \o SubSeq(seq, i + 1, Len(seq))

\* Event(): the machine as the action of the row finds it, and that action.  The next
\* state is entered first; an event that has no row or comes after Stop() is lost.
Fire(x, table, i) ==
  LET row == Row(table, x.st, x.hand[i])
      y   == [x EXCEPT !.hand = Without(@, i)]
  IN IF ~x.run \/ row = None THEN [x |-> y, do |-> "nothing"]
     ELSE [x |-> [y EXCEPT !.st = row[3]], do |-> row[4]]

\* What the action raises, its own thread handles next.
Raised(x) == IF x.next = None THEN x
             ELSE [x EXCEPT !.hand = Append(@, x.next), !.next = None]
----------------------------------------------------------------------------
(* The actions of the client.                                              *)

Request(pay)     == [pay |-> pay]
Answer(res, pay) == [res |-> res, pay |-> pay]

\* Mutation: an answer that asks for more counts as a success.
DEA_ResultAny(f, res) ==
  IF res \in {"SUCCESS", "MULTI_ROUND"} THEN IF f.only THEN "LimitedSuccess" ELSE "Success"
  ELSE "Failure"

DEA_Result(f, res) ==
  CASE res = "SUCCESS"     -> IF f.only THEN "LimitedSuccess" ELSE "Success"
    [] res = "MULTI_ROUND" -> "Continue"
    [] OTHER -> "Failure"

\* Another round is for ARAP, whose AVPs no client sets.
AA_Result(res) == IF res = "SUCCESS" THEN "Success" ELSE "Failure"

\* The application of NASREQ stops the machine when it hears the verdict.
Stops(f, x) == IF f.kind = "nasreq" THEN Stop(x) ELSE x

Accepts(f, x) == Update(Tell(Stops(f, x), <<"success", x.msg.pay>>), "SUCCESS")
Rejects(f, x) == Update(Tell(Stops(f, x), <<"failure", x.msg.pay>>), "FAILED")

\* Without a realm nothing is sent, and the machine disconnects itself.
SendsRequest(f, x) == IF f.realm THEN Send(x, Request(x.pay)) ELSE Raise(x, "Disconnect")

ClientDo(f, x, do) ==
  {CASE do = "SendRequest"     -> SendsRequest(f, x)
     [] do = "CheckResultCode" -> Raise(x, IF f.kind = "nasreq" THEN AA_Result(x.msg.res)
                                           ELSE DEA_Result(f, x.msg.res))
     [] do = "AccessAccept"    -> Accepts(f, x)
     [] do = "AccessReject"    -> Rejects(f, x)
     [] do = "Continue"        -> Tell(x, <<"continue", x.msg.pay>>)
     [] do = "Reauthenticate"  -> Tell(x, <<"reauthenticate", None>>)
     [] do = "Disconnect"      -> Tell(x, <<"disconnect", None>>)
     [] OTHER -> x}
----------------------------------------------------------------------------
(* The actions of the server.                                              *)

\* The user must be known; PAP and CHAP come once.
CheckDER(f) == f.valid
CheckAA_Request(f, x) == f.valid /\ ~x.chosen

\* The authenticator of EAP runs in threads of its own; the one of NASREQ judges at once.
Forwards(f, x) ==
  IF f.kind = "nasreq" THEN {Notify(Tell(x, <<"success", None>>), "BackendSuccess"),
                             Notify(Tell(x, <<"failure", None>>), "BackendFailure")}
  ELSE {Tell(x, <<"response", x.msg.pay>>)}

\* AuthorizationDone() || Authorize(); one of the functions that this calls may say no,
\* of which aaad redefines none.
MayDeny(f, x) == ~x.done /\ ~f.only /\ f.kind # "daemon"
Authorize(f, x) ==
  {Raise([x EXCEPT !.done = @ \/ ~f.only], "AuthorizationSuccess")}
  \cup (IF MayDeny(f, x) THEN {Raise(x, "AuthorizationFailure")} ELSE {})

ServerAnswers(f, x, do) ==
  CASE do = "AnswerContinue" -> IF f.kind = "nasreq" THEN Stop(x)
                                ELSE Update(Send(x, Answer("MULTI_ROUND", x.pay)), "CONTINUE")
    [] do = "AnswerSuccess"  -> Update(Send(x, Answer("SUCCESS", x.pay)), "SUCCESS")
    [] do = "AnswerFailure"  -> Update(Send(x, Answer("AUTHENTICATION_REJECTED", x.pay)), "FAILED")
    [] do = "AnswerUnauthorized" -> Update(Send(x, Answer("AUTHORIZATION_REJECTED", None)), "FAILED")
    [] do = "AnswerInvalid"  -> Send(Update(x, "CONTINUE"), Answer("INVALID_AVP_VALUE", x.pay))

ServerDo(f, x, do) ==
  CASE do = "CheckRequest" ->
         {IF IF f.kind = "nasreq" THEN CheckAA_Request(f, x) ELSE CheckDER(f)
          THEN Raise([x EXCEPT !.chosen = f.kind = "nasreq"], "Valid")
          ELSE Raise(x, "Invalid")}
    [] do = "Forward"   -> Forwards(f, x)
    [] do = "Authorize" -> Authorize(f, x)
    [] do = "nothing"   -> {x}
    [] OTHER -> {ServerAnswers(f, x, do)}
=============================================================================
