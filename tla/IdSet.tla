------------------------------- MODULE IdSet -------------------------------
(* What an ordered container promises: it holds a set; an insertion adds,  *)
(* a removal takes away, and an answer says whether that was possible.     *)

CONSTANTS Key, None, NoCall
VARIABLES set, call, answer

Init == set = {} /\ call = NoCall /\ answer = None

Calls ==
  /\ call = NoCall
  /\ call' \in [op : {"insert", "find", "remove"}, key : Key]
  /\ answer' = None /\ UNCHANGED set

\* An answer is settled once; the operation may go on a while.
Settles ==
  /\ call # NoCall /\ answer = None
  /\ answer' = IF call.op = "insert" THEN call.key \notin set ELSE call.key \in set
  /\ set' = CASE call.op = "insert" -> set \cup {call.key}
              [] call.op = "remove" -> set \ {call.key}
              [] OTHER -> set
  /\ call' \in {call, NoCall}

Returns == call # NoCall /\ answer # None /\ call' = NoCall /\ UNCHANGED <<set, answer>>

Next == Calls \/ Settles \/ Returns
Spec == Init /\ [][Next]_<<set, call, answer>>
============================================================================
