------------------------------ MODULE Outbox ------------------------------
(***************************************************************************)
(* What the callers of DiameterTxMsgCollector::Send rely on: a message is  *)
(* taken at once, messages leave in the order in which they were taken,    *)
(* each of them once, and none that was not taken.                         *)
(***************************************************************************)
EXTENDS Sequences

CONSTANT Sender   \* threads that send; a message is named by its sender

VARIABLES
  pending,   \* messages taken and not yet sent
  last       \* the message sent last

Init == pending = <<>> /\ last \in Sender

Take(s) == pending' = Append(pending, s) /\ UNCHANGED last

Transmit ==
  /\ pending # <<>>
  /\ last' = Head(pending)
  /\ pending' = Tail(pending)

Next == Transmit \/ \E s \in Sender : Take(s)

Spec == Init /\ [][Next]_<<pending, last>>
============================================================================
