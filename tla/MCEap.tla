------------------------------- MODULE MCEap -------------------------------
(* The bounds on faults for TLC: two where messages are few, else one. *)
EXTENDS Eap

MCMaxFaults == [m \in Methods |-> IF m \in {"gpsk", "tls"} THEN 1 ELSE 2]
=============================================================================
