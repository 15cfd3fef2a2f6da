---------------------------- MODULE MCSessionDb ----------------------------
(* An instance of SessionDb: ids of different nodes, without the optional  *)
(* value of a Session-Id.                                                  *)
EXTENDS SessionDb
Plain   == {[name |-> n, opt |-> 0] : n \in 1 .. 8}
============================================================================
