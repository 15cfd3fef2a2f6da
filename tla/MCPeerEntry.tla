---------------------------- MODULE MCPeerEntry ----------------------------
(* Small instances of PeerEntry. *)
EXTENDS PeerEntry, TLC

\* The connections are interchangeable.
Symmetry == Permutations(Conn)
============================================================================
