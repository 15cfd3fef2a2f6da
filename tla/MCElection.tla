---------------------------- MODULE MCElection ----------------------------
(* Small instances of Election. *)
EXTENDS Election

\* "-", ".", "1", "a" and "b": the kinds of octets host names are made of.
HostOctet == {45, 46, 49, 97, 98}
============================================================================
