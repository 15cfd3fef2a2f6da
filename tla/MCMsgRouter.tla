---------------------------- MODULE MCMsgRouter ----------------------------
(* Small instances of MsgRouter.  A request of p1 through a proxy's policy *)
(* and one of our own sessions, both to p2, under the ids 2 and 3 of the   *)
(* router; and one of p1 to our sessions under its own id 2.  Two job      *)
(* threads, which are alike.                                               *)
EXTENDS MsgRouter, TLC
CONSTANTS p1, p2, r1, r2, r3, t1, t2

MCSource  == r1 :> p1 @@ r2 :> p1 @@ r3 :> Us
MCOwnHh   == r1 :> 1  @@ r2 :> 2  @@ r3 :> 1
MCHost    == r1 :> None @@ r2 :> Us @@ r3 :> None
MCServers == r1 :> <<p2>> @@ r2 :> <<>> @@ r3 :> <<p2>>
MCAction  == r1 :> "proxy" @@ r2 :> "relay" @@ r3 :> "relay"
Symmetry  == Permutations(JobThread)
============================================================================
