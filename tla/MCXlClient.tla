----------------------------- MODULE MCXlClient -----------------------------
(***************************************************************************)
(* An instance of XlClient: two hosts that move in a cluster and between   *)
(* clusters.  The names of c1 and NONE, and of both filesystems, are in    *)
(* one hash chain; NONE, the master's cluster for unknown hosts, has       *)
(* interval zero.                                                          *)
(***************************************************************************)
EXTENDS XlClient, TLC

CONSTANTS h1, h2, i0, j0, i1, iN, c0, c1, NONE, s1, s2, f1, f2

MCClusOf == i0 :> c0 @@ j0 :> c0 @@ i1 :> c1 @@ iN :> NONE
MCFsOf == s1 :> f1 @@ s2 :> f1
MCBucket == c0 :> 0 @@ c1 :> 1 @@ NONE :> 1 @@ f1 :> 0 @@ f2 :> 0

MCStatuses ==
  {[mdt |-> 1, ost |-> 1, nid |-> 1, load |-> 2, task |-> 1],
   [mdt |-> 0, ost |-> 2, nid |-> 2, load |-> 1, task |-> 2]}
=============================================================================
