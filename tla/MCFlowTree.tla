----------------------------- MODULE MCFlowTree -----------------------------
(***************************************************************************)
(* An instance of FlowTree: the cluster c1 and the default cluster c0 with *)
(* their idle jobs, two servers on different lnets, a host h1 that the     *)
(* configuration knows and a host h2 that is only found by the text of its *)
(* nid, which two nids of the second lnet share.                           *)
(***************************************************************************)
EXTENDS TopWalk, TLC

CONSTANTS h1, h2, i0, i1, j1, c0, c1, s1, s2, f1, f2, l1, l2, n1, n2, NONE, ann

MCFsOf == s1 :> f1 @@ s2 :> f1
MCIdleJob == c0 :> i0 @@ c1 :> i1
MCClusOf == h1 :> c1 @@ h2 :> c0
MCLnetOf == s1 :> l1 @@ s2 :> l2
MCLnetFile == l1 :> (n1 :> h1 @@ n2 :> NoNode) @@ l2 :> (n1 :> NoNode @@ n2 :> NoNode)
MCNidName == n1 :> h2 @@ n2 :> h2

MCOwnerOf == i0 :> NONE @@ i1 :> NONE @@ j1 :> ann
=============================================================================
