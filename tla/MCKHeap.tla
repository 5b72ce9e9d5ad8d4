------------------------------- MODULE MCKHeap -------------------------------
(***************************************************************************)
(* A heap of four, more k_nodes than it holds, two pairs of which compare  *)
(* equal.                                                                  *)
(***************************************************************************)
EXTENDS KHeap, TLC

CONSTANTS k1, k2, k3, k4, k5, k6, k7

MCRank == k1 :> 1 @@ k2 :> 2 @@ k3 :> 2 @@ k4 :> 3 @@ k5 :> 4 @@ k6 :> 5 @@ k7 :> 5
=============================================================================
