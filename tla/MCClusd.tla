------------------------------ MODULE MCClusd ------------------------------
(***************************************************************************)
(* Inputs of up to MaxLines lines over two hosts and two jobs.             *)
(***************************************************************************)
EXTENDS Clusd
=============================================================================
