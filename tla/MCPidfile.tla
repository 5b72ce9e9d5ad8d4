----------------------------- MODULE MCPidfile -----------------------------
(***************************************************************************)
(* Three instances; four files are enough for one to be at the path while  *)
(* each instance has another open.                                         *)
(***************************************************************************)
EXTENDS Pidfile, TLC

Symmetry == Permutations(Procs) \cup Permutations(Inodes)
=============================================================================
