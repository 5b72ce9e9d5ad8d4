---------------------------- MODULE BotzSession ----------------------------
(***************************************************************************)
(* What a client of the botz server sees of one connection: it asks, and   *)
(* is told the answers in the order it asked, each unit of them once and   *)
(* nothing else.  BotzConn implements it.                                  *)
(***************************************************************************)
EXTENDS Sequences, SequencesExt

VARIABLES
  asked,  \* the units of the answers owed to the requests seen so far
  told    \* the units the client has received

vars == <<asked, told>>

Init == asked = <<>> /\ told = <<>>

Ask ==
  /\ IsStrictPrefix(asked, asked')
  /\ UNCHANGED told

Tell ==
  /\ IsStrictPrefix(told, told')
  /\ IsPrefix(told', asked)
  /\ UNCHANGED asked

(* A request that arrives while an earlier answer is under way: it is not  *)
(* answered in the same step.                                              *)
AskAndTell ==
  /\ IsStrictPrefix(asked, asked')
  /\ IsStrictPrefix(told, told')
  /\ IsPrefix(told', asked)

Next == Ask \/ Tell \/ AskAndTell

Spec == Init /\ [][Next]_vars
=============================================================================
