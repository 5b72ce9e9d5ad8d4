------------------------------ MODULE MCKNode ------------------------------
(***************************************************************************)
(* A k_node over several ticks of two units of the clock, with reports of  *)
(* both signs: some that fill a tick and some that leave less than one     *)
(* unit per tick.                                                          *)
(***************************************************************************)
EXTENDS KNode

MCAmounts == {-6, -1, 0, 3, 8}
=============================================================================
