------------------------------ MODULE MCScreen ------------------------------
(***************************************************************************)
(* A screen of one filesystem, whose terminal is too small for any row,    *)
(* just right for one or has room for two, and lists of up to three rows.  *)
(***************************************************************************)
EXTENDS Screen
=============================================================================
