------------------------------- MODULE MCServd -------------------------------
(***************************************************************************)
(* Instances of Servd with two targets that come and go; a nid may have an *)
(* export on each of them.                                                 *)
(***************************************************************************)
EXTENDS Servd

CONSTANTS t1, t2, n1

(* The default of servd, and the second of two servers of a filesystem     *)
(* with the interval 300; the master may be configured with either.        *)
MCSchedules == {<<120, 0>>, <<300, 150>>}
MCOwnSchedule == <<120, 0>>
=============================================================================
