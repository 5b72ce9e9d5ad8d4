----------------------------- MODULE MCBotzConn -----------------------------
(***************************************************************************)
(* An instance of BotzConn with streams that pipeline requests, have a     *)
(* body that looks like requests, expect a "100 Continue" once or twice,   *)
(* ask to close, are malformed, have header lines of no meaning to botz,   *)
(* or do not fit the buffer.                                               *)
(***************************************************************************)
EXTENDS BotzAnswers, TLC

CONSTANTS get, put

MCAnswer == get :> [status |-> 200, len |-> 2] @@ put :> [status |-> 404, len |-> 0]

Get == <<get, NL, NL>>
MCStreams ==
  {Get \o <<NL, get, NL, CloseLine, NL, NL>> \o Get,
   <<put, NL, 4, NL, ExpectLine, NL, NL>> \o <<get, NL, NL, get>> \o Get,
   <<put, NL, 1, NL, 2, NL, NL, NL, NL>> \o Get,
   Get \o <<put, put, NL>> \o Get,
   <<OtherMethod, NL, NL>> \o Get,
   <<get, NL, put, 2, NL, put, CloseLine, NL, NL>> \o <<OtherMethod, put, NL>>,
   Get \o <<put, NL, 6, NL, NL>> \o Get \o Get,
   <<put, NL, ExpectLine, NL, NL>> \o <<put, NL, ExpectLine, NL, 1, NL, NL>> \o Get,
   <<put, NL, ExpectLine, NL, ExpectLine, NL, NL>> \o Get}

(* As long as the connection lives, every unit of every answer owed        *)
(* reaches the client; no stream is owed more than MaxUnits.               *)
MaxUnits == 7
EveryoneAnswered ==
  \A n \in 1..MaxUnits :
    Len(Asked) >= n ~> ~conn.open \/ Len(Told) >= n
=============================================================================
