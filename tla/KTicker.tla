------------------------------ MODULE KTicker ------------------------------
(***************************************************************************)
(* What the numbers of a k_node mean: at the end of every tick since it    *)
(* was made, the traffic of that tick is mixed into the rate, a tick       *)
(* without traffic included.  A negative rate is an exception: after a     *)
(* tick in which nobody looked it is halved, after one in which somebody   *)
(* looked the traffic of the tick takes its place.                         *)
(***************************************************************************)
EXTENDS Integers

CONSTANTS
  Tick,    \* k_tick, in units of the clock
  Amounts  \* what an update may bring

Unseen == -1

VARIABLES
  now,
  phase,  \* when ticks end, modulo Tick; Unseen before the first look
  looked,  \* was it updated or read since the last tick ended
  rate, pending, sum

vars == <<now, phase, looked, rate, pending, sum>>

Div(a, b) == IF a >= 0 THEN a \div b ELSE -((-a) \div b)

(* The rate after a tick with r per unit of time; k_window is such that a  *)
(* rate is halved by a tick without traffic.                               *)
Mix(x, r) == IF x <= 0 THEN r ELSE Div(x + r, 2)

Init ==
  /\ now \in Nat \ {0} /\ phase = Unseen /\ looked = FALSE
  /\ rate = 0 /\ pending = 0 /\ sum = 0

TickEnds ==
  /\ rate' = IF rate < 0 /\ ~looked THEN Div(rate, 2) ELSE Mix(rate, Div(pending, Tick))
  /\ pending' = 0 /\ looked' = FALSE

Time ==
  /\ now' = now + 1
  /\ IF now' % Tick = phase THEN TickEnds ELSE UNCHANGED <<looked, rate, pending>>
  /\ UNCHANGED <<phase, sum>>

(* The first look starts the ticks. *)
Look ==
  /\ phase' = IF phase = Unseen THEN now % Tick ELSE phase
  /\ looked' = TRUE

Update(d) ==
  /\ Look
  /\ pending' = pending + d /\ sum' = sum + d
  /\ UNCHANGED <<now, rate>>

Query == Look /\ UNCHANGED <<now, rate, pending, sum>>

Next == Time \/ (\E d \in Amounts : Update(d)) \/ Query

Spec == Init /\ [][Next]_vars
=============================================================================
