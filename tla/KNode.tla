------------------------------- MODULE KNode -------------------------------
(***************************************************************************)
(* The rate of a k_node (x_node.c).  Nothing happens to a k_node when a    *)
(* tick ends: k_freshen makes up for all ticks that have gone by when the  *)
(* k_node is next updated or read.                                         *)
(*                                                                         *)
(* One of the NR_STATS is modelled, in whole numbers, with k_window such   *)
(* that exp(-k_tick / k_window) is 1/2.  What is reported may be negative: *)
(* xltop-servd sends differences of counters, and counters are reset.  The *)
(* clock is ev_now, assumed not to go back.  The names of the              *)
(* specification carry Rate, so that KNodeProofs has it beside KHeap's.    *)
(***************************************************************************)
EXTENDS Integers

CONSTANTS
  Tick,     \* k_tick, in units of the clock
  Amounts,  \* what an update may bring
  Start,    \* the time at which the k_node is made
  MaxNow, MaxSum  \* bounds on the clock and on what was reported of each sign

ASSUME TimeAssumption ==
  /\ Tick \in Nat \ {0} /\ Start \in Nat \ {0} /\ MaxSum \in Nat
  /\ MaxNow \in Nat /\ Start <= MaxNow
  /\ Amounts \subseteq Int

VARIABLES
  now,  \* ev_now
  knode,  \* the k_node
  gained  \* history: the sum of the positive reports, read by no action

rateVars == <<now, knode, gained>>

Missed == (now - knode.t) \div Tick

(* Whole numbers are rounded toward zero, as a decaying double goes there. *)
Div(a, b) == IF a >= 0 THEN a \div b ELSE -((-a) \div b)

(* The first of the ticks that were missed brings k_pending into k_rate.   *)
Mix(x, r) == IF x <= 0 THEN r ELSE Div(x + r, 2)

(* exp(n * k_tick / k_window), as a function that proofs can unfold.       *)
Pow2[n \in Nat] == IF n = 0 THEN 1 ELSE 2 * Pow2[n - 1]

(* The others find nothing pending. *)
Decay(x, n) == Div(x, Pow2[n - 1])

FreshenFromNow ==
  IF knode.t <= 0 THEN [knode EXCEPT !.t = now]
  ELSE IF Missed > 0 THEN [knode EXCEPT !.t = now, !.pending = 0,
                                !.rate = Decay(Mix(@, Div(knode.pending, Tick)), Missed)]
  ELSE knode

FreshenNotPerTick ==
  IF knode.t <= 0 THEN [knode EXCEPT !.t = now]
  ELSE IF Missed > 0 THEN [knode EXCEPT !.t = @ + Missed * Tick, !.pending = 0,
                                !.rate = Decay(Mix(@, knode.pending), Missed)]
  ELSE knode

(* k_freshen.  k_t is zero in a new k_node; afterwards it is the end of a  *)
(* tick, so that ticks are counted from the first time it was looked at.   *)
Freshen ==
  IF knode.t <= 0 THEN [knode EXCEPT !.t = now]
  ELSE IF Missed > 0 THEN [knode EXCEPT !.t = @ + Missed * Tick, !.pending = 0,
                                !.rate = Decay(Mix(@, Div(knode.pending, Tick)), Missed)]
  ELSE knode

Time ==
  /\ now < MaxNow
  /\ now' = now + 1
  /\ UNCHANGED <<knode, gained>>

(* What was taken off k_sum by negative reports. *)
Lost == gained - knode.sum

(* k_update. *)
Update(d) ==
  /\ IF d >= 0 THEN gained + d <= MaxSum ELSE Lost - d <= MaxSum
  /\ knode' = [Freshen EXCEPT !.pending = @ + d, !.sum = @ + d]
  /\ gained' = IF d >= 0 THEN gained + d ELSE gained
  /\ UNCHANGED now

(* k_heap_top or serv_get_r prints it. *)
Query == knode' = Freshen /\ UNCHANGED <<now, gained>>

RateInit ==
  /\ now = Start
  /\ knode = [t |-> 0, rate |-> 0, pending |-> 0, sum |-> 0]
  /\ gained = 0

RateNext == Time \/ (\E d \in Amounts : Update(d)) \/ Query

RateSpec == RateInit /\ [][RateNext]_rateVars

-----------------------------------------------------------------------------
(* k_t is never in the future, and k_sum and k_pending are no more than    *)
(* what was reported, of either sign.                                      *)
RateTypeOK ==
  /\ now \in Start..MaxNow /\ gained \in 0..MaxSum /\ Lost \in 0..MaxSum
  /\ knode \in [t: 0..now, rate: Int, pending: -Lost..gained, sum: -Lost..gained]

(* What a reader sees at this moment. *)
Seen == IF knode.t <= 0 THEN knode ELSE Freshen

Phase == IF knode.t <= 0 THEN -1 ELSE knode.t % Tick

(* No tick has ended since k_freshen was last called. *)
Looked == knode.t > 0 /\ Missed = 0

Ticker == INSTANCE KTicker WITH
  phase <- Phase, looked <- Looked, rate <- Seen.rate,
  pending <- Seen.pending, sum <- knode.sum

(* What a reader sees is what it would be if each tick were taken up as it *)
(* ends, by a clock that asks who looked only where KTicker says so: while *)
(* a rate is negative.  A rate that is not negative does not depend on how *)
(* rarely or often k_freshen is called.                                    *)
ImplementsTicker == Ticker!Spec

(* The rate is an average of what was reported, so it never exceeds all    *)
(* that was gained put into a single tick, nor falls below all that was    *)
(* lost: no report is applied twice, whatever came before and after it.    *)
RateIsAverage == Seen.rate * Tick \in -Lost..gained
=============================================================================
