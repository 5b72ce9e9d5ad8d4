---------------------------- MODULE ScreenProofs ----------------------------
(***************************************************************************)
(* Theorems about the screen of the client, for lists of any length,       *)
(* terminals of any height and any number of keys, signals and failures.   *)
(***************************************************************************)
EXTENDS Screen, TLAPS

(* What the arithmetic of the window needs to be told of the variables.    *)
ScreenType ==
  /\ pending \subseteq Watchers /\ running \in BOOLEAN
  /\ length \in Nat /\ start \in Nat /\ delta \in Int /\ lines \in Sizes

(* What ScreenCurrent says whenever the loop sleeps, the window being one  *)
(* that screen_refresh_cb may choose.                                      *)
Drawn ==
  /\ start <= Greater(length - Rows, 0) /\ delta = 0
  /\ screen.first = start
  /\ screen.last = Greater(start, Lesser(length, start + Rows))
  /\ screen.reply = from /\ screen.lines = lines /\ screen.bar = bar

(* As long as no refresh is asked for, and the loop is not being left, the *)
(* terminal is up to date, whatever else is pending.                       *)
RefreshAskedFor == running /\ "refresh" \notin pending => Drawn

ScreenInv == ScreenType /\ RowsLive /\ RefreshAskedFor

LEMMA ScreenNumbers ==
  ASSUME ScreenType
  PROVE  /\ Rows \in Int /\ lines \in Nat
         /\ Far \in Nat /\ Header \in Nat /\ MaxLength \in Nat
BY ScreenAssumption DEF ScreenType, Rows

(* screen_refresh_cb keeps the window between the ends of the list.        *)
LEMMA NewStartInList ==
  ASSUME ScreenType
  PROVE  NewStart \in Nat /\ NewStart <= Greater(length - Rows, 0)
BY ScreenNumbers DEF ScreenType, NewStart, Greater, Lesser

(* A window that does not start below length - Rows is full.               *)
LEMMA DrawnIsFull ==
  ASSUME ScreenType, Drawn, Rows >= 0
  PROVE  screen.last - screen.first = Lesser(length, Rows)
BY ScreenNumbers DEF ScreenType, Drawn, Greater, Lesser

-----------------------------------------------------------------------------
LEMMA InitScreen == Init => ScreenInv
BY ScreenAssumption
DEF Init, ScreenInv, ScreenType, RowsLive, RefreshAskedFor, Watchers

(* Waking up changes what is pending and the time. *)
LEMMA WakeKeepsScreen ==
  ASSUME ScreenInv, Wake
  PROVE  ScreenInv'
<1>1. /\ "refresh" \notin pending /\ pending' \subseteq Watchers
      /\ UNCHANGED <<length, from, buf, start, delta, lines, bar, screen, running>>
  BY DEF Wake
<1>2. ScreenType' /\ RowsLive'
  BY <1>1 DEF ScreenInv, ScreenType, RowsLive
<1>3. RefreshAskedFor'
  BY <1>1 DEF ScreenInv, RefreshAskedFor, Drawn, Rows
<1>4. QED
  BY <1>2, <1>3 DEF ScreenInv

(* A callback that touches neither the list nor the screen, and that asks  *)
(* for a refresh, leaves the loop or changes nothing that is drawn.        *)
LEMMA AskingKeepsScreen ==
  ASSUME ScreenInv, ScreenType', UNCHANGED <<length, from, buf, start, screen>>,
         \/ "refresh" \in pending' \/ running' = FALSE
         \/ /\ pending \ pending' \subseteq Watchers \ {"refresh"}
            /\ UNCHANGED <<delta, lines, bar, running>>
  PROVE  ScreenInv'
<1>1. RowsLive'
  BY DEF ScreenInv, RowsLive
<1>2. RefreshAskedFor'
  <2>1. CASE "refresh" \in pending' \/ running' = FALSE
    BY <2>1 DEF RefreshAskedFor
  <2>2. CASE /\ pending \ pending' \subseteq Watchers \ {"refresh"}
             /\ UNCHANGED <<delta, lines, bar, running>>
    <3>1. Rows' = Rows
      BY <2>2 DEF Rows
    <3>2. Drawn => Drawn'
      BY <2>2, <3>1 DEF Drawn
    <3>3. "refresh" \in pending => "refresh" \in pending'
      BY <2>2
    <3>4. QED
      BY <2>2, <3>2, <3>3 DEF ScreenInv, RefreshAskedFor
  <2>3. QED
    BY <2>1, <2>2
<1>3. QED
  BY <1>1, <1>2 DEF ScreenInv

(* Keys *)
LEMMA StdinKeepsScreen ==
  ASSUME ScreenInv, StdinIoCb
  PROVE  ScreenInv'
<1>1. UNCHANGED <<length, from, buf, start, lines, screen>>
  BY DEF StdinIoCb
<1>2. /\ delta' \in Int
      /\ pending' \subseteq Watchers /\ running' \in BOOLEAN
      /\ \/ "refresh" \in pending' \/ running' = FALSE
         \/ pending' = pending \ {"stdin"} /\ UNCHANGED <<delta, bar, running>>
  <2> USE DEF ScreenInv, ScreenType, ScreenRefresh, StatusBar, Watchers
  <2>1. CASE KeyScrolls
    <3>1. delta' \in {delta - 1, delta + 1, delta - lines, delta + lines, -Far, Far}
      BY <2>1 DEF KeyScrolls
    <3>2. delta' \in Int
      BY <3>1, ScreenNumbers
    <3>3. QED
      BY <2>1, <3>2 DEF KeyScrolls
  <2>2. CASE KeyUpdates
    BY <2>2 DEF KeyUpdates
  <2>3. CASE KeyUnknown
    BY <2>3 DEF KeyUnknown
  <2>4. CASE KeyQuits
    BY <2>4 DEF KeyQuits
  <2>5. CASE NoKey
    BY <2>5 DEF NoKey
  <2>6. QED
    BY <2>1, <2>2, <2>3, <2>4, <2>5 DEF StdinIoCb
<1>3. ScreenType'
  BY <1>1, <1>2 DEF ScreenInv, ScreenType
<1>4. QED
  BY <1>1, <1>2, <1>3, AskingKeepsScreen DEF Watchers

(* Signals *)
LEMMA SignalKeepsScreen ==
  ASSUME ScreenInv, SigintCb \/ SigwinchCb
  PROVE  ScreenInv'
<1>1. UNCHANGED <<length, from, buf, start, delta, screen>>
  BY DEF SigintCb, SigwinchCb
<1>2. /\ lines' \in Sizes
      /\ pending' \subseteq Watchers /\ running' \in BOOLEAN
      /\ "refresh" \in pending' \/ running' = FALSE
  BY DEF SigintCb, SigwinchCb, StatusBar, ScreenRefresh, ScreenInv, ScreenType, Watchers
<1>3. ScreenType'
  BY <1>1, <1>2 DEF ScreenInv, ScreenType
<1>4. QED
  BY <1>1, <1>2, <1>3, AskingKeepsScreen

(* A poll asks for a refresh only if it fails: what it reads is drawn by   *)
(* the next one.                                                           *)
LEMMA PollKeepsScreen ==
  ASSUME ScreenInv, PollCb
  PROVE  ScreenInv'
<1>1. UNCHANGED <<length, from, buf, start, delta, lines, screen, running>>
  BY DEF PollCb
<1>2. /\ pending' \subseteq Watchers
      /\ "refresh" \in pending' \/ (pending' = pending \ {"poll"} /\ bar' = bar)
  BY DEF PollCb, StatusBar, ScreenRefresh, ScreenInv, ScreenType, Watchers
<1>3. ScreenType'
  BY <1>1, <1>2 DEF ScreenInv, ScreenType
<1>4. QED
  BY <1>1, <1>2, <1>3, AskingKeepsScreen DEF Watchers

(* The rows go when the buffer does, and the next ones point into the next *)
(* buffer; either way a refresh is asked for.                              *)
LEMMA TopKeepsScreen ==
  ASSUME ScreenInv, TopTimerCb
  PROVE  ScreenInv'
<1>1. /\ UNCHANGED <<start, delta, lines, screen, running>>
      /\ pending' \subseteq Watchers /\ "refresh" \in pending'
  BY DEF TopTimerCb, StatusBar, ScreenRefresh, ScreenInv, ScreenType, Watchers
<1>2. /\ length' \in Nat
      /\ length' > 0 => from' = buf' /\ buf' \in {1, 2}
  BY ScreenAssumption DEF TopTimerCb, TopGetFails
<1>3. ScreenType' /\ RowsLive'
  BY <1>1, <1>2 DEF ScreenInv, ScreenType, RowsLive, NoBuf
<1>4. RefreshAskedFor'
  BY <1>1 DEF RefreshAskedFor
<1>5. QED
  BY <1>3, <1>4 DEF ScreenInv

(* What the refresh draws is what there is then. *)
LEMMA RefreshKeepsScreen ==
  ASSUME ScreenInv, RefreshTimerCb
  PROVE  ScreenInv'
<1>1. /\ pending' \subseteq pending
      /\ UNCHANGED <<length, from, buf, lines, running>>
      /\ start' = NewStart /\ delta' = 0
  BY DEF RefreshTimerCb, ScreenRefreshCb
<1>2. ScreenType' /\ RowsLive'
  BY <1>1, NewStartInList DEF ScreenInv, ScreenType, RowsLive
<1>3. Drawn'
  <2>1. screen' = [first |-> NewStart,
                   last |-> Greater(NewStart, Lesser(length, NewStart + Rows)),
                   reply |-> from, lines |-> lines, bar |-> bar']
    BY DEF RefreshTimerCb, ScreenRefreshCb
  <2>2. Rows' = Rows
    BY <1>1 DEF Rows
  <2>3. NewStart <= Greater(length - Rows, 0)
    BY NewStartInList DEF ScreenInv
  <2>4. QED
    BY <1>1, <2>1, <2>2, <2>3 DEF Drawn
<1>4. QED
  BY <1>2, <1>3 DEF ScreenInv, RefreshAskedFor

LEMMA NextScreen == ScreenInv /\ [Next]_vars => ScreenInv'
<1>1. SUFFICES ASSUME ScreenInv, [Next]_vars
               PROVE  ScreenInv'
  OBVIOUS
<1>2. CASE UNCHANGED vars
  BY <1>1, <1>2 DEF vars, ScreenInv, ScreenType, RowsLive, RefreshAskedFor, Drawn, Rows
<1>3. QED
  BY <1>1, <1>2, WakeKeepsScreen, StdinKeepsScreen, SignalKeepsScreen, PollKeepsScreen,
     TopKeepsScreen, RefreshKeepsScreen
  DEF Next, Callback

(* ScreenInv holds after every callback of every turn of the event loop.   *)
LEMMA ScreenInvAlways == Spec => []ScreenInv
BY InitScreen, NextScreen, PTL DEF Spec

-----------------------------------------------------------------------------
(* The rows never point into a buffer that top_timer_cb has freed. *)
THEOREM RowsAlwaysLive == Spec => []RowsLive
BY ScreenInvAlways, PTL DEF ScreenInv

(* When the loop goes to sleep the terminal is current: no order of the    *)
(* pending callbacks loses a refresh, although ev_clear_pending drops what *)
(* was fed while screen_refresh_cb ran.                                    *)
THEOREM ScreenAlwaysCurrent == Spec => []ScreenCurrent
<1>1. ScreenInv => ScreenCurrent
  BY DEF ScreenInv, RefreshAskedFor, Drawn, ScreenCurrent
<1>2. QED
  BY <1>1, ScreenInvAlways, PTL

(* The window shows as many rows as the list and the terminal have, after  *)
(* any scrolling, shrinking and resizing.                                  *)
THEOREM WindowAlwaysFull == Spec => []WindowFull
<1>1. ScreenInv => WindowFull
  BY DrawnIsFull DEF ScreenInv, RefreshAskedFor, WindowFull
<1>2. QED
  BY <1>1, ScreenInvAlways, PTL
=============================================================================
