------------------------------- MODULE Screen -------------------------------
(***************************************************************************)
(* The screen of the client xltop: the list of its last /top reply, of     *)
(* which a window is drawn, and the status bar below, which shows either a *)
(* message or the range of the rows that are drawn (screen.c and the end   *)
(* of xltop.c).                                                            *)
(*                                                                         *)
(* One turn of the event loop wakes up for some watchers and then calls    *)
(* their callbacks, and those they feed, until none is pending.            *)
(***************************************************************************)
EXTENDS Integers

CONSTANTS
  MaxLength,   \* bound on the lines of a reply
  Sizes,       \* heights that the terminal may have
  Header,      \* lines above the list: the filesystems and the headings
  Far,         \* stands for INT_MAX / 2: more than any list is long
  MaxEvents    \* bound on keys, signals and GETs that fail

ASSUME ScreenAssumption ==
  /\ MaxLength \in Nat /\ MaxEvents \in Nat /\ Header \in Nat
  /\ Sizes # {} /\ Sizes \subseteq Nat
  /\ Far \in Nat /\ \A n \in Sizes : Far > MaxLength + n + Header

VARIABLES
  pending,  \* watchers whose callbacks are to be called
  length,   \* top_k_length
  from,     \* the reply that the strings of top_k point into
  buf,      \* the reply in top_nb, or NoBuf
  start,    \* scroll_start
  delta,    \* scroll_delta
  lines,    \* LINES
  bar,      \* status_bar: a message or the range it names
  age,      \* whole seconds since status_bar_time, as far as four and more
  screen,   \* what refresh() has last brought to the terminal
  running,  \* the event loop has not been left
  events    \* how many keys, resizes and failures there have been

vars == <<pending, length, from, buf, start, delta, lines, bar, age, screen, running, events>>

Watchers == {"refresh", "top", "stdin", "int", "winch", "poll"}
NoBuf == 0
Old == 5
Message == [kind |-> "message"]
Range(first, last, of) == [kind |-> "range", first |-> first, last |-> last, of |-> of]

Lesser(a, b) == IF a < b THEN a ELSE b
Greater(a, b) == IF a > b THEN a ELSE b

(* How much of the list fits between the headings and the status bar.      *)
Rows == lines - Header - 1

Happens == events < MaxEvents /\ events' = events + 1

(* The loop wakes up: timers have expired, keys were pressed, the terminal *)
(* was resized.  The refresh timer repeats every second.                   *)
Wake ==
  /\ running /\ pending = {}
  /\ \E w \in SUBSET Watchers :
       /\ w # {}
       /\ pending' = w
       /\ w \cap {"stdin", "int", "winch"} # {} => events < MaxEvents
       /\ age' \in {age} \cup (IF "refresh" \in w THEN {Lesser(age + 1, Old)} ELSE {})
  /\ UNCHANGED <<length, from, buf, start, delta, lines, bar, screen, running, events>>

ScreenRefreshLater(p) == p

(* screen_refresh: feeds the refresh timer's watcher.                      *)
ScreenRefresh(p) == p \cup {"refresh"}

(* status_bar_vprintf, through which ERROR goes as well.                   *)
StatusBar(p, what) ==
  /\ bar' = what /\ age' = 0
  /\ pending' = ScreenRefresh(p)

(* screen_key_cb for the keys that scroll. *)
KeyScrolls ==
  /\ delta' \in {delta - 1, delta + 1, delta - lines, delta + lines, -Far, Far}
  /\ pending' = ScreenRefresh(pending \ {"stdin"})
  /\ UNCHANGED <<bar, age, running>>

(* Space: the top timer's watcher is fed, too. *)
KeyUpdates ==
  /\ pending' = ScreenRefresh((pending \ {"stdin"}) \cup {"top"})
  /\ UNCHANGED <<delta, bar, age, running>>

(* Any other: a message if it is an ASCII character. *)
KeyUnknown ==
  /\ \/ StatusBar(pending \ {"stdin"}, Message)
     \/ /\ pending' = ScreenRefresh(pending \ {"stdin"})
        /\ UNCHANGED <<bar, age>>
  /\ UNCHANGED <<delta, running>>

(* q: the loop is left once the callbacks that are pending have returned. *)
KeyQuits ==
  /\ running' = FALSE /\ pending' = pending \ {"stdin"}
  /\ UNCHANGED <<delta, bar, age>>

(* getch() has nothing: stdin_io_cb returns. *)
NoKey ==
  /\ pending' = pending \ {"stdin"}
  /\ UNCHANGED <<delta, bar, age, running>>

StdinIoCb ==
  /\ "stdin" \in pending /\ Happens
  /\ KeyScrolls \/ KeyUpdates \/ KeyUnknown \/ KeyQuits \/ NoKey
  /\ UNCHANGED <<length, from, buf, start, lines, screen>>

(* SIGINT or SIGTERM. *)
SigintCb ==
  /\ "int" \in pending /\ Happens
  /\ running' = FALSE /\ pending' = pending \ {"int"}
  /\ UNCHANGED <<length, from, buf, start, delta, lines, bar, age, screen>>

(* sigwinch_cb: the size is taken over, or ioctl fails and that is reported.*)
SigwinchCb ==
  /\ "winch" \in pending /\ Happens
  /\ \/ /\ lines' \in Sizes
        /\ pending' = ScreenRefresh(pending \ {"winch"})
        /\ UNCHANGED <<bar, age>>
     \/ /\ StatusBar(pending \ {"winch"}, Message)
        /\ UNCHANGED lines
  /\ UNCHANGED <<length, from, buf, start, delta, screen, running>>

(* xl_clus_cb or xl_fs_cb: what they read shows at the next refresh; if    *)
(* their GET fails curl_x_get_url reports it.                              *)
PollCb ==
  /\ "poll" \in pending
  /\ \/ /\ Happens
        /\ StatusBar(pending \ {"poll"}, Message)
     \/ /\ pending' = pending \ {"poll"}
        /\ UNCHANGED <<bar, age, events>>
  /\ UNCHANGED <<length, from, buf, start, delta, lines, screen, running>>

TopGetFailsKeepsList ==
  /\ buf' = NoBuf
  /\ UNCHANGED <<length, from>>

(* The list is given up with the buffer of the old reply.                  *)
TopGetFails ==
  /\ buf' = NoBuf /\ length' = 0
  /\ UNCHANGED from

(* A new reply; the status bar is to show its range. *)
TopTimerCb ==
  /\ "top" \in pending
  /\ \/ /\ Happens
        /\ TopGetFails
        /\ StatusBar(pending \ {"top"}, Message)
     \/ /\ buf' = IF buf = 1 THEN 2 ELSE 1
        /\ length' \in 0..MaxLength /\ from' = buf'
        /\ age' = Old
        /\ pending' = ScreenRefresh(pending \ {"top"})
        /\ UNCHANGED <<bar, events>>
  /\ UNCHANGED <<start, delta, lines, screen, running>>

NewStartUnclamped == Greater(start + delta, 0)

(* As far down as the list goes, but not above its first row. *)
NewStart == Greater(Lesser(start + delta, length - Rows), 0)

ShowsRangeOnScroll == NewStart # start

(* Whether the status bar goes back to the range: the user has scrolled or *)
(* the message has been there for more than four seconds.                  *)
ShowsRange == NewStart # start \/ age > 4

(* screen_refresh_cb: draws the window and brings the bar up to date.      *)
ScreenRefreshCb ==
  LET last == Greater(NewStart, Lesser(length, NewStart + Rows)) IN
  /\ IF ShowsRange
     THEN /\ age' = 0
          /\ bar' = Range(NewStart + (IF length = 0 THEN 0 ELSE 1), last, length)
     ELSE UNCHANGED <<bar, age>>
  /\ screen' = [first |-> NewStart, last |-> last, reply |-> from, lines |-> lines,
                bar |-> bar']
  /\ start' = NewStart /\ delta' = 0

(* refresh_timer_cb.  What screen_refresh_cb has fed through the status    *)
(* bar is cleared after it.                                                *)
RefreshTimerCb ==
  /\ "refresh" \in pending
  /\ pending' = pending \ {"refresh"}
  /\ ScreenRefreshCb
  /\ UNCHANGED <<length, from, buf, lines, running, events>>

Init ==
  /\ pending = {"refresh"} /\ running = TRUE /\ events = 0
  /\ length = 0 /\ from = NoBuf /\ buf = NoBuf /\ start = 0 /\ delta = 0
  /\ lines \in Sizes
  /\ bar = Message /\ age = Old
  /\ screen = [first |-> 0, last |-> 0, reply |-> NoBuf, lines |-> 0, bar |-> Message]

Callback == StdinIoCb \/ SigintCb \/ SigwinchCb \/ PollCb \/ TopTimerCb \/ RefreshTimerCb

Next == Wake \/ Callback

Spec == Init /\ [][Next]_vars

(* A second passes and the refresh timer expires. *)
SecondPasses == Wake /\ "refresh" \in pending' /\ age' = Lesser(age + 1, Old)

(* Callbacks return and time goes on. *)
FairSpec == Spec /\ WF_vars(Callback) /\ SF_vars(SecondPasses)

-----------------------------------------------------------------------------
(* The rows of top_k point into a buffer that is still there, whether the  *)
(* GET in between failed or not (top_timer_cb).                            *)
RowsLive == length > 0 => from = buf /\ buf # NoBuf

(* Whenever the loop goes to sleep the terminal shows the list, the window *)
(* and the status bar as they are now: every callback that changes one of  *)
(* them has asked for a refresh, and none of the refreshes got lost.       *)
ScreenCurrent ==
  running /\ pending = {} =>
    /\ screen.first = start /\ delta = 0
    /\ screen.last = Greater(start, Lesser(length, start + Rows))
    /\ screen.last > start => screen.reply = from
    /\ screen.lines = lines /\ screen.bar = bar

(* No row stays hidden above the window while there is room below, however *)
(* the list shrinks, the terminal grows and the user scrolls.              *)
WindowFull ==
  running /\ pending = {} /\ Rows >= 0 =>
    screen.last - screen.first = Lesser(length, Rows)

(* When the user leaves it alone and the GETs succeed, the status bar ends *)
(* up with the range of the rows above it, or the loop was left.           *)
BarSettles ==
  <>[](~running \/
       (pending = {} =>
          bar = Range(start + (IF length = 0 THEN 0 ELSE 1), screen.last, length)))
=============================================================================
