------------------------------ MODULE BotzConn ------------------------------
(***************************************************************************)
(* One connection of the botz server (botz.c): the callback bc_io_cb that  *)
(* reads, parses, answers and writes without ever blocking, its buffers,   *)
(* the events it asks libev for, and the timer that bl_listen_cb starts.   *)
(*                                                                         *)
(* A request line or a header line is one token followed by the token NL,  *)
(* so a line may arrive in pieces; a body is any tokens, NL included.  The *)
(* lookup of the path and the method's handler are abstracted to Answer,   *)
(* what they leave in the response; no handler of the program sets r_close *)
(* or answers 204.  The header buffer (4096 bytes) holds a "100 Continue"  *)
(* and a response header with room to spare, so it never truncates here.   *)
(***************************************************************************)
EXTENDS Integers, Sequences, SequencesExt

CONSTANTS
  Streams,     \* what the client may send, each a sequence of tokens
  NL,          \* the end of a line
  Targets,     \* well-formed request lines
  Answer,      \* for each target, the status and the length of the response
  OtherMethod, \* a request line with a method botz does not serve
  CloseLine,   \* the header "Connection: close"
  ExpectLine,  \* the header "Expect: 100-Continue"
  NoTarget,    \* q_path before a request line is read
  BufSize      \* bl_q_buf_size

(* A token that is a number stands for the header Content-Length. *)
ASSUME StreamsAssumption ==
  /\ Streams \subseteq Seq(UNION {Range(s) : s \in Streams})
  /\ Answer \in [Targets -> [status: 200..599, len: Nat]]
  /\ BufSize \in Nat \ {0}
  /\ NoTarget \notin Targets
  /\ {NL, OtherMethod, CloseLine, ExpectLine} \cap (Targets \cup Nat) = {}
  /\ CloseLine \notin {NL, ExpectLine}

BAD_REQUEST == 400
METHOD_NOT_ALLOWED == 405

VARIABLES
  conn,  \* the struct botz_conn with its botz_x and its two watchers
  sent,  \* all that the client sends on this connection
  fin,   \* whether it has shut down its side
  pos,   \* how much of sent the server has read
  got    \* what the client has received

vars == <<conn, sent, fin, pos, got>>

Unit(kind, status, len, target) ==
  [kind |-> kind, status |-> status, len |-> len, target |-> target]
Continue == Unit("continue", 100, 0, NoTarget)
Header(status, len, target) == Unit("header", status, len, target)
Body(len, target) == [i \in 1..len |-> Unit("body", i, len, target)]

ConnType ==
  [open: BOOLEAN,                 \* not freed yet
   timer: BOOLEAN,                \* c_timer_w is active
   events: SUBSET {"R", "W"},     \* what c_io_w waits for
   q: Seq(UNION {Range(s) : s \in Streams}),             \* c_q_buf
   header: Seq([kind: {"continue", "header"}, status: Nat, len: Nat,
                target: Targets \cup {NoTarget}]),         \* c_r_header
   body: Seq([kind: {"body"}, status: Nat, len: Nat, target: Targets]),
   target: Targets \cup {NoTarget},                        \* q_path
   status: Nat, bodyLen: Nat,
   close: BOOLEAN, expect: BOOLEAN, start: BOOLEAN, bodyWait: BOOLEAN,
   qReady: BOOLEAN, rReady: BOOLEAN, rSent: BOOLEAN]

-----------------------------------------------------------------------------
(* bx_reset: the exchange starts over; the buffers of the connection stay. *)
Reset(c) ==
  [c EXCEPT !.target = NoTarget, !.status = 0, !.bodyLen = 0, !.body = <<>>,
            !.close = FALSE, !.expect = FALSE, !.start = FALSE, !.bodyWait = FALSE,
            !.qReady = FALSE, !.rReady = FALSE, !.rSent = FALSE]

Closed ==
  [open |-> FALSE, timer |-> FALSE, events |-> {}, q |-> <<>>, header |-> <<>>,
   body |-> <<>>, target |-> NoTarget, status |-> 0, bodyLen |-> 0, close |-> FALSE,
   expect |-> FALSE, start |-> FALSE, bodyWait |-> FALSE, qReady |-> FALSE,
   rReady |-> FALSE, rSent |-> FALSE]

Error(c, status) ==
  [c EXCEPT !.status = IF @ < status THEN status ELSE @, !.close = TRUE, !.qReady = TRUE]

(* bx_read_start, with bx_parse_method. *)
ReadStart(c, line) ==
  LET d == [c EXCEPT !.start = TRUE] IN
  CASE line = <<>> -> c
    [] Len(line) = 1 /\ line[1] \in Targets -> [d EXCEPT !.target = line[1]]
    [] line = <<OtherMethod>> -> Error(d, METHOD_NOT_ALLOWED)
    [] OTHER -> Error(d, BAD_REQUEST)

ReadHeader(c, line) ==
  CASE line = <<>> -> IF c.bodyLen > 0 THEN [c EXCEPT !.bodyWait = TRUE]
                                       ELSE [c EXCEPT !.qReady = TRUE]
    [] line # <<>> /\ line[1] \in Nat -> [c EXCEPT !.bodyLen = line[1]]
    [] line # <<>> /\ line[1] = CloseLine -> [c EXCEPT !.close = TRUE]
    [] line # <<>> /\ line[1] = ExpectLine -> [c EXCEPT !.expect = TRUE]
    [] OTHER -> c

ReadMsgStrictBody(c) ==
  LET i == SelectInSeq(c.q, LAMBDA t : t = NL)
      d == [c EXCEPT !.q = SubSeq(@, i + 1, Len(@))]
      line == SubSeq(c.q, 1, i - 1)
  IN CASE c.q = <<>> \/ c.qReady -> c
       [] ~c.qReady /\ c.bodyWait -> [c EXCEPT !.qReady = c.bodyLen < Len(c.q)]
       [] ~c.qReady /\ ~c.bodyWait /\ i = 0 -> c
       [] OTHER -> IF c.start THEN ReadHeader(d, line) ELSE ReadStart(d, line)

(* One turn of the loop over c_q_buf; a turn that changes nothing ends it. *)
ReadMsg(c) ==
  LET i == SelectInSeq(c.q, LAMBDA t : t = NL)
      d == [c EXCEPT !.q = SubSeq(@, i + 1, Len(@))]
      line == SubSeq(c.q, 1, i - 1)
  IN CASE c.q = <<>> \/ c.qReady -> c
       [] ~c.qReady /\ c.bodyWait -> [c EXCEPT !.qReady = c.bodyLen <= Len(c.q)]
       [] ~c.qReady /\ ~c.bodyWait /\ i = 0 -> c
       [] OTHER -> IF c.start THEN ReadHeader(d, line) ELSE ReadStart(d, line)

Parse[c \in ConnType] ==
  LET d == ReadMsg(c) IN IF d = c THEN c ELSE Parse[d]

AtEofNoError(c, eof) == c

(* An incomplete request at eof. *)
AtEof(c, eof) ==
  IF eof /\ ~c.qReady THEN Error(Reset(c), BAD_REQUEST) ELSE c

Expect100Again(c) ==
  IF c.expect /\ ~c.qReady /\ c.status < 400
  THEN [c EXCEPT !.header = Append(@, Continue)] ELSE c

Expect100(c) ==
  IF c.expect /\ ~c.qReady /\ c.status < 400
  THEN [c EXCEPT !.header = Append(@, Continue), !.expect = FALSE] ELSE c

(* bx_handle: a request without a path fails in bx_lookup. *)
Handled(c) ==
  IF c.target = NoTarget THEN Error(c, BAD_REQUEST)
  ELSE [c EXCEPT !.status = Answer[c.target].status,
                 !.body = Body(Answer[c.target].len, c.target)]

HandleLeavesBody(c) ==
  IF ~c.qReady \/ c.rReady THEN c
  ELSE LET d == Handled(c) IN
       [d EXCEPT !.rReady = TRUE, !.timer = FALSE,
                 !.header = Append(@, Header(d.status, Len(d.body), d.target))]

HandleKeepsTimer(c) ==
  IF ~c.qReady \/ c.rReady THEN c
  ELSE LET d == Handled(c) IN
       [d EXCEPT !.rReady = TRUE, !.q = SubSeq(@, c.bodyLen + 1, Len(@)),
                 !.header = Append(@, Header(d.status, Len(d.body), d.target))]

(* bx_handle, then the body is dropped and br_write_header.  The timer has *)
(* no repeat value, so ev_timer_again stops it.                            *)
Handle(c) ==
  IF ~c.qReady \/ c.rReady THEN c
  ELSE LET d == Handled(c) IN
       [d EXCEPT !.rReady = TRUE, !.q = SubSeq(@, c.bodyLen + 1, Len(@)),
                 !.header = Append(@, Header(d.status, Len(d.body), d.target)),
                 !.timer = FALSE]

WatchReads(c, eof) == [c EXCEPT !.events = IF eof THEN {} ELSE {"R"}]

Watch(c, eof) ==
  [c EXCEPT !.events = (IF eof THEN {} ELSE {"R"})
                       \cup (IF c.header # <<>> THEN {"W"} ELSE {})]

(* The end of bc_io_cb, from the loop over c_q_buf on. *)
Process(c, eof) ==
  LET d == Parse[c] IN
  IF eof /\ ~d.start THEN Closed
  ELSE Watch(Handle(Expect100(AtEof(d, eof))), eof)

-----------------------------------------------------------------------------
(* What is left of the connection when the socket has taken m tokens of    *)
(* the header, then of the body.                                           *)
Written(c, m) ==
  LET h == Len(c.header) IN
  [c EXCEPT !.header = SubSeq(@, m + 1, h),
            !.body = SubSeq(@, (IF m > h THEN m - h ELSE 0) + 1, Len(@)),
            !.rSent = c.rReady /\ m = h + Len(c.body)]

Out == conn.header \o conn.body

Writes(rev) == IF "W" \in rev THEN 0..Len(Out) ELSE {0}

(* The connection after the EV_WRITE part of the callback. *)
Drained(rev, m) == IF "W" \in rev THEN Written(conn, m) ELSE conn

(* The callback is called with the events of rev. *)
Revents(rev) ==
  /\ conn.open
  /\ rev # {}
  /\ rev \subseteq conn.events
  /\ "R" \in rev => pos < Len(sent) \/ fin

(* The response is not written yet: only EV_WRITE is of interest. *)
KeepWriting(rev, m) ==
  /\ Revents(rev)
  /\ Drained(rev, m).rReady /\ ~Drained(rev, m).rSent
  /\ conn' = [Drained(rev, m) EXCEPT !.events = {"W"}]
  /\ got' = got \o SubSeq(Out, 1, m)
  /\ UNCHANGED <<sent, fin, pos>>

CloseWhenSent(rev, m) ==
  /\ Revents(rev)
  /\ Drained(rev, m).rSent /\ conn.close
  /\ conn' = Closed
  /\ got' = got \o SubSeq(Out, 1, m)
  /\ UNCHANGED <<sent, fin, pos>>

RoomOffByOne(c) == BufSize - Len(c.q) + 1

(* Room for n_buf_fill, which moves what is left to the front first. *)
Room(c) == BufSize - Len(c.q)

(* Neither of these: the callback goes on to read, in a new exchange if    *)
(* the response has been sent.                                             *)
GoesOn(rev, m) ==
  /\ Revents(rev)
  /\ Drained(rev, m).rReady => Drained(rev, m).rSent /\ ~conn.close
  /\ got' = got \o SubSeq(Out, 1, m)

Reading(rev, m) ==
  IF Drained(rev, m).rSent THEN Reset(Drained(rev, m)) ELSE Drained(rev, m)

(* n_buf_fill finds the buffer full (ENOBUFS). *)
CloseWhenFull(rev, m) ==
  /\ GoesOn(rev, m)
  /\ "R" \in rev
  /\ Room(conn) = 0
  /\ conn' = Closed
  /\ UNCHANGED <<sent, fin, pos>>

(* It reads n tokens, or finds the end of the stream. *)
ReadMore(rev, m, n) ==
  /\ GoesOn(rev, m)
  /\ "R" \in rev
  /\ Room(conn) > 0 /\ n <= Room(conn)
  /\ pos + n <= Len(sent)
  /\ n = 0 => pos = Len(sent) /\ fin
  /\ pos' = pos + n
  /\ conn' = Process([Reading(rev, m) EXCEPT !.q = @ \o SubSeq(sent, pos + 1, pos + n)], n = 0)
  /\ UNCHANGED <<sent, fin>>

(* No EV_READ: what an earlier read left in the buffer is looked at. *)
ReadLeftover(rev, m) ==
  /\ GoesOn(rev, m)
  /\ "R" \notin rev
  /\ conn' = Process(Reading(rev, m), FALSE)
  /\ UNCHANGED <<sent, fin, pos>>

(* The socket fails in read or write, or libev reports EV_ERROR. *)
IoError ==
  /\ conn.open /\ conn.events # {}
  /\ conn' = Closed
  /\ UNCHANGED <<sent, fin, pos, got>>

(* bc_timer_cb. *)
Timeout ==
  /\ conn.open /\ conn.timer
  /\ conn' = Closed
  /\ UNCHANGED <<sent, fin, pos, got>>

(* The client stops sending, at the latest after all it meant to send. *)
Shutdown ==
  /\ ~fin
  /\ fin' = TRUE
  /\ \E i \in pos..Len(sent) : sent' = SubSeq(sent, 1, i)
  /\ UNCHANGED <<conn, pos, got>>

Revs == SUBSET {"R", "W"}

Init ==
  /\ conn = [Closed EXCEPT !.open = TRUE, !.timer = TRUE, !.events = {"R"}]
  /\ sent \in Streams
  /\ fin = FALSE /\ pos = 0 /\ got = <<>>

(* bc_io_cb, called with any events and writing any part of what is due. *)
Calls(A(_, _)) == \E rev \in Revs : \E m \in Writes(rev) : A(rev, m)

IoCb ==
  \/ Calls(KeepWriting)
  \/ Calls(CloseWhenSent)
  \/ Calls(CloseWhenFull)
  \/ \E n \in 0..BufSize : Calls(LAMBDA rev, m : ReadMore(rev, m, n))
  \/ Calls(ReadLeftover)

Next == IoCb \/ IoError \/ Timeout \/ Shutdown

Spec == Init /\ [][Next]_vars

(* The kernel reports a socket that stays readable or writable for as long *)
(* as the loop asks for it, and a client that is still there takes what    *)
(* the server writes: callbacks that make progress do not stop.  (Weak     *)
(* fairness of IoCb, with its enabling condition spelled out.)             *)
Deliverable ==
  /\ conn.open
  /\ "W" \in conn.events \/ ("R" \in conn.events /\ (pos < Len(sent) \/ fin))

FairSpec == Spec /\ (<>[]Deliverable => []<><<IoCb>>_vars)

-----------------------------------------------------------------------------
(* The connection has read no more than was sent, and what is buffered is  *)
(* never more than the request buffer holds (n_buf_fill in bc_io_cb).      *)
TypeOK ==
  /\ conn \in ConnType
  /\ sent \in Seq(UNION {Range(s) : s \in Streams})
  /\ fin \in BOOLEAN
  /\ pos \in 0..Len(sent)
  /\ Len(conn.q) <= BufSize

(* A connection that is not freed waits for something: bc_io_cb never      *)
(* leaves its watcher stopped, which would leak the connection once the    *)
(* timer is stopped.  (Its early return "Danger" is not reached.)          *)
Watched == conn.open => conn.events # {}

(* The timer that was started at accept never cuts a response short.       *)
TimeoutSparesAnswers ==
  [][Timeout => ~conn.rReady /\ ~conn.qReady]_vars

(* Two Expect headers were read that no end of a header, an empty line, is *)
(* between: they are of the same request, or one of them is part of a body.*)
RepeatsExpect ==
  \E i, j \in 1..pos :
    /\ i < j /\ sent[i] = ExpectLine /\ sent[j] = ExpectLine
    /\ \A l \in i..j - 1 : ~(sent[l] = NL /\ sent[l + 1] = NL)

(* A "100 Continue" is sent at most once for a request, before its header, *)
(* and never inside another response, as long as no request repeats its    *)
(* Expect header: bx_read_header sets x_expect_100 for each, so one that   *)
(* arrives after the answer to the first gets another.                     *)
ContinueInPlace ==
  ~RepeatsExpect =>
    LET all == got \o conn.header \o conn.body IN
    \A i \in 1..Len(all) - 1 : all[i] = Continue => all[i + 1].kind = "header"
=============================================================================
