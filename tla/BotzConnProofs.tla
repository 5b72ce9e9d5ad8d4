---------------------------- MODULE BotzConnProofs ----------------------------
(***************************************************************************)
(* Theorems about one connection of the botz server, for any streams, any  *)
(* handlers and any size of the request buffer.                            *)
(***************************************************************************)
EXTENDS BotzAnswers, SequenceTheorems, WellFoundedInduction, TLAPS

-----------------------------------------------------------------------------
(* One turn of the loop over c_q_buf. *)

FirstNL(q) == SelectInSeq(q, LAMBDA t : t = NL)

LEMMA FirstNLIsPlace ==
  ASSUME NEW q \in Seq(Tokens)
  PROVE  /\ FirstNL(q) \in 0..Len(q)
         /\ FirstNL(q) # 0 => q[FirstNL(q)] = NL
         /\ \A l \in 1..FirstNL(q) - 1 : q[l] # NL
<1> DEFINE I == {i \in 1..Len(q) : q[i] = NL}
<1>1. FirstNL(q) = IF I # {} THEN Min(I) ELSE 0
  BY DEF FirstNL, SelectInSeq
<1>2. Len(q) \in Nat
  BY LenProperties
<1>3. ASSUME I # {}
      PROVE  Min(I) \in I /\ \A l \in I : Min(I) <= l
  <2>1. PICK i \in I : \A l \in I : ~(<<l, i>> \in OpToRel(<, Nat))
    <3>1. I \subseteq Nat
      BY <1>2
    <3>2. QED
      BY <1>3, <3>1, NatLessThanWellFounded, WFMin
  <2>2. ASSUME NEW l \in I
        PROVE  i <= l
    <3>1. l \in Nat /\ i \in Nat
      BY <1>2
    <3>2. l < i => <<l, i>> \in OpToRel(<, Nat)
      BY <3>1 DEF OpToRel
    <3>3. ~(l < i)
      BY <2>1, <3>2
    <3>4. QED
      BY <3>1, <3>3
  <2>3. QED
    BY <2>2 DEF Min
<1>4. CASE I = {}
  BY <1>1, <1>2, <1>4
<1>5. CASE I # {}
  <2>1. FirstNL(q) \in I /\ \A l \in I : FirstNL(q) <= l
    BY <1>1, <1>3, <1>5
  <2>2. QED
    BY <1>2, <2>1
<1>6. QED
  BY <1>4, <1>5

(* What no turn of the loop touches. *)
Alike(c, d) ==
  /\ d.open = c.open /\ d.timer = c.timer /\ d.events = c.events
  /\ d.header = c.header /\ d.body = c.body
  /\ d.rReady = c.rReady /\ d.rSent = c.rSent

LEMMA ErrorKeeps ==
  ASSUME NEW c \in ConnType, NEW status \in Nat
  PROVE  /\ Error(c, status) \in ConnType
         /\ Alike(c, Error(c, status))
         /\ Error(c, status).q = c.q
BY DEF Error, ConnType, Alike

LEMMA ReadStartKeeps ==
  ASSUME NEW c \in ConnType, NEW line
  PROVE  /\ ReadStart(c, line) \in ConnType
         /\ Alike(c, ReadStart(c, line))
         /\ ReadStart(c, line).q = c.q
<1> DEFINE d == [c EXCEPT !.start = TRUE]
<1>1. d \in ConnType /\ Alike(c, d) /\ d.q = c.q
  BY DEF ConnType, Alike
<1>2. ASSUME NEW status \in Nat
      PROVE  /\ Error(d, status) \in ConnType
             /\ Alike(c, Error(d, status))
             /\ Error(d, status).q = c.q
  BY <1>1, ErrorKeeps DEF Alike
<1>3. ASSUME line[1] \in Targets
      PROVE  /\ [d EXCEPT !.target = line[1]] \in ConnType
             /\ Alike(c, [d EXCEPT !.target = line[1]])
             /\ [d EXCEPT !.target = line[1]].q = c.q
  BY <1>1, <1>3 DEF ConnType, Alike
<1>4. Alike(c, c)
  BY DEF Alike
<1>5. METHOD_NOT_ALLOWED \in Nat /\ BAD_REQUEST \in Nat
  BY DEF METHOD_NOT_ALLOWED, BAD_REQUEST
<1>6. \/ ReadStart(c, line) \in {c, Error(d, METHOD_NOT_ALLOWED), Error(d, BAD_REQUEST)}
      \/ line[1] \in Targets /\ ReadStart(c, line) = [d EXCEPT !.target = line[1]]
  <2>1. CASE line = <<>>
    BY <2>1 DEF ReadStart
  <2>2. CASE line # <<>> /\ Len(line) = 1 /\ line[1] \in Targets
    BY <2>2 DEF ReadStart
  <2>3. CASE line # <<>> /\ ~(Len(line) = 1 /\ line[1] \in Targets)
    BY <2>3 DEF ReadStart
  <2>4. QED
    BY <2>1, <2>2, <2>3
<1> HIDE DEF d
<1>7. QED
  BY <1>2, <1>3, <1>4, <1>5, <1>6

LEMMA ReadHeaderKeeps ==
  ASSUME NEW c \in ConnType, NEW line
  PROVE  /\ ReadHeader(c, line) \in ConnType
         /\ Alike(c, ReadHeader(c, line))
         /\ ReadHeader(c, line).q = c.q
BY DEF ReadHeader, ConnType, Alike

(* What is left to do for the loop: each turn takes a line from the buffer *)
(* or finds the request complete.                                          *)
ToDo(c) == Len(c.q) + (IF c.qReady THEN 0 ELSE 1)

LEMMA ToDoIsNat ==
  ASSUME NEW c \in ConnType
  PROVE  ToDo(c) \in Nat
<1>1. c.q \in Seq(Tokens)
  BY DEF ConnType, Tokens
<1>2. Len(c.q) \in Nat
  BY <1>1, LenProperties
<1>3. CASE c.qReady
  BY <1>2, <1>3 DEF ToDo
<1>4. CASE ~c.qReady
  BY <1>2, <1>4 DEF ToDo
<1>5. QED
  BY <1>3, <1>4

LEMMA ReadMsgKeeps ==
  ASSUME NEW c \in ConnType
  PROVE  /\ ReadMsg(c) \in ConnType
         /\ Alike(c, ReadMsg(c))
         /\ Len(ReadMsg(c).q) <= Len(c.q)
         /\ ReadMsg(c) = c \/ ToDo(ReadMsg(c)) < ToDo(c)
<1> DEFINE i == FirstNL(c.q)
           q == SubSeq(c.q, i + 1, Len(c.q))
           d == [c EXCEPT !.q = q]
           line == SubSeq(c.q, 1, i - 1)
           e == [c EXCEPT !.qReady = c.bodyLen <= Len(c.q)]
<1>1. c.q \in Seq(Tokens) /\ Len(c.q) \in Nat /\ i \in 0..Len(c.q) /\ c.qReady \in BOOLEAN
  BY LenProperties, FirstNLIsPlace DEF ConnType, Tokens
<1>2. \/ ReadMsg(c) = c
      \/ ~c.qReady /\ ReadMsg(c) = e
      \/ ~c.qReady /\ i # 0 /\ ReadMsg(c) \in {ReadHeader(d, line), ReadStart(d, line)}
  BY DEF ReadMsg, FirstNL
<1>3. q \in Seq(Tokens) /\ Len(q) = Len(c.q) - i
  <2>1. \A j \in i + 1..Len(c.q) : c.q[j] \in Tokens
    BY <1>1, ElementOfSeq
  <2>2. QED
    BY <1>1, <2>1, SubSeqProperties
<1>4. d \in ConnType /\ Alike(c, d) /\ d.q = q
  BY <1>3 DEF ConnType, Alike, Tokens
<1>5. CASE ReadMsg(c) = c
  BY <1>1, <1>5 DEF Alike
<1>6. CASE ~c.qReady /\ ReadMsg(c) = e
  <2>1. CASE c.bodyLen <= Len(c.q)
    <3> DEFINE f == [c EXCEPT !.qReady = TRUE]
    <3>1. f \in ConnType /\ Alike(c, f) /\ f.q = c.q /\ f.qReady
      BY DEF ConnType, Alike
    <3>2. e = f
      <4>1. (c.bodyLen <= Len(c.q)) = TRUE
        BY <2>1
      <4>2. QED
        BY <4>1, Zenon
    <3> HIDE DEF e, f
    <3>3. QED
      BY <1>1, <1>6, <3>1, <3>2 DEF ToDo
  <2>2. CASE ~(c.bodyLen <= Len(c.q))
    <3>1. e = [c EXCEPT !.qReady = FALSE]
      <4>1. (c.bodyLen <= Len(c.q)) = FALSE
        BY <2>2
      <4>2. QED
        BY <4>1, Zenon
    <3>2. e = c
      BY <1>6, <3>1 DEF ConnType
    <3>3. QED
      BY <1>5, <1>6, <3>2
  <2>3. QED
    BY <2>1, <2>2
<1>7. CASE ~c.qReady /\ i # 0 /\ ReadMsg(c) \in {ReadHeader(d, line), ReadStart(d, line)}
  <2> HIDE DEF d, line, q, i
  <2>1. /\ ReadMsg(c) \in ConnType
        /\ Alike(d, ReadMsg(c))
        /\ ReadMsg(c).q = q
    BY <1>4, <1>7, ReadHeaderKeeps, ReadStartKeeps
  <2>2. QED
    BY <1>1, <1>3, <1>4, <1>7, <2>1 DEF Alike, ToDo
<1>8. QED
  BY <1>2, <1>5, <1>6, <1>7

-----------------------------------------------------------------------------
(* The whole loop. *)

(* Induction for a set of numbers: there is no least one outside of it.    *)
LEMMA AllNumbers ==
  ASSUME NEW S, 0 \in S, \A n \in Nat : n \in S => n + 1 \in S
  PROVE  Nat \subseteq S
<1> DEFINE Outside == Nat \ S
<1>1. SUFFICES ASSUME Outside # {}
               PROVE  FALSE
  OBVIOUS
<1>2. PICK n \in Outside : \A l \in Outside : ~(<<l, n>> \in OpToRel(<, Nat))
  BY <1>1, NatLessThanWellFounded, WFMin
<1>3. n \in Nat /\ n - 1 \in Nat /\ n - 1 < n
  OBVIOUS
<1>4. <<n - 1, n>> \in OpToRel(<, Nat)
  BY <1>3 DEF OpToRel
<1>5. n - 1 \in S
  BY <1>2, <1>3, <1>4
<1>6. n - 1 + 1 \in S
  BY <1>3, <1>5
<1>7. QED
  BY <1>3, <1>6

(* The states of the connection that turns of the loop lead to from c, and *)
(* those among them where a turn changes nothing.                          *)
Closing(S) == \A d \in S : ReadMsg(d) \in S

Reached(c) == {e \in ConnType : \A S \in SUBSET ConnType : c \in S /\ Closing(S) => e \in S}

Fixed(c) == {e \in Reached(c) : ReadMsg(e) = e}

LEMMA ReachedFrom ==
  ASSUME NEW c \in ConnType
  PROVE  Reached(c) = {c} \cup Reached(ReadMsg(c))
<1> DEFINE d == ReadMsg(c)
<1>1. d \in ConnType
  BY ReadMsgKeeps
<1>2. c \in Reached(c)
  BY DEF Reached
<1>3. Reached(d) \subseteq Reached(c)
  BY DEF Reached, Closing
<1>4. Closing(Reached(d))
  BY ReadMsgKeeps DEF Reached, Closing
<1>5. d \in Reached(d)
  BY <1>1 DEF Reached
<1> DEFINE S == {c} \cup Reached(d)
<1>6. S \in SUBSET ConnType /\ c \in S /\ Closing(S)
  <2>1. S \subseteq ConnType
    BY DEF Reached
  <2>2. \A e \in S : ReadMsg(e) \in S
    BY <1>4, <1>5 DEF Closing
  <2>3. QED
    BY <2>1, <2>2 DEF Closing
<1> HIDE DEF S
<1>7. Reached(c) \subseteq S
  BY <1>6 DEF Reached
<1>8. QED
  BY <1>2, <1>3, <1>7 DEF S

(* The function that Parse is defined by, so that there is one: the end of *)
(* the turns, if they end.                                                 *)
IsParse(f) ==
  f = [c \in ConnType |-> LET d == ReadMsg(c) IN IF d = c THEN c ELSE f[d]]

LEMMA ParseExists == IsParse(Parse)
<1> DEFINE f == [c \in ConnType |->
                   IF ReadMsg(c) = c THEN c ELSE CHOOSE e : e \in Fixed(ReadMsg(c))]
<1>1. ASSUME NEW c \in ConnType
      PROVE  f[c] = IF ReadMsg(c) = c THEN c ELSE f[ReadMsg(c)]
  <2> DEFINE d == ReadMsg(c)
  <2>1. d \in ConnType
    BY ReadMsgKeeps
  <2>2. CASE d # c /\ ReadMsg(d) = d
    <3>1. Reached(d) = {d}
      <4>1. {d} \in SUBSET ConnType /\ d \in {d} /\ Closing({d})
        BY <2>1, <2>2 DEF Closing
      <4>2. Reached(d) \subseteq {d}
        BY <4>1 DEF Reached
      <4>3. d \in Reached(d)
        BY <2>1 DEF Reached
      <4>4. QED
        BY <4>2, <4>3
    <3>2. Fixed(d) = {d}
      BY <2>2, <3>1 DEF Fixed
    <3>3. (CHOOSE e : e \in Fixed(d)) = d
      BY <3>2
    <3>4. QED
      BY <2>1, <2>2, <3>3
  <2>3. CASE d # c /\ ReadMsg(d) # d
    <3>1. Fixed(d) = Fixed(ReadMsg(d))
      BY <2>1, <2>3, ReachedFrom DEF Fixed
    <3>2. QED
      BY <2>1, <2>3, <3>1
  <2>4. CASE d = c
    BY <2>4
  <2>5. QED
    BY <2>2, <2>3, <2>4
<1>2. IsParse(f)
  <2> DEFINE g == [c \in ConnType |-> LET d == ReadMsg(c) IN IF d = c THEN c ELSE f[d]]
  <2>1. \A c \in ConnType : f[c] = g[c]
    BY <1>1
  <2>2. f = [c \in ConnType |-> f[c]]
    OBVIOUS
  <2> HIDE DEF f
  <2>3. f = g
    BY <2>1, <2>2
  <2>4. QED
    BY <2>3 DEF IsParse
<1> HIDE DEF f
<1>3. Parse = CHOOSE g : IsParse(g)
  BY DEF Parse, IsParse
<1>4. QED
  BY <1>2, <1>3

(* What every turn of the loop preserves holds at its end, and a further   *)
(* turn would change nothing.                                              *)
LEMMA ParseEnds ==
  ASSUME NEW S \in SUBSET ConnType, Closing(S), NEW c \in S
  PROVE  Parse[c] \in S /\ ReadMsg(Parse[c]) = Parse[c]
<1> DEFINE P(d) == Parse[d] \in S /\ ReadMsg(Parse[d]) = Parse[d]
           N == {n \in Nat : \A d \in S : ToDo(d) <= n => P(d)}
<1>1. ASSUME NEW d \in S
      PROVE  /\ ReadMsg(d) \in S
             /\ ReadMsg(d) = d \/ ToDo(ReadMsg(d)) < ToDo(d)
             /\ ToDo(d) \in Nat
             /\ Parse[d] = IF ReadMsg(d) = d THEN d ELSE Parse[ReadMsg(d)]
  <2>1. Parse[d] = IF ReadMsg(d) = d THEN d ELSE Parse[ReadMsg(d)]
    BY ParseExists DEF IsParse
  <2>2. QED
    BY <2>1, ToDoIsNat, ReadMsgKeeps DEF Closing
<1>2. 0 \in N
  <2>1. ASSUME NEW d \in S, ToDo(d) <= 0
        PROVE  ReadMsg(d) = d
    BY <1>1, <2>1
  <2>2. QED
    BY <1>1, <2>1
<1>3. ASSUME NEW n \in N
      PROVE  n + 1 \in N
  <2>1. ASSUME NEW d \in S, ToDo(d) <= n + 1, ReadMsg(d) # d
        PROVE  ToDo(ReadMsg(d)) <= n
    BY <1>1, <2>1
  <2> HIDE DEF P
  <2>2. ASSUME NEW d \in S, ToDo(d) <= n + 1
        PROVE  P(d)
    <3>1. CASE ReadMsg(d) = d
      BY <1>1, <3>1 DEF P
    <3>2. CASE ReadMsg(d) # d
      <4>1. P(ReadMsg(d))
        BY <1>1, <1>3, <2>1, <2>2, <3>2
      <4>2. QED
        BY <1>1, <3>2, <4>1 DEF P
    <3>3. QED
      BY <3>1, <3>2
  <2>3. QED
    BY <2>2
<1>4. Nat \subseteq N
  <2> HIDE DEF N
  <2>1. QED
    BY <1>2, <1>3, AllNumbers
<1>5. P(c)
  BY <1>1, <1>4
<1>6. QED
  BY <1>5

(* The loop reads lines and touches nothing else; in particular it never   *)
(* reports a response, and it ends.                                        *)
LEMMA ParseKeeps ==
  ASSUME NEW c \in ConnType
  PROVE  /\ Parse[c] \in ConnType
         /\ Alike(c, Parse[c])
         /\ Len(Parse[c].q) <= Len(c.q)
<1> DEFINE S == {d \in ConnType : Alike(c, d) /\ Len(d.q) <= Len(c.q)}
<1>1. \A d \in ConnType : Len(d.q) \in Nat
  <2>1. \A d \in ConnType : d.q \in Seq(Tokens)
    BY DEF ConnType, Tokens
  <2>2. QED
    BY <2>1, LenProperties
<1>2. c \in S
  BY <1>1 DEF Alike
<1>3. ASSUME NEW d \in S
      PROVE  ReadMsg(d) \in S
  BY <1>1, ReadMsgKeeps DEF Alike
<1>4. Closing(S)
  BY <1>3 DEF Closing
<1>5. Parse[c] \in S
  <2>1. S \in SUBSET ConnType
    OBVIOUS
  <2> HIDE DEF S
  <2>2. QED
    BY <1>2, <1>4, <2>1, ParseEnds
<1>6. QED
  BY <1>5

-----------------------------------------------------------------------------
(* The rest of bc_io_cb. *)

(* The timer runs only until the response is ready: a request that is      *)
(* complete is answered in the same callback, which stops the timer.       *)
TimerSpares(c) == c.timer => ~c.qReady /\ ~c.rReady

LEMMA ResetKeeps ==
  ASSUME NEW c \in ConnType
  PROVE  /\ Reset(c) \in ConnType
         /\ Reset(c).q = c.q /\ Reset(c).timer = c.timer /\ Reset(c).header = c.header
         /\ ~Reset(c).qReady /\ ~Reset(c).rReady
<1>1. NoTarget \in Targets \cup {NoTarget} /\ 0 \in Nat
  OBVIOUS
<1>2. <<>> \in Seq([kind: {"body"}, status: Nat, len: Nat, target: Targets])
  BY EmptySeq
<1>3. QED
  BY <1>1, <1>2, ZenonT(60) DEF Reset, ConnType

LEMMA ClosedIsConn == Closed \in ConnType /\ Len(Closed.q) = 0 /\ ~Closed.open /\ ~Closed.timer
<1>1. \A S : <<>> \in Seq(S)
  BY EmptySeq
<1>2. Len(<<>>) = 0
  BY EmptySeq
<1>3. QED
  BY <1>1, <1>2 DEF Closed, ConnType

LEMMA AtEofKeeps ==
  ASSUME NEW c \in ConnType, ~c.rReady, NEW eof \in BOOLEAN
  PROVE  LET d == AtEof(c, eof) IN
         /\ d \in ConnType /\ ~d.rReady /\ d.q = c.q
         /\ eof => d.qReady
         /\ ~eof => d = c
<1>1. BAD_REQUEST \in Nat
  BY DEF BAD_REQUEST
<1>2. Error(Reset(c), BAD_REQUEST).qReady
  BY ResetKeeps DEF Error, ConnType
<1>3. QED
  BY <1>1, <1>2, ErrorKeeps, ResetKeeps DEF AtEof, Alike

HeadUnits ==
  [kind: {"continue", "header"}, status: Nat, len: Nat, target: Targets \cup {NoTarget}]

LEMMA AddHeader ==
  ASSUME NEW c \in ConnType, NEW unit \in HeadUnits
  PROVE  /\ [c EXCEPT !.header = Append(@, unit)] \in ConnType
         /\ Append(c.header, unit) # <<>>
<1>1. c.header \in Seq(HeadUnits)
  BY DEF ConnType, HeadUnits
<1>2. Append(c.header, unit) \in Seq(HeadUnits) /\ Append(c.header, unit) # <<>>
  BY <1>1, AppendProperties
<1>3. QED
  BY <1>2 DEF ConnType, HeadUnits

LEMMA Expect100Keeps ==
  ASSUME NEW c \in ConnType
  PROVE  LET d == Expect100(c) IN
         /\ d \in ConnType /\ d.q = c.q /\ d.timer = c.timer
         /\ d.qReady = c.qReady /\ d.rReady = c.rReady
<1> DEFINE e == [c EXCEPT !.header = Append(@, Continue)]
           f == [e EXCEPT !.expect = FALSE]
<1>1. Continue \in HeadUnits
  BY DEF Continue, Unit, HeadUnits
<1>2. e \in ConnType
  BY <1>1, AddHeader
<1>3. f = [c EXCEPT !.header = Append(@, Continue), !.expect = FALSE]
  OBVIOUS
<1>4. /\ e.q = c.q /\ e.timer = c.timer
      /\ e.qReady = c.qReady /\ e.rReady = c.rReady
  BY DEF ConnType
<1> HIDE DEF e
<1>5. /\ f \in ConnType /\ f.q = e.q /\ f.timer = e.timer
      /\ f.qReady = e.qReady /\ f.rReady = e.rReady
  BY <1>2 DEF ConnType
<1> HIDE DEF f
<1>6. Expect100(c) \in {c, f}
  BY <1>3 DEF Expect100
<1>7. QED
  BY <1>4, <1>5, <1>6

LEMMA DropKeeps ==
  ASSUME NEW S, NEW q \in Seq(S), NEW i \in Nat
  PROVE  /\ SubSeq(q, i + 1, Len(q)) \in Seq(S)
         /\ Len(SubSeq(q, i + 1, Len(q))) <= Len(q)
<1>1. Len(q) \in Nat
  BY LenProperties
<1>2. \A j \in i + 1..Len(q) : q[j] \in S
  BY <1>1, ElementOfSeq
<1>3. QED
  BY <1>1, <1>2, SubSeqProperties

BodyUnits == [kind: {"body"}, status: Nat, len: Nat, target: Targets]

LEMMA BodyIsSeq ==
  ASSUME NEW n \in Nat, NEW t \in Targets
  PROVE  Body(n, t) \in Seq(BodyUnits)
<1>1. \A i \in 1..n : Unit("body", i, n, t) \in BodyUnits
  BY DEF Unit, BodyUnits
<1>2. Body(n, t) \in [1..n -> BodyUnits]
  BY <1>1 DEF Body
<1>3. QED
  BY <1>2

LEMMA HandledKeeps ==
  ASSUME NEW c \in ConnType
  PROVE  LET d == Handled(c) IN
         /\ d \in ConnType /\ d.q = c.q
         /\ Header(d.status, Len(d.body), d.target) \in HeadUnits
<1> DEFINE d == Handled(c)
<1>1. ASSUME c.target = NoTarget
      PROVE  d \in ConnType /\ d.q = c.q
  BY <1>1, ErrorKeeps DEF Handled, BAD_REQUEST
<1>2. ASSUME c.target # NoTarget
      PROVE  d \in ConnType /\ d.q = c.q
  <2> DEFINE a == Answer[c.target]
             body == Body(a.len, c.target)
  <2>1. c.target \in Targets
    BY <1>2 DEF ConnType
  <2>2. a.status \in Nat /\ a.len \in Nat
    <3>1. a \in [status: 200..599, len: Nat]
      BY <2>1, StreamsAssumption
    <3> HIDE DEF a
    <3>2. QED
      BY <3>1
  <2>3. body \in Seq(BodyUnits)
    BY <2>1, <2>2, BodyIsSeq
  <2>4. d = [c EXCEPT !.status = a.status, !.body = body]
    BY <1>2 DEF Handled
  <2> HIDE DEF d, a, body
  <2>5. QED
    BY <2>2, <2>3, <2>4 DEF ConnType, BodyUnits
<1>3. d \in ConnType /\ d.q = c.q
  BY <1>1, <1>2
<1>4. d.body \in Seq(BodyUnits) /\ d.status \in Nat /\ d.target \in Targets \cup {NoTarget}
  BY <1>3 DEF ConnType, BodyUnits
<1>5. Len(d.body) \in Nat
  BY <1>4, LenProperties
<1> HIDE DEF d
<1>6. Header(d.status, Len(d.body), d.target) \in HeadUnits
  BY <1>4, <1>5 DEF Header, Unit, HeadUnits
<1>7. QED
  BY <1>3, <1>6 DEF d

(* A complete request gets its response at once and the timer is stopped.  *)
LEMMA HandleKeeps ==
  ASSUME NEW c \in ConnType, ~c.rReady
  PROVE  LET d == Handle(c) IN
         /\ d \in ConnType /\ Len(d.q) <= Len(c.q)
         /\ c.qReady => ~d.timer /\ d.header # <<>>
         /\ ~c.qReady => d = c
<1>1. c.q \in Seq(Tokens) /\ Len(c.q) \in Nat /\ c.bodyLen \in Nat
  <2>1. c.q \in Seq(Tokens)
    BY DEF ConnType, Tokens
  <2>2. QED
    BY <2>1, LenProperties DEF ConnType
<1>2. CASE ~c.qReady
  BY <1>1, <1>2 DEF Handle
<1>3. CASE c.qReady
  <2> DEFINE d == Handled(c)
             unit == Header(d.status, Len(d.body), d.target)
             q == SubSeq(c.q, c.bodyLen + 1, Len(c.q))
             e == [d EXCEPT !.header = Append(@, unit)]
             f == [e EXCEPT !.rReady = TRUE, !.q = q, !.timer = FALSE]
  <2>1. d \in ConnType /\ d.q = c.q /\ unit \in HeadUnits
    BY HandledKeeps
  <2>2. q \in Seq(Tokens) /\ Len(q) <= Len(c.q)
    BY <1>1, DropKeeps
  <2>3. Handle(c) = [d EXCEPT !.rReady = TRUE, !.q = SubSeq(@, c.bodyLen + 1, Len(@)),
                              !.header = Append(@, unit), !.timer = FALSE]
    BY <1>3 DEF Handle
  <2> HIDE DEF d, unit
  <2>4. e \in ConnType /\ e.header = Append(d.header, unit) /\ e.header # <<>>
    BY <2>1, AddHeader DEF ConnType
  <2>5. Handle(c) = f
    BY <2>1, <2>3 DEF ConnType
  <2> HIDE DEF e, q
  <2>6. f \in ConnType /\ f.q = q /\ ~f.timer /\ f.header = e.header
    BY <2>2, <2>4 DEF ConnType, Tokens
  <2>7. QED
    BY <1>3, <2>2, <2>4, <2>5, <2>6
<1>4. QED
  BY <1>2, <1>3

(* Whatever is in the buffer and whether or not the client has shut down,  *)
(* the callback ends with the connection freed or waiting for something.   *)
LEMMA ProcessKeeps ==
  ASSUME NEW c \in ConnType, ~c.rReady, NEW eof \in BOOLEAN
  PROVE  LET d == Process(c, eof) IN
         /\ d \in ConnType
         /\ Len(d.q) <= Len(c.q)
         /\ TimerSpares(d)
         /\ d.open => d.events # {}
<1> DEFINE p == Parse[c]
           a == AtEof(p, eof)
           x == Expect100(a)
           h == Handle(x)
           w == Watch(h, eof)
<1>1. p \in ConnType /\ ~p.rReady /\ Len(p.q) <= Len(c.q)
  BY ParseKeeps DEF Alike
<1>2. Process(c, eof) = IF eof /\ ~p.start THEN Closed ELSE w
  BY DEF Process
<1> HIDE DEF p
<1>3. a \in ConnType /\ ~a.rReady /\ a.q = p.q /\ (eof => a.qReady)
  BY <1>1, AtEofKeeps
<1> HIDE DEF a
<1>4. x \in ConnType /\ ~x.rReady /\ x.q = a.q /\ x.qReady = a.qReady
  BY <1>3, Expect100Keeps
<1> HIDE DEF x
<1>5. /\ h \in ConnType /\ Len(h.q) <= Len(x.q)
      /\ TimerSpares(h)
      /\ eof => h.header # <<>>
  BY <1>3, <1>4, HandleKeeps DEF TimerSpares
<1> HIDE DEF h
<1>6. /\ w \in ConnType /\ w.q = h.q
      /\ TimerSpares(w)
      /\ w.events # {}
  <2> DEFINE events == (IF eof THEN {} ELSE {"R"})
                         \cup (IF h.header # <<>> THEN {"W"} ELSE {})
  <2>1. events \in SUBSET {"R", "W"} /\ events # {}
    BY <1>5
  <2>2. w = [h EXCEPT !.events = events]
    BY DEF Watch
  <2> HIDE DEF events, w
  <2>3. QED
    BY <1>5, <2>1, <2>2 DEF ConnType, TimerSpares
<1> HIDE DEF w
<1>7. \A d \in ConnType : Len(d.q) \in Nat
  <2>1. \A d \in ConnType : d.q \in Seq(Tokens)
    BY DEF ConnType, Tokens
  <2>2. QED
    BY <2>1, LenProperties
<1>8. Len(w.q) <= Len(c.q)
  BY <1>1, <1>3, <1>4, <1>5, <1>6, <1>7
<1>9. QED
  BY <1>2, <1>6, <1>7, <1>8, ClosedIsConn DEF TimerSpares

-----------------------------------------------------------------------------
(* Every way through bc_io_cb. *)

LEMMA DrainedKeeps ==
  ASSUME conn \in ConnType, NEW rev \in Revs, NEW m \in Writes(rev)
  PROVE  LET d == Drained(rev, m) IN
         /\ d \in ConnType /\ d.q = conn.q /\ d.timer = conn.timer
         /\ d.qReady = conn.qReady /\ d.rReady = conn.rReady
<1> DEFINE h == Len(conn.header)
           header == SubSeq(conn.header, m + 1, h)
           over == IF m > h THEN m - h ELSE 0
           body == SubSeq(conn.body, over + 1, Len(conn.body))
<1>1. m \in Nat
  BY DEF Writes
<1>2. conn.header \in Seq(HeadUnits) /\ conn.body \in Seq(BodyUnits)
  BY DEF ConnType, HeadUnits, BodyUnits
<1>3. h \in Nat /\ over \in Nat
  BY <1>1, <1>2, LenProperties
<1>4. header \in Seq(HeadUnits)
  BY <1>1, <1>2, DropKeeps
<1> HIDE DEF over
<1>5. body \in Seq(BodyUnits)
  BY <1>2, <1>3, DropKeeps
<1> HIDE DEF header, body
<1>6. ASSUME NEW done \in BOOLEAN
      PROVE  LET d == [conn EXCEPT !.header = header, !.body = body, !.rSent = done] IN
             /\ d \in ConnType /\ d.q = conn.q /\ d.timer = conn.timer
             /\ d.qReady = conn.qReady /\ d.rReady = conn.rReady
  BY <1>4, <1>5 DEF ConnType, HeadUnits, BodyUnits
<1> DEFINE done == conn.rReady /\ m = h + Len(conn.body)
<1>7. done \in BOOLEAN
  OBVIOUS
<1>8. Written(conn, m) = [conn EXCEPT !.header = header, !.body = body, !.rSent = done]
  BY DEF Written, header, body, over
<1> HIDE DEF done
<1>9. LET d == Written(conn, m) IN
      /\ d \in ConnType /\ d.q = conn.q /\ d.timer = conn.timer
      /\ d.qReady = conn.qReady /\ d.rReady = conn.rReady
  BY <1>6, <1>7, <1>8
<1>10. QED
  BY <1>9 DEF Drained

ConnInv == TypeOK /\ Watched /\ TimerSpares(conn)

LEMMA InitConn == Init => ConnInv
<1> SUFFICES ASSUME Init PROVE ConnInv
  OBVIOUS
<1>1. conn \in ConnType /\ Len(conn.q) = 0 /\ conn.events # {}
  BY ClosedIsConn DEF Init, Closed, ConnType
<1>2. ~conn.qReady /\ ~conn.rReady
  BY DEF Init, Closed
<1>3. sent \in Seq(Tokens)
  BY StreamsAssumption DEF Init, Tokens
<1>4. Len(sent) \in Nat
  BY <1>3, LenProperties
<1>5. TypeOK
  <2>1. fin \in BOOLEAN /\ pos = 0
    BY DEF Init
  <2>2. QED
    BY <1>1, <1>3, <1>4, <2>1, StreamsAssumption DEF TypeOK, Tokens
<1>6. QED
  BY <1>1, <1>2, <1>5 DEF ConnInv, Watched, TimerSpares

(* The invariant of a connection that the callback has freed. *)
LEMMA FreedIsGood ==
  ASSUME ConnInv, conn' = Closed, UNCHANGED <<sent, fin, pos>>
  PROVE  ConnInv'
BY ClosedIsConn, StreamsAssumption DEF ConnInv, TypeOK, Watched, TimerSpares

(* When the callback goes on to read it has an exchange with no response.  *)
LEMMA ReadingKeeps ==
  ASSUME ConnInv, NEW rev \in Revs, NEW m \in Writes(rev), GoesOn(rev, m)
  PROVE  LET d == Reading(rev, m) IN
         d \in ConnType /\ d.q = conn.q /\ ~d.rReady
<1> DEFINE d == Drained(rev, m)
<1>1. d \in ConnType /\ d.q = conn.q
  BY DrainedKeeps DEF ConnInv, TypeOK
<1>2. d.rReady => d.rSent
  BY DEF GoesOn
<1>3. Reading(rev, m) = IF d.rSent THEN Reset(d) ELSE d
  BY DEF Reading
<1> HIDE DEF d
<1>4. QED
  BY <1>1, <1>2, <1>3, ResetKeeps

LEMMA KeepWritingIsGood ==
  ASSUME ConnInv, NEW rev \in Revs, NEW m \in Writes(rev), KeepWriting(rev, m)
  PROVE  ConnInv'
<1> DEFINE d == Drained(rev, m)
<1>1. /\ d \in ConnType /\ d.q = conn.q /\ d.timer = conn.timer
      /\ d.qReady = conn.qReady /\ d.rReady = conn.rReady
  BY DrainedKeeps DEF ConnInv, TypeOK
<1>2. conn' = [d EXCEPT !.events = {"W"}] /\ UNCHANGED <<sent, fin, pos>>
  BY DEF KeepWriting
<1> HIDE DEF d
<1>3. conn' \in ConnType /\ conn'.q = conn.q /\ conn'.events # {} /\ TimerSpares(conn')
  BY <1>1, <1>2 DEF ConnType, ConnInv, TimerSpares
<1>4. QED
  BY <1>2, <1>3 DEF ConnInv, TypeOK, Watched, TimerSpares

LEMMA ReadMoreIsGood ==
  ASSUME ConnInv, NEW rev \in Revs, NEW m \in Writes(rev), NEW n \in 0..BufSize,
         ReadMore(rev, m, n)
  PROVE  ConnInv'
<1> DEFINE d == Reading(rev, m)
           piece == SubSeq(sent, pos + 1, pos + n)
           c == [d EXCEPT !.q = @ \o piece]
<1>1. d \in ConnType /\ d.q = conn.q /\ ~d.rReady
  BY ReadingKeeps DEF ReadMore
<1>2. conn.q \in Seq(Tokens) /\ Len(conn.q) \in Nat /\ sent \in Seq(Tokens) /\ Len(sent) \in Nat
  <2>1. conn.q \in Seq(Tokens) /\ sent \in Seq(Tokens)
    BY DEF ConnInv, TypeOK, ConnType, Tokens
  <2>2. QED
    BY <2>1, LenProperties
<1>3. pos \in Nat /\ pos + n <= Len(sent) /\ n <= BufSize - Len(conn.q) /\ n \in Nat
  BY <1>2, StreamsAssumption DEF ReadMore, Room, ConnInv, TypeOK
<1>4. piece \in Seq(Tokens) /\ Len(piece) = n
  <2>1. \A i \in pos + 1..pos + n : sent[i] \in Tokens
    BY <1>2, <1>3, ElementOfSeq
  <2>2. QED
    BY <1>3, <2>1, SubSeqProperties
<1>5. conn' = Process(c, n = 0) /\ pos' = pos + n /\ UNCHANGED <<sent, fin>>
  BY DEF ReadMore
<1> HIDE DEF d, piece
<1>6. c \in ConnType /\ ~c.rReady /\ c.q = conn.q \o piece
  <2>1. conn.q \o piece \in Seq(Tokens)
    BY <1>2, <1>4, ConcatProperties
  <2>2. QED
    BY <1>1, <2>1 DEF ConnType, Tokens
<1>7. Len(c.q) <= BufSize
  <2>1. Len(c.q) = Len(conn.q) + n
    BY <1>2, <1>4, <1>6, ConcatProperties
  <2>2. QED
    BY <1>2, <1>3, <2>1, StreamsAssumption
<1> HIDE DEF c
<1>8. /\ conn' \in ConnType /\ Len(conn'.q) <= Len(c.q)
      /\ TimerSpares(conn')
      /\ conn'.open => conn'.events # {}
  <2> DEFINE eof == n = 0
  <2>1. eof \in BOOLEAN
    OBVIOUS
  <2>2. conn' = Process(c, eof)
    BY <1>5
  <2> HIDE DEF eof
  <2>3. QED
    BY <1>6, <2>1, <2>2, ProcessKeeps
<1>9. Len(conn'.q) <= BufSize
  <2>1. c.q \in Seq(Tokens) /\ conn'.q \in Seq(Tokens)
    BY <1>6, <1>8 DEF ConnType, Tokens
  <2>2. Len(c.q) \in Nat /\ Len(conn'.q) \in Nat
    BY <2>1, LenProperties
  <2>3. QED
    BY <1>7, <1>8, <2>2, StreamsAssumption
<1>10. QED
  BY <1>2, <1>3, <1>5, <1>8, <1>9 DEF ConnInv, TypeOK, Watched, TimerSpares

LEMMA ReadLeftoverIsGood ==
  ASSUME ConnInv, NEW rev \in Revs, NEW m \in Writes(rev), ReadLeftover(rev, m)
  PROVE  ConnInv'
<1> DEFINE c == Reading(rev, m)
           eof == FALSE
<1>1. c \in ConnType /\ c.q = conn.q /\ ~c.rReady
  BY ReadingKeeps DEF ReadLeftover
<1>2. conn' = Process(c, eof) /\ UNCHANGED <<sent, fin, pos>>
  BY DEF ReadLeftover
<1>3. eof \in BOOLEAN
  OBVIOUS
<1> HIDE DEF c, eof
<1>4. /\ conn' \in ConnType /\ Len(conn'.q) <= Len(conn.q)
      /\ TimerSpares(conn')
      /\ conn'.open => conn'.events # {}
  BY <1>1, <1>2, <1>3, ProcessKeeps
<1>5. Len(conn'.q) <= BufSize
  <2>1. conn.q \in Seq(Tokens) /\ conn'.q \in Seq(Tokens)
    BY <1>4 DEF ConnInv, TypeOK, ConnType, Tokens
  <2>2. Len(conn.q) \in Nat /\ Len(conn'.q) \in Nat
    BY <2>1, LenProperties
  <2>3. QED
    BY <1>4, <2>2, StreamsAssumption DEF ConnInv, TypeOK
<1>6. QED
  BY <1>2, <1>4, <1>5 DEF ConnInv, TypeOK, Watched, TimerSpares

LEMMA ShutdownIsGood ==
  ASSUME ConnInv, Shutdown
  PROVE  ConnInv'
<1>1. PICK i \in pos..Len(sent) : sent' = SubSeq(sent, 1, i)
  BY DEF Shutdown
<1>2. sent \in Seq(Tokens) /\ Len(sent) \in Nat /\ pos \in 0..Len(sent)
  <2>1. sent \in Seq(Tokens)
    BY DEF ConnInv, TypeOK, Tokens
  <2>2. QED
    BY <2>1, LenProperties DEF ConnInv, TypeOK
<1>3. i \in Nat /\ pos <= i /\ i <= Len(sent)
  BY <1>2
<1>4. sent' \in Seq(Tokens) /\ Len(sent') = i
  <2>1. \A j \in 1..i : sent[j] \in Tokens
    BY <1>2, <1>3, ElementOfSeq
  <2>2. QED
    BY <1>1, <1>3, <2>1, SubSeqProperties
<1>5. QED
  BY <1>2, <1>3, <1>4 DEF Shutdown, ConnInv, TypeOK, Watched, TimerSpares, Tokens

LEMMA NextConn == ConnInv /\ [Next]_vars => ConnInv'
<1> SUFFICES ASSUME ConnInv, [Next]_vars PROVE ConnInv'
  OBVIOUS
<1>1. ASSUME NEW rev \in Revs, NEW m \in Writes(rev), KeepWriting(rev, m)
      PROVE  ConnInv'
  BY <1>1, KeepWritingIsGood
<1>2. ASSUME NEW rev \in Revs, NEW m \in Writes(rev),
             CloseWhenSent(rev, m) \/ CloseWhenFull(rev, m)
      PROVE  ConnInv'
  BY <1>2, FreedIsGood DEF CloseWhenSent, CloseWhenFull
<1>3. ASSUME NEW n \in 0..BufSize, NEW rev \in Revs, NEW m \in Writes(rev), ReadMore(rev, m, n)
      PROVE  ConnInv'
  BY <1>3, ReadMoreIsGood
<1>4. ASSUME NEW rev \in Revs, NEW m \in Writes(rev), ReadLeftover(rev, m)
      PROVE  ConnInv'
  BY <1>4, ReadLeftoverIsGood
<1>5. CASE IoError \/ Timeout
  BY <1>5, FreedIsGood DEF IoError, Timeout
<1>6. CASE Shutdown
  BY <1>6, ShutdownIsGood
<1>7. CASE UNCHANGED vars
  BY <1>7 DEF vars, ConnInv, TypeOK, Watched, TimerSpares
<1>8. QED
  BY <1>1, <1>2, <1>3, <1>4, <1>5, <1>6, <1>7 DEF Next, IoCb, Calls

(* ConnInv holds whatever pieces the requests arrive in and the socket takes. *)
LEMMA ConnInvAlways == Spec => []ConnInv
BY InitConn, NextConn, PTL DEF Spec

-----------------------------------------------------------------------------
(* The buffers stay in their bounds: n_buf_fill is never asked for more    *)
(* than there is room for.                                                 *)
THEOREM TypeCorrect == Spec => []TypeOK
<1>1. ConnInv => TypeOK
  BY DEF ConnInv
<1>2. QED
  BY <1>1, ConnInvAlways, PTL

(* No way out of bc_io_cb leaves the connection waiting for nothing. *)
THEOREM AlwaysWatched == Spec => []Watched
<1>1. ConnInv => Watched
  BY DEF ConnInv
<1>2. QED
  BY <1>1, ConnInvAlways, PTL

(* A complete request is answered in the callback that finds it complete,  *)
(* and that stops the timer: bc_timer_cb only ends connections that never  *)
(* sent a whole request.                                                   *)
THEOREM TimeoutAlwaysSpares == Spec => TimeoutSparesAnswers
<1>1. ConnInv => [Timeout => ~conn.rReady /\ ~conn.qReady]_vars
  BY DEF ConnInv, TimerSpares, Timeout
<1>2. QED
  BY <1>1, ConnInvAlways, PTL DEF TimeoutSparesAnswers
-----------------------------------------------------------------------------
(* What the client is told, and where a "100 Continue" is in it. *)

Units == HeadUnits \cup BodyUnits

Placed(all) == \A i \in 1..Len(all) - 1 : all[i] = Continue => all[i + 1].kind = "header"

(* The last that was told is that the server waits for more. *)
Waits(all) == all # <<>> /\ all[Len(all)] = Continue

LEMMA UnitAdded ==
  ASSUME NEW all \in Seq(Units), NEW unit \in Units, Placed(all),
         Waits(all) => unit.kind = "header"
  PROVE  /\ Append(all, unit) \in Seq(Units) /\ Placed(Append(all, unit))
         /\ Waits(Append(all, unit)) <=> unit = Continue
<1> DEFINE a == Append(all, unit)
<1>1. /\ a \in Seq(Units) /\ a # <<>> /\ Len(a) = Len(all) + 1 /\ Len(all) \in Nat
      /\ \A i \in 1..Len(all) : a[i] = all[i]
      /\ a[Len(a)] = unit
  BY AppendProperties, LenProperties
<1>2. all = <<>> <=> Len(all) = 0
  BY EmptySeq
<1> HIDE DEF a
<1>3. Placed(a)
  <2>1. SUFFICES ASSUME NEW i \in 1..Len(a) - 1, a[i] = Continue
                 PROVE  a[i + 1].kind = "header"
    BY DEF Placed
  <2>2. CASE i < Len(all)
    BY <1>1, <2>1, <2>2 DEF Placed
  <2>3. CASE i = Len(all)
    BY <1>1, <1>2, <2>1, <2>3 DEF Waits
  <2>4. QED
    BY <1>1, <2>2, <2>3
<1>4. QED
  BY <1>1, <1>3 DEF Waits, a

LEMMA BodyAdded ==
  ASSUME NEW all \in Seq(Units), NEW body \in Seq(BodyUnits), Placed(all), ~Waits(all)
  PROVE  /\ all \o body \in Seq(Units) /\ Placed(all \o body) /\ ~Waits(all \o body)
<1> DEFINE a == all \o body
<1>1. body \in Seq(Units) /\ Len(body) \in Nat /\ Len(all) \in Nat
  <2>1. body \in Seq(Units)
    BY DEF Units
  <2>2. QED
    BY <2>1, LenProperties
<1>2. \A i \in 1..Len(body) : body[i] # Continue
  BY ElementOfSeq DEF BodyUnits, Continue, Unit
<1>3. /\ a \in Seq(Units) /\ Len(a) = Len(all) + Len(body)
      /\ \A i \in 1..Len(a) : a[i] = IF i <= Len(all) THEN all[i] ELSE body[i - Len(all)]
  BY <1>1, ConcatProperties
<1>4. all = <<>> <=> Len(all) = 0
  BY EmptySeq
<1>5. a = <<>> <=> Len(a) = 0
  BY <1>3, EmptySeq
<1> HIDE DEF a
<1>6. \A i \in 1..Len(a) : a[i] = Continue => i < Len(all) /\ all[i] = Continue
  BY <1>1, <1>2, <1>3, <1>4 DEF Waits
<1>7. Placed(a)
  BY <1>1, <1>3, <1>6 DEF Placed
<1>8. ~Waits(a)
  BY <1>1, <1>3, <1>5, <1>6 DEF Waits
<1>9. QED
  BY <1>3, <1>7, <1>8 DEF a

(* What was told stays in place if the rest is never sent. *)
LEMMA StartPlaced ==
  ASSUME NEW a \in Seq(Units), NEW b \in Seq(Units), Placed(a \o b)
  PROVE  Placed(a)
<1>1. /\ Len(a) \in Nat /\ Len(b) \in Nat /\ Len(a \o b) = Len(a) + Len(b)
      /\ \A i \in 1..Len(a) : (a \o b)[i] = a[i]
  BY ConcatProperties, LenProperties
<1> DEFINE c == a \o b
<1> HIDE DEF c
<1>2. Len(c) = Len(a) + Len(b) /\ (\A i \in 1..Len(a) : c[i] = a[i]) /\ Placed(c)
  BY <1>1 DEF c
<1>3. QED
  BY <1>1, <1>2 DEF Placed

LEMMA Regroup ==
  ASSUME NEW a \in Seq(Units), NEW b \in Seq(Units), NEW c \in Seq(Units)
  PROVE  (a \o b) \o c = a \o (b \o c)
BY ConcatAssociative

(* Writing moves units from the buffers to the client and nothing else.    *)
LEMMA NothingLost ==
  ASSUME NEW g \in Seq(Units), NEW h \in Seq(Units), NEW b \in Seq(Units),
         NEW m \in 0..Len(h \o b)
  PROVE  LET over == IF m > Len(h) THEN m - Len(h) ELSE 0
             rest == SubSeq(h, m + 1, Len(h)) \o SubSeq(b, over + 1, Len(b))
         IN /\ g \o SubSeq(h \o b, 1, m) \in Seq(Units)
            /\ (g \o SubSeq(h \o b, 1, m)) \o rest = g \o (h \o b)
<1> DEFINE over == IF m > Len(h) THEN m - Len(h) ELSE 0
           start == SubSeq(h \o b, 1, m)
           hRest == SubSeq(h, m + 1, Len(h))
           bRest == SubSeq(b, over + 1, Len(b))
           out == h \o b
<1>1. /\ Len(g) \in Nat /\ Len(h) \in Nat /\ Len(b) \in Nat /\ out \in Seq(Units)
      /\ Len(out) = Len(h) + Len(b)
      /\ \A i \in 1..Len(out) : out[i] = IF i <= Len(h) THEN h[i] ELSE b[i - Len(h)]
  BY ConcatProperties, LenProperties
<1>2. /\ m \in Nat /\ m <= Len(h) + Len(b) /\ over \in Nat /\ over <= Len(b)
      /\ m > Len(h) => over = m - Len(h)
      /\ m <= Len(h) => over = 0
  BY <1>1
<1> HIDE DEF over
<1>3. /\ start \in Seq(Units) /\ Len(start) = m
      /\ \A i \in 1..m : start[i] = out[i]
  <2>1. \A i \in 1..m : out[i] \in Units
    BY <1>1, <1>2, ElementOfSeq
  <2> HIDE DEF out
  <2>2. QED
    BY <1>1, <1>2, <2>1, SubSeqProperties DEF out
<1>4. /\ hRest \in Seq(Units) /\ Len(hRest) = IF m > Len(h) THEN 0 ELSE Len(h) - m
      /\ \A i \in 1..Len(hRest) : hRest[i] = h[m + i]
  <2>1. \A i \in m + 1..Len(h) : h[i] \in Units
    BY <1>1, <1>2, ElementOfSeq
  <2>2. QED
    BY <1>1, <1>2, <2>1, SubSeqProperties
<1>5. /\ bRest \in Seq(Units) /\ Len(bRest) = Len(b) - over
      /\ \A i \in 1..Len(bRest) : bRest[i] = b[over + i]
  <2>1. \A i \in over + 1..Len(b) : b[i] \in Units
    BY <1>1, <1>2, ElementOfSeq
  <2>2. QED
    BY <1>1, <1>2, <2>1, SubSeqProperties
<1> DEFINE rest == hRest \o bRest
<1> HIDE DEF hRest, bRest, start, out
<1>6. /\ rest \in Seq(Units) /\ Len(rest) = Len(hRest) + Len(bRest)
      /\ \A i \in 1..Len(rest) :
           rest[i] = IF i <= Len(hRest) THEN hRest[i] ELSE bRest[i - Len(hRest)]
  <2>1. hRest \in Seq(Units) /\ bRest \in Seq(Units)
    BY <1>4, <1>5
  <2>2. QED
    BY <2>1, ConcatProperties
<1> HIDE DEF rest
<1>7. start \o rest = out
  <2> DEFINE all == start \o rest
  <2>1. /\ all \in Seq(Units) /\ Len(all) = m + Len(rest)
        /\ \A i \in 1..Len(all) : all[i] = IF i <= m THEN start[i] ELSE rest[i - m]
    <3>1. start \in Seq(Units) /\ Len(start) = m /\ rest \in Seq(Units)
      BY <1>3, <1>6
    <3>2. QED
      BY <3>1, ConcatProperties, SMTT(60)
  <2> HIDE DEF all
  <2> DEFINE toH == Len(hRest)
             toB == Len(bRest)
  <2>2. /\ m > Len(h) => toH = 0 /\ toB = Len(b) - (m - Len(h))
        /\ m <= Len(h) => toH = Len(h) - m /\ toB = Len(b)
        /\ toH \in Nat /\ toB \in Nat /\ toH + toB = Len(out) - m
    <3>1. toH = (IF m > Len(h) THEN 0 ELSE Len(h) - m) /\ toB = Len(b) - over
      BY <1>4, <1>5
    <3> DEFINE hs == Len(h)
               bs == Len(b)
               outs == Len(out)
    <3>2. /\ hs \in Nat /\ bs \in Nat /\ outs = hs + bs /\ m \in Nat /\ m <= hs + bs
          /\ over = IF m > hs THEN m - hs ELSE 0
          /\ toH = (IF m > hs THEN 0 ELSE hs - m) /\ toB = bs - over
      BY <1>1, <1>2, <3>1 DEF over
    <3> HIDE DEF toH, toB, hs, bs, outs
    <3>3. /\ m > hs => toH = 0 /\ toB = bs - (m - hs)
          /\ m <= hs => toH = hs - m /\ toB = bs
          /\ toH \in Nat /\ toB \in Nat /\ toH + toB = outs - m
      BY <3>2
    <3>4. QED
      BY <3>3 DEF hs, bs, outs
  <2>3. Len(all) = Len(out) /\ Len(rest) = Len(out) - m /\ Len(out) \in Nat
    BY <1>1, <1>2, <1>6, <2>1, <2>2
  <2>4. ASSUME NEW i \in 1..Len(out)
        PROVE  all[i] = out[i]
    <3>1. CASE i <= m
      BY <1>2, <1>3, <2>1, <2>3, <3>1
    <3>2. CASE i > m /\ m > Len(h)
      <4>1. i - m \in 1..Len(rest) /\ all[i] = rest[i - m]
        <5>1. i - m \in 1..Len(rest) /\ i \in 1..Len(all) /\ ~(i <= m)
          BY <1>2, <2>3, <3>2
        <5>2. QED
          BY <2>1, <5>1
      <4>2. rest[i - m] = bRest[i - m] /\ i - m \in 1..Len(bRest)
        BY <1>2, <1>6, <2>2, <2>3, <3>2, <4>1
      <4>3. bRest[i - m] = b[i - Len(h)]
        <5>1. bRest[i - m] = b[over + (i - m)]
          BY <1>5, <4>2
        <5>2. over + (i - m) = i - Len(h)
          <6>1. over = m - Len(h) /\ m \in Nat /\ Len(h) \in Nat /\ i \in Int
            BY <1>1, <1>2, <3>2
          <6> HIDE DEF over
          <6>2. QED
            BY <6>1
        <5>3. QED
          BY <5>1, <5>2
      <4>4. QED
        BY <1>1, <1>2, <3>2, <4>1, <4>2, <4>3
    <3>3. CASE i > m /\ m <= Len(h)
      <4>1. i - m \in 1..Len(rest) /\ all[i] = rest[i - m]
        BY <1>2, <2>1, <2>3, <3>3
      <4>2. CASE i <= Len(h)
        <5>1. i - m \in 1..Len(hRest)
          BY <1>1, <1>2, <2>2, <3>3, <4>2
        <5>2. rest[i - m] = hRest[i - m] /\ hRest[i - m] = h[m + (i - m)]
          BY <1>4, <1>6, <4>1, <5>1
        <5>3. m + (i - m) = i
          BY <1>2
        <5>4. QED
          BY <1>1, <4>1, <4>2, <5>2, <5>3
      <4>3. CASE i > Len(h)
        <5>1. rest[i - m] = bRest[i - Len(h)] /\ i - Len(h) \in 1..Len(bRest)
          <6>1. /\ ~(i - m <= Len(hRest)) /\ (i - m) - Len(hRest) = i - Len(h)
                /\ i - Len(h) \in 1..Len(bRest)
            <7> DEFINE hs == Len(h)
            <7>1. /\ hs \in Nat /\ toH = hs - m /\ m \in Nat /\ m <= hs
                  /\ toH + toB = Len(out) - m /\ i \in 1..Len(out) /\ i > hs
                  /\ Len(out) \in Nat /\ toB \in Nat
              BY <1>1, <1>2, <2>2, <2>3, <3>3, <4>3
            <7> HIDE DEF hs, toH, toB
            <7>2. ~(i - m <= toH) /\ (i - m) - toH = i - hs /\ i - hs \in 1..toB
              BY <7>1
            <7>3. QED
              BY <7>2 DEF hs, toH, toB
          <6>2. rest[i - m] = bRest[(i - m) - Len(hRest)]
            BY <1>6, <4>1, <6>1
          <6>3. QED
            BY <6>1, <6>2
        <5>2. QED
          <6>1. bRest[i - Len(h)] = b[over + (i - Len(h))]
            BY <1>5, <5>1
          <6>2. over + (i - Len(h)) = i - Len(h)
            BY <1>1, <1>2, <3>3
          <6>3. QED
            BY <1>1, <4>1, <4>3, <5>1, <6>1, <6>2
      <4>4. QED
        BY <1>1, <4>2, <4>3
    <3>4. QED
      BY <1>1, <1>2, <3>1, <3>2, <3>3
  <2>5. QED
    BY <1>1, <2>1, <2>3, <2>4, SeqEqual DEF all
<1>8. (g \o start) \o rest = g \o (start \o rest)
  <2>1. start \in Seq(Units) /\ rest \in Seq(Units)
    BY <1>3, <1>6
  <2>2. QED
    BY <2>1, Regroup, ZenonT(60)
<1>9. g \o start \in Seq(Units)
  BY <1>3, ConcatProperties
<1>10. QED
  BY <1>7, <1>8, <1>9 DEF start, rest, hRest, bRest, out, over
-----------------------------------------------------------------------------
(* Where a request is read, with s all that is sent and p how much of it   *)
(* the server has read. *)

Read(c, p) == p - Len(c.q)

(* The buffer has what was read last. *)
Follows(c, s, p) ==
  /\ Len(c.q) <= p
  /\ \A x \in 1..Len(c.q) : c.q[x] = s[Read(c, p) + x]

EndsHeader(s, l) == s[l] = NL /\ s[l + 1] = NL

(* An Expect header of this request was read, and nothing after the end of *)
(* its header is taken for another one.                                    *)
Expected(c, s, p) ==
  \E x \in 1..Read(c, p) :
    /\ s[x] = ExpectLine
    /\ \/ c.bodyWait
       \/ s[Read(c, p)] = NL /\ \A l \in x..Read(c, p) - 1 : ~EndsHeader(s, l)

(* Before a request is complete there is at most one answer to its Expect  *)
(* header, waits says if that was given, and only if it has one.           *)
Exchange(c, s, p, waits) ==
  ~c.qReady => /\ c.expect \/ waits => c.start /\ Expected(c, s, p)
               /\ ~(c.expect /\ waits)

Repeats(s, p) ==
  \E i, j \in 1..p : /\ i < j /\ s[i] = ExpectLine /\ s[j] = ExpectLine
                     /\ \A l \in i..j - 1 : ~EndsHeader(s, l)

LEMMA ReadHeaderExpects ==
  ASSUME NEW c \in ConnType, NEW line, ~c.qReady, ~c.bodyWait
  PROVE  LET d == ReadHeader(c, line) IN
         /\ d.start <=> c.start
         /\ line = <<>> => (d.qReady \/ d.bodyWait) /\ (d.expect => c.expect)
         /\ line # <<>> => ~d.bodyWait /\ (d.expect => c.expect \/ line[1] = ExpectLine)
BY DEF ReadHeader, ConnType

LEMMA ReadStartExpects ==
  ASSUME NEW c \in ConnType, NEW line
  PROVE  ReadStart(c, line).expect <=> c.expect
BY DEF ReadStart, Error, ConnType

(* A line is read after another, of a request whose header is not at its   *)
(* end: no header ends in between.                                         *)
LEMMA LineFollows ==
  ASSUME NEW c \in ConnType, NEW s, NEW p \in Nat, Follows(c, s, p), ~c.bodyWait,
         FirstNL(c.q) > 1, NEW x \in 1..Read(c, p),
         s[Read(c, p)] = NL, \A l \in x..Read(c, p) - 1 : ~EndsHeader(s, l)
  PROVE  \A l \in x..(Read(c, p) + FirstNL(c.q)) - 1 : ~EndsHeader(s, l)
<1> DEFINE u == Read(c, p)
           i == FirstNL(c.q)
<1>1. /\ c.q \in Seq(Tokens) /\ Len(c.q) \in Nat /\ i \in 2..Len(c.q) /\ u \in Nat
      /\ \A l \in 1..i - 1 : c.q[l] # NL
  <2>1. c.q \in Seq(Tokens)
    BY DEF ConnType, Tokens
  <2>2. Len(c.q) \in Nat /\ i \in 0..Len(c.q) /\ \A l \in 1..i - 1 : c.q[l] # NL
    BY <2>1, LenProperties, FirstNLIsPlace
  <2>3. QED
    BY <2>1, <2>2 DEF Follows, Read
<1>2. \A l \in 1..i - 1 : s[u + l] # NL
  <2>1. \A l \in 1..Len(c.q) : c.q[l] = s[u + l]
    BY DEF Follows
  <2> HIDE DEF u, i
  <2>2. \A l \in 1..i - 1 : l \in 1..Len(c.q)
    BY <1>1
  <2>3. QED
    BY <1>1, <2>1, <2>2
<1> HIDE DEF u, i
<1>3. ASSUME NEW l \in x..(u + i) - 1
      PROVE  ~EndsHeader(s, l)
  <2>1. CASE l <= u - 1
    BY <1>1, <2>1 DEF u
  <2>2. CASE l = u
    BY <1>1, <1>2, <2>2 DEF EndsHeader
  <2>3. CASE l > u
    <3>1. l - u \in 1..i - 1 /\ u + (l - u) = l
      BY <1>1, <2>3
    <3>2. QED
      BY <1>2, <3>1 DEF EndsHeader
  <2>4. QED
    BY <1>1, <2>1, <2>2, <2>3 DEF u
<1>4. QED
  BY <1>3 DEF u, i

LEMMA LineTaken ==
  ASSUME NEW q \in Seq(Tokens), NEW i \in 1..Len(q)
  PROVE  LET rest == SubSeq(q, i + 1, Len(q))
             line == SubSeq(q, 1, i - 1)
         IN /\ rest \in Seq(Tokens) /\ Len(rest) = Len(q) - i
            /\ \A x \in 1..Len(rest) : rest[x] = q[i + x]
            /\ line = <<>> <=> i = 1
            /\ i > 1 => line[1] = q[1]
<1> DEFINE rest == SubSeq(q, i + 1, Len(q))
           line == SubSeq(q, 1, i - 1)
<1>1. Len(q) \in Nat /\ i \in Nat /\ 1 <= i /\ i <= Len(q)
  BY LenProperties
<1>2. /\ rest \in Seq(Tokens) /\ Len(rest) = Len(q) - i
      /\ \A x \in 1..Len(q) - (i + 1) + 1 : rest[x] = q[i + 1 + x - 1]
  <2>1. \A j \in i + 1..Len(q) : q[j] \in Tokens
    BY <1>1, ElementOfSeq
  <2>2. QED
    BY <1>1, <2>1, SubSeqProperties
<1>3. /\ line \in Seq(Tokens) /\ Len(line) = i - 1
      /\ \A x \in 1..i - 1 - 1 + 1 : line[x] = q[1 + x - 1]
  <2>1. \A j \in 1..i - 1 : q[j] \in Tokens
    BY <1>1, ElementOfSeq
  <2>2. QED
    BY <1>1, <2>1, SubSeqProperties
<1> HIDE DEF rest, line
<1>4. \A x \in 1..Len(rest) : rest[x] = q[i + x]
  <2>1. SUFFICES ASSUME NEW x \in 1..Len(rest)
                 PROVE  rest[x] = q[i + x]
    OBVIOUS
  <2>2. x \in 1..Len(q) - (i + 1) + 1 /\ i + 1 + x - 1 = i + x
    BY <1>1, <1>2
  <2>3. QED
    BY <1>2, <2>2
<1>5. line = <<>> <=> i = 1
  BY <1>1, <1>3, EmptySeq
<1>6. i > 1 => line[1] = q[1]
  <2>1. i > 1 => 1 \in 1..i - 1 - 1 + 1 /\ 1 + 1 - 1 = 1
    BY <1>1
  <2>2. QED
    BY <1>3, <2>1
<1>7. QED
  BY <1>2, <1>4, <1>5, <1>6 DEF rest, line

LEMMA ReadMsgExchanges ==
  ASSUME NEW c \in ConnType, NEW s, NEW p \in Nat, NEW waits \in BOOLEAN,
         ~Repeats(s, p), Follows(c, s, p), Exchange(c, s, p, waits)
  PROVE  Follows(ReadMsg(c), s, p) /\ Exchange(ReadMsg(c), s, p, waits)
<1> DEFINE i == FirstNL(c.q)
           q == SubSeq(c.q, i + 1, Len(c.q))
           d == [c EXCEPT !.q = q]
           line == SubSeq(c.q, 1, i - 1)
           full == [c EXCEPT !.qReady = c.bodyLen <= Len(c.q)]
           m == ReadMsg(c)
           u == Read(c, p)
<1>1. c.q \in Seq(Tokens) /\ Len(c.q) \in Nat
  <2>1. c.q \in Seq(Tokens)
    BY DEF ConnType, Tokens
  <2>2. QED
    BY <2>1, LenProperties
<1>2. /\ i \in 0..Len(c.q) /\ (i # 0 => c.q[i] = NL) /\ \A l \in 1..i - 1 : c.q[l] # NL
  BY <1>1, FirstNLIsPlace
<1>3. \/ m = c
      \/ ~c.qReady /\ m = full
      \/ /\ ~c.qReady /\ ~c.bodyWait /\ i # 0
         /\ m = IF c.start THEN ReadHeader(d, line) ELSE ReadStart(d, line)
  BY DEF ReadMsg, FirstNL
<1>4. /\ u \in Nat /\ u + Len(c.q) = p
      /\ \A x \in 1..Len(c.q) : c.q[x] = s[u + x]
  <2> DEFINE length == Len(c.q)
  <2>1. u = p - length /\ length <= p /\ length \in Nat
    BY <1>1 DEF Follows, Read
  <2>2. \A x \in 1..Len(c.q) : c.q[x] = s[u + x]
    BY DEF Follows
  <2> HIDE DEF u, length
  <2>3. u \in Nat /\ u + length = p
    BY <2>1
  <2>4. QED
    BY <2>2, <2>3 DEF length
<1>5. ASSUME ~c.qReady
      PROVE  /\ c.expect \/ waits =>
                  c.start /\ \E x \in 1..u :
                    /\ s[x] = ExpectLine
                    /\ \/ c.bodyWait
                       \/ s[u] = NL /\ \A l \in x..u - 1 : ~EndsHeader(s, l)
             /\ ~(c.expect /\ waits)
  BY <1>5 DEF Exchange, Expected
<1>6. CASE m = c
  BY <1>6
<1>7. CASE ~c.qReady /\ m = full
  <2>1. \A b : LET f == [c EXCEPT !.qReady = b]
               IN f.q = c.q /\ f.start = c.start /\ f.expect = c.expect /\ f.bodyWait = c.bodyWait
    BY DEF ConnType
  <2>2. m.q = c.q /\ m.start = c.start /\ m.expect = c.expect /\ m.bodyWait = c.bodyWait
    BY <1>7, <2>1, Zenon
  <2> HIDE DEF m
  <2>3. Read(m, p) = Read(c, p) /\ Follows(m, s, p)
    BY <2>2 DEF Follows, Read
  <2>4. Expected(c, s, p) => Expected(m, s, p)
    BY <2>2, <2>3 DEF Expected
  <2>5. Exchange(m, s, p, waits)
    BY <1>7, <2>2, <2>4 DEF Exchange
  <2>6. QED
    BY <2>3, <2>5 DEF m
<1>8. CASE /\ ~c.qReady /\ ~c.bodyWait /\ i # 0
           /\ m = IF c.start THEN ReadHeader(d, line) ELSE ReadStart(d, line)
  <2>1. /\ q \in Seq(Tokens) /\ Len(q) = Len(c.q) - i
        /\ \A x \in 1..Len(q) : q[x] = c.q[i + x]
        /\ line = <<>> <=> i = 1
        /\ i > 1 => line[1] = c.q[1]
    <3>1. i \in 1..Len(c.q)
      BY <1>1, <1>2, <1>8
    <3> HIDE DEF i
    <3>2. QED
      BY <1>1, <3>1, LineTaken
  <2>2. /\ d \in ConnType /\ d.q = q /\ d.start = c.start /\ d.expect = c.expect
        /\ ~d.qReady /\ ~d.bodyWait
    BY <1>8, <2>1 DEF ConnType, Tokens
  <2>4. \A x \in 1..u :
          i > 1 /\ s[u] = NL /\ (\A l \in x..u - 1 : ~EndsHeader(s, l))
            => \A l \in x..(u + i) - 1 : ~EndsHeader(s, l)
    BY <1>8, LineFollows
  <2> HIDE DEF d, line, q, u, i
  <2>5. m.q = q
    BY <1>8, <2>2, ReadHeaderKeeps, ReadStartKeeps
  <2> DEFINE v == u + i
  <2>6. /\ i \in Nat /\ 1 <= i /\ i <= Len(c.q)
        /\ Read(m, p) = v /\ v \in Nat /\ v <= p /\ u < v
    <3> DEFINE length == Len(c.q)
    <3>1. length \in Nat /\ i \in 1..length /\ Read(m, p) = p - (length - i)
      <4>1. length \in Nat /\ i \in 0..length /\ i # 0
        BY <1>1, <1>2, <1>8
      <4>2. Len(m.q) = length - i
        BY <2>1, <2>5
      <4>3. Read(m, p) = p - Len(m.q)
        BY DEF Read
      <4> HIDE DEF length, m
      <4>4. QED
        BY <4>1, <4>2, <4>3
    <3>2. u \in Nat /\ u + length = p
      BY <1>4
    <3> HIDE DEF length, m
    <3>3. p - (length - i) = v
      BY <3>1, <3>2
    <3>4. i \in Nat /\ 1 <= i /\ i <= length /\ v \in Nat /\ v <= p /\ u < v
      BY <3>1, <3>2
    <3>5. Read(m, p) = v
      BY <3>1, <3>3
    <3> HIDE DEF v
    <3>6. QED
      BY <3>4, <3>5 DEF length
  <2>7. Follows(m, s, p)
    <3>1. ASSUME NEW x \in 1..Len(q)
          PROVE  q[x] = s[v + x]
      <4>1. q[x] = c.q[i + x] /\ i + x \in 1..Len(c.q)
        BY <1>1, <2>1, <2>6
      <4>2. c.q[i + x] = s[u + (i + x)]
        BY <1>4, <4>1
      <4>3. u + (i + x) = v + x
        BY <1>4, <2>6
      <4>4. QED
        BY <4>1, <4>2, <4>3
    <3>2. Len(q) <= p
      <4> DEFINE length == Len(c.q)
      <4>1. length \in Nat /\ Len(q) = length - i
        BY <1>1, <2>1
      <4>2. u \in Nat /\ u + length = p
        BY <1>4
      <4> HIDE DEF length
      <4>3. QED
        BY <2>6, <4>1, <4>2
    <3> HIDE DEF m, v
    <3>3. QED
      BY <2>5, <2>6, <3>1, <3>2 DEF Follows
  <2>8. s[v] = NL
    BY <1>2, <1>4, <2>6
  <2>9. CASE ~c.start
    <3>1. ~c.expect /\ ~waits
      BY <1>5, <1>8, <2>9
    <3>2. ~m.expect
      BY <1>8, <2>2, <2>9, <3>1, ReadStartExpects
    <3> HIDE DEF m
    <3>3. Exchange(m, s, p, waits)
      BY <3>1, <3>2 DEF Exchange
    <3>4. QED
      BY <2>7, <3>3 DEF m
  <2>10. CASE c.start /\ i = 1
    <3>1. m.start /\ (m.qReady \/ m.bodyWait) /\ (m.expect => c.expect)
      BY <1>8, <2>1, <2>2, <2>10, ReadHeaderExpects
    <3> HIDE DEF m
    <3>2. ASSUME c.expect \/ waits, m.bodyWait
          PROVE  Expected(m, s, p)
      <4>1. PICK x \in 1..u : s[x] = ExpectLine
        BY <1>5, <1>8, <3>2
      <4>2. x \in 1..v
        BY <1>4, <2>6
      <4> HIDE DEF v
      <4>3. QED
        <5>1. Read(m, p) = v /\ m.bodyWait
          BY <2>6, <3>2
        <5>2. x \in 1..Read(m, p)
          BY <4>2, <5>1
        <5>3. QED
          BY <4>1, <5>1, <5>2 DEF Expected
    <3>3. ~(c.expect /\ waits)
      BY <1>5, <1>8
    <3>4. Exchange(m, s, p, waits)
      BY <3>1, <3>2, <3>3 DEF Exchange
    <3>5. QED
      BY <2>7, <3>4 DEF m
  <2>11. CASE c.start /\ i > 1
    <3>1. m.start /\ ~m.bodyWait /\ (m.expect => c.expect \/ c.q[1] = ExpectLine)
      <4>1. line # <<>> /\ line[1] = c.q[1]
        BY <2>1, <2>6, <2>11
      <4>2. m = ReadHeader(d, line)
        BY <1>8, <2>11
      <4>3. LET e == ReadHeader(d, line) IN
            e.start /\ ~e.bodyWait /\ (e.expect => d.expect \/ line[1] = ExpectLine)
        BY <2>2, <2>11, <4>1, ReadHeaderExpects
      <4> HIDE DEF m
      <4>4. QED
        BY <2>2, <4>1, <4>2, <4>3
    <3> HIDE DEF m
    <3>2. c.q[1] = s[u + 1]
      <4>1. 1 \in 1..Len(c.q)
        BY <1>1, <2>6, <2>11
      <4>2. QED
        BY <1>4, <4>1
    <3>3. ASSUME c.expect \/ waits
          PROVE  \E x \in 1..u : /\ s[x] = ExpectLine
                                 /\ \A l \in x..v - 1 : ~EndsHeader(s, l)
      <4>1. PICK x \in 1..u : /\ s[x] = ExpectLine /\ s[u] = NL
                              /\ \A l \in x..u - 1 : ~EndsHeader(s, l)
        BY <1>5, <1>8, <3>3
      <4>2. \A l \in x..v - 1 : ~EndsHeader(s, l)
        <5>1. i > 1 /\ s[u] = NL /\ \A l \in x..u - 1 : ~EndsHeader(s, l)
          BY <2>11, <4>1
        <5>2. QED
          BY <2>4, <5>1, Zenon
      <4>3. QED
        BY <4>1, <4>2
    <3>4. \A l \in u + 1..v - 1 : ~EndsHeader(s, l)
      <4>1. ASSUME NEW l \in u + 1..v - 1
            PROVE  s[l] # NL
        <5>1. l - u \in 1..i - 1 /\ l - u \in 1..Len(c.q) /\ u + (l - u) = l
          BY <1>1, <1>4, <2>6
        <5>2. c.q[l - u] = s[u + (l - u)]
          BY <1>4, <5>1
        <5>3. QED
          BY <1>2, <5>1, <5>2
      <4>2. QED
        BY <4>1 DEF EndsHeader
    <3>5. ASSUME NEW x \in 1..v, s[x] = ExpectLine, \A l \in x..v - 1 : ~EndsHeader(s, l)
          PROVE  Expected(m, s, p)
      <4> HIDE DEF v
      <4>1. QED
        BY <2>6, <2>8, <3>5 DEF Expected
    <3>6. m.expect \/ waits => Expected(m, s, p)
      <4>1. CASE c.expect \/ waits
        <5>1. \A x \in 1..u : x \in 1..v
          BY <1>4, <2>6
        <5>2. QED
          BY <3>3, <3>5, <4>1, <5>1
      <4>2. CASE m.expect /\ ~c.expect
        <5>1. s[u + 1] = ExpectLine /\ u + 1 \in 1..v
          BY <1>4, <2>6, <3>1, <3>2, <4>2
        <5>2. QED
          BY <3>4, <3>5, <5>1
      <4>3. QED
        BY <4>1, <4>2
    <3>7. ~(m.expect /\ waits)
      <4>1. SUFFICES ASSUME m.expect, waits PROVE FALSE
        OBVIOUS
      <4>2. ~c.expect /\ s[u + 1] = ExpectLine
        BY <1>5, <1>8, <3>1, <3>2, <4>1
      <4>3. PICK x \in 1..u : /\ s[x] = ExpectLine
                              /\ \A l \in x..v - 1 : ~EndsHeader(s, l)
        BY <3>3, <4>1
      <4>4. x \in 1..p /\ u + 1 \in 1..p /\ x < u + 1
        BY <1>4, <2>6
      <4>5. \A l \in x..(u + 1) - 1 : ~EndsHeader(s, l)
        BY <1>4, <2>6, <2>11, <4>3
      <4>6. QED
        BY <4>2, <4>3, <4>4, <4>5 DEF Repeats
    <3>8. Exchange(m, s, p, waits)
      BY <3>1, <3>6, <3>7 DEF Exchange
    <3>9. QED
      BY <2>7, <3>8 DEF m
  <2>12. QED
    BY <2>6, <2>9, <2>10, <2>11
<1>9. QED
  BY <1>3, <1>6, <1>7, <1>8

(* The loop goes through a request as a whole. *)
LEMMA ParseExchanges ==
  ASSUME NEW c \in ConnType, NEW s, NEW p \in Nat, NEW waits \in BOOLEAN,
         ~Repeats(s, p), Follows(c, s, p), Exchange(c, s, p, waits)
  PROVE  Follows(Parse[c], s, p) /\ Exchange(Parse[c], s, p, waits)
<1> DEFINE S == {d \in ConnType : Follows(d, s, p) /\ Exchange(d, s, p, waits)}
<1>1. \A d \in S : ReadMsg(d) \in S
  BY ReadMsgKeeps, ReadMsgExchanges
<1>2. S \in SUBSET ConnType /\ c \in S /\ Closing(S)
  BY <1>1 DEF Closing
<1> HIDE DEF S
<1>3. Parse[c] \in S
  BY <1>2, ParseEnds
<1>4. QED
  BY <1>3 DEF S

-----------------------------------------------------------------------------
(* The rest of the callback, and what the client is told. *)

Due(g, c) == (g \o c.header) \o c.body

LEMMA DueIsSeq ==
  ASSUME NEW g \in Seq(Units), NEW c \in ConnType
  PROVE  /\ c.header \in Seq(Units) /\ c.body \in Seq(BodyUnits) /\ c.body \in Seq(Units)
         /\ g \o c.header \in Seq(Units) /\ Due(g, c) \in Seq(Units)
         /\ c.body = <<>> => Due(g, c) = g \o c.header
<1>1. /\ c.header \in Seq(Units) /\ c.body \in Seq(BodyUnits) /\ c.body \in Seq(Units)
  <2>1. c.header \in Seq(HeadUnits) /\ c.body \in Seq(BodyUnits)
    BY DEF ConnType, HeadUnits, BodyUnits
  <2>2. QED
    BY <2>1 DEF Units
<1>2. g \o c.header \in Seq(Units)
  BY <1>1, ConcatProperties
<1>3. Due(g, c) \in Seq(Units)
  BY <1>1, <1>2, ConcatProperties DEF Due
<1>4. c.body = <<>> => Due(g, c) = g \o c.header
  BY <1>2, ConcatEmptySeq DEF Due
<1>5. QED
  BY <1>1, <1>2, <1>3, <1>4

LEMMA ConcatAppend ==
  ASSUME NEW g \in Seq(Units), NEW h \in Seq(Units), NEW unit \in Units
  PROVE  g \o Append(h, unit) = Append(g \o h, unit)
<1>1. <<unit>> \in Seq(Units) /\ g \o h \in Seq(Units)
  BY ConcatProperties
<1>2. Append(h, unit) = h \o <<unit>> /\ Append(g \o h, unit) = (g \o h) \o <<unit>>
  BY <1>1, AppendIsConcat
<1>3. (g \o h) \o <<unit>> = g \o (h \o <<unit>>)
  BY <1>1, Regroup
<1>4. QED
  BY <1>2, <1>3

(* A connection between two callbacks. *)
Steady(c, s, p, all) ==
  /\ Follows(c, s, p)
  /\ ~c.rSent
  /\ Waits(all) => ~c.rReady
  /\ ~c.rReady => c.body = <<>> /\ Exchange(c, s, p, Waits(all))

LEMMA AtEofPlaces ==
  ASSUME NEW c \in ConnType, NEW eof \in BOOLEAN, c.body = <<>>, ~c.rSent
  PROVE  LET d == AtEof(c, eof) IN
         d.header = c.header /\ d.body = <<>> /\ ~d.rSent
BY DEF AtEof, Error, Reset, ConnType

(* "100 Continue" is appended, after it was last told something else.      *)
LEMMA Expect100Places ==
  ASSUME NEW g \in Seq(Units), NEW c \in ConnType, NEW s, NEW p \in Nat,
         ~c.rReady, Placed(Due(g, c)), Steady(c, s, p, Due(g, c))
  PROVE  LET d == Expect100(c) IN Placed(Due(g, d)) /\ Steady(d, s, p, Due(g, d))
<1> DEFINE d == Expect100(c)
<1>1. CASE ~(c.expect /\ ~c.qReady /\ c.status < 400)
  <2>1. d = c
    BY <1>1 DEF Expect100
  <2> HIDE DEF d
  <2>2. QED
    BY <2>1 DEF d
<1>2. CASE c.expect /\ ~c.qReady /\ c.status < 400
  <2>1. d = [c EXCEPT !.header = Append(@, Continue), !.expect = FALSE]
    BY <1>2 DEF Expect100
  <2>2. d \in ConnType
    BY Expect100Keeps
  <2>3. /\ d.header = Append(c.header, Continue) /\ d.body = c.body /\ d.q = c.q
        /\ ~d.expect /\ ~d.qReady /\ ~d.rReady /\ ~d.rSent
        /\ d.start = c.start /\ d.bodyWait = c.bodyWait
    <3> HIDE DEF d
    <3>1. QED
      BY <1>2, <2>1 DEF Steady, ConnType
  <2>4. Continue \in Units
    BY DEF Continue, Unit, HeadUnits, Units
  <2> HIDE DEF d
  <2>5. c.body = <<>> /\ Exchange(c, s, p, Waits(Due(g, c))) /\ Follows(c, s, p)
    BY DEF Steady
  <2>6. ~Waits(Due(g, c)) /\ c.start /\ Expected(c, s, p)
    BY <1>2, <2>5 DEF Exchange
  <2>7. Due(g, d) = Append(Due(g, c), Continue)
    <3>1. Due(g, d) = g \o d.header /\ Due(g, c) = g \o c.header /\ c.header \in Seq(Units)
      BY <2>2, <2>3, <2>5, DueIsSeq
    <3>2. g \o Append(c.header, Continue) = Append(g \o c.header, Continue)
      BY <2>4, <3>1, ConcatAppend
    <3>3. QED
      BY <2>3, <3>1, <3>2
  <2>8. Placed(Due(g, d)) /\ Waits(Due(g, d))
    BY <2>4, <2>6, <2>7, DueIsSeq, UnitAdded
  <2>9. Follows(d, s, p) /\ Expected(d, s, p)
    BY <2>3, <2>5, <2>6 DEF Follows, Expected, Read
  <2>10. Exchange(d, s, p, Waits(Due(g, d)))
    BY <2>3, <2>6, <2>9 DEF Exchange
  <2>11. QED
    BY <2>3, <2>5, <2>8, <2>9, <2>10 DEF Steady, d
<1>3. QED
  BY <1>1, <1>2

LEMMA HandledPlaces ==
  ASSUME NEW c \in ConnType, ~c.rSent
  PROVE  Handled(c).header = c.header /\ ~Handled(c).rSent
BY DEF Handled, Error, ConnType

(* The body of a request is dropped from the front of the buffer. *)
LEMMA DropFollows ==
  ASSUME NEW c \in ConnType, NEW d \in ConnType, NEW s, NEW p \in Nat, NEW k \in Nat,
         Follows(c, s, p), d.q = SubSeq(c.q, k + 1, Len(c.q))
  PROVE  Follows(d, s, p)
<1> DEFINE length == Len(c.q)
           rest == Len(d.q)
<1>1. c.q \in Seq(Tokens) /\ length \in Nat /\ length <= p
  <2>1. c.q \in Seq(Tokens)
    BY DEF ConnType, Tokens
  <2>2. QED
    BY <2>1, LenProperties DEF Follows
<1>2. /\ rest = IF k + 1 <= length THEN length - (k + 1) + 1 ELSE 0
      /\ \A x \in 1..length - (k + 1) + 1 : d.q[x] = c.q[k + 1 + x - 1]
  <2>1. \A j \in k + 1..Len(c.q) : c.q[j] \in Tokens
    BY <1>1, ElementOfSeq
  <2>2. QED
    BY <1>1, <2>1, SubSeqProperties
<1>3. \A x \in 1..length : c.q[x] = s[p - length + x]
  BY DEF Follows, Read
<1> HIDE DEF length, rest
<1>4. rest \in Nat /\ rest <= p
  BY <1>1, <1>2
<1>5. ASSUME NEW x \in 1..rest
      PROVE  d.q[x] = s[p - rest + x]
  <2>1. /\ x \in 1..length - (k + 1) + 1 /\ k + 1 + x - 1 \in 1..length
        /\ p - length + (k + 1 + x - 1) = p - rest + x
    BY <1>1, <1>2
  <2>2. QED
    BY <1>2, <1>3, <2>1
<1>6. QED
  BY <1>4, <1>5 DEF Follows, Read, rest

(* A response is appended after all that was told, a "100 Continue" too.   *)
LEMMA HandlePlaces ==
  ASSUME NEW g \in Seq(Units), NEW c \in ConnType, NEW s, NEW p \in Nat,
         ~c.rReady, Placed(Due(g, c)), Steady(c, s, p, Due(g, c))
  PROVE  LET d == Handle(c) IN Placed(Due(g, d)) /\ Steady(d, s, p, Due(g, d))
<1>1. CASE ~c.qReady
  <2>1. Handle(c) = c
    BY <1>1 DEF Handle
  <2>2. QED
    BY <2>1
<1>2. CASE c.qReady
  <2> DEFINE e == Handled(c)
             unit == Header(e.status, Len(e.body), e.target)
             d == Handle(c)
  <2>1. /\ e \in ConnType /\ e.q = c.q /\ e.header = c.header /\ ~e.rSent
        /\ unit \in HeadUnits /\ unit.kind = "header"
    BY HandledKeeps, HandledPlaces DEF Steady, Header, Unit
  <2>2. d = [e EXCEPT !.rReady = TRUE, !.q = SubSeq(@, c.bodyLen + 1, Len(@)),
                      !.header = Append(@, unit), !.timer = FALSE]
    BY <1>2 DEF Handle
  <2>3. d \in ConnType
    BY HandleKeeps
  <2> HIDE DEF e, unit, d
  <2>4. /\ d.header = Append(c.header, unit) /\ d.body = e.body /\ d.rReady /\ ~d.rSent
        /\ d.q = SubSeq(c.q, c.bodyLen + 1, Len(c.q))
    BY <2>1, <2>2 DEF ConnType
  <2>5. c.body = <<>> /\ Follows(c, s, p) /\ c.bodyLen \in Nat
    BY DEF Steady, ConnType
  <2>6. Follows(d, s, p)
    BY <2>3, <2>4, <2>5, DropFollows
  <2>7. unit \in Units
    BY <2>1 DEF Units
  <2>8. c.header \in Seq(Units) /\ g \o c.header \in Seq(Units) /\ Due(g, c) = g \o c.header
    BY <2>5, DueIsSeq
  <2>9. g \o d.header = Append(Due(g, c), unit)
    <3>1. g \o Append(c.header, unit) = Append(g \o c.header, unit)
      BY <2>7, <2>8, ConcatAppend, Zenon
    <3>2. QED
      BY <2>4, <2>8, <3>1, Zenon
  <2>10. g \o d.header \in Seq(Units) /\ Placed(g \o d.header) /\ ~Waits(g \o d.header)
    <3>1. unit # Continue
      BY <2>1 DEF Continue, Unit
    <3>2. QED
      BY <2>1, <2>7, <2>8, <2>9, <3>1, UnitAdded
  <2>11. d.body \in Seq(BodyUnits)
    BY <2>3, DueIsSeq
  <2>12. Placed(Due(g, d)) /\ ~Waits(Due(g, d))
    BY <2>10, <2>11, BodyAdded DEF Due
  <2>13. QED
    BY <2>4, <2>6, <2>12 DEF Steady, d
<1>3. QED
  BY <1>1, <1>2

LEMMA ProcessPlaces ==
  ASSUME NEW g \in Seq(Units), NEW c \in ConnType, NEW s, NEW p \in Nat, NEW eof \in BOOLEAN,
         ~Repeats(s, p), ~c.rReady, Placed(Due(g, c)), Steady(c, s, p, Due(g, c))
  PROVE  LET d == Process(c, eof) IN
         Placed(Due(g, d)) /\ (d.open => Steady(d, s, p, Due(g, d)))
<1> DEFINE e == Parse[c]
           a == AtEof(e, eof)
           x == Expect100(a)
           h == Handle(x)
           w == Watch(h, eof)
           all == Due(g, c)
<1>1. all \in Seq(Units) /\ c.body = <<>>
  BY DueIsSeq DEF Steady
<1>2. /\ e \in ConnType /\ e.header = c.header /\ e.body = <<>> /\ ~e.rReady /\ ~e.rSent
      /\ Follows(e, s, p) /\ Exchange(e, s, p, Waits(all))
  <2>1. e \in ConnType /\ Alike(c, e)
    BY ParseKeeps
  <2>2. Follows(e, s, p) /\ Exchange(e, s, p, Waits(all))
    <3>1. Waits(all) \in BOOLEAN
      BY DEF Waits
    <3>2. Follows(c, s, p) /\ Exchange(c, s, p, Waits(all))
      BY DEF Steady
    <3> HIDE DEF all
    <3>3. QED
      BY <3>1, <3>2, ParseExchanges
  <2> HIDE DEF e
  <2>3. QED
    BY <1>1, <2>1, <2>2 DEF Alike, Steady
<1>3. Process(c, eof) = IF eof /\ ~e.start THEN Closed ELSE w
  BY DEF Process
<1> HIDE DEF e
<1>4. CASE eof /\ ~e.start
  <2>1. Due(g, Closed) = g
    <3>1. Due(g, Closed) = (g \o <<>>) \o <<>>
      BY DEF Due, Closed
    <3>2. QED
      BY <3>1, ConcatEmptySeq
  <2>2. Placed(g)
    <3>1. all = g \o c.header /\ c.header \in Seq(Units)
      BY <1>1, DueIsSeq
    <3>2. Placed(g \o c.header)
      BY <3>1
    <3>3. QED
      BY <3>1, <3>2, StartPlaced
  <2>3. QED
    BY <1>3, <1>4, <2>1, <2>2, ClosedIsConn
<1>5. CASE ~(eof /\ ~e.start)
  <2>1. /\ a \in ConnType /\ ~a.rReady /\ a.q = e.q /\ (eof => a.qReady) /\ (~eof => a = e)
        /\ a.header = c.header /\ a.body = <<>> /\ ~a.rSent
    BY <1>2, AtEofKeeps, AtEofPlaces
  <2> HIDE DEF a
  <2>2. Due(g, a) = all
    BY <1>1, <2>1 DEF Due
  <2> HIDE DEF all
  <2>3. Follows(a, s, p) /\ Exchange(a, s, p, Waits(all))
    <3>1. Follows(a, s, p)
      BY <1>2, <2>1 DEF Follows, Read
    <3>2. CASE eof
      BY <2>1, <3>1, <3>2 DEF Exchange
    <3>3. CASE ~eof
      BY <1>2, <2>1, <3>1, <3>3
    <3>4. QED
      BY <3>2, <3>3
  <2>4. Placed(Due(g, a)) /\ Steady(a, s, p, Due(g, a))
    BY <2>1, <2>2, <2>3 DEF Steady, all
  <2>5. /\ x \in ConnType /\ ~x.rReady
        /\ Placed(Due(g, x)) /\ Steady(x, s, p, Due(g, x))
    BY <2>1, <2>4, Expect100Keeps, Expect100Places
  <2> HIDE DEF x
  <2>6. h \in ConnType /\ Placed(Due(g, h)) /\ Steady(h, s, p, Due(g, h))
    BY <2>5, HandleKeeps, HandlePlaces
  <2> HIDE DEF h
  <2>7. /\ w.q = h.q /\ w.header = h.header /\ w.body = h.body /\ w.rSent = h.rSent
        /\ w.rReady = h.rReady /\ w.qReady = h.qReady /\ w.expect = h.expect
        /\ w.start = h.start /\ w.bodyWait = h.bodyWait
    BY <2>6 DEF Watch, ConnType
  <2> HIDE DEF w
  <2>8. Due(g, w) = Due(g, h)
    BY <2>7 DEF Due
  <2>9. Steady(w, s, p, Due(g, h))
    BY <2>6, <2>7 DEF Steady, Follows, Exchange, Expected, Read
  <2>10. QED
    BY <1>3, <1>5, <2>6, <2>8, <2>9
<1>6. QED
  BY <1>4, <1>5

PlaceInv ==
  ~RepeatsExpect =>
    /\ got \in Seq(Units) /\ Placed(Due(got, conn))
    /\ conn.open => Steady(conn, sent, pos, Due(got, conn))

(* What Written leaves of the connection. *)
LEMMA DrainedPlaces ==
  ASSUME conn \in ConnType, got \in Seq(Units), ~conn.rSent, ~conn.rReady => conn.body = <<>>,
         NEW rev \in Revs, NEW m \in Writes(rev)
  PROVE  LET d == Drained(rev, m)
             g == got \o SubSeq(Out, 1, m)
         IN /\ g \in Seq(Units) /\ Due(g, d) = Due(got, conn)
            /\ d.q = conn.q /\ d.start = conn.start /\ d.bodyWait = conn.bodyWait
            /\ d.expect = conn.expect /\ d.qReady = conn.qReady /\ d.rReady = conn.rReady
            /\ d.rSent => conn.rReady
            /\ d.rSent \/ ~conn.rReady => d.body = <<>>
<1> DEFINE h == conn.header
           b == conn.body
           over == IF m > Len(h) THEN m - Len(h) ELSE 0
           d == Drained(rev, m)
           g == got \o SubSeq(Out, 1, m)
<1>1. h \in Seq(Units) /\ b \in Seq(Units) /\ Len(h) \in Nat /\ Len(b) \in Nat
  <2>1. h \in Seq(Units) /\ b \in Seq(Units)
    BY DueIsSeq
  <2> HIDE DEF h, b
  <2>2. QED
    BY <2>1, LenProperties
<1>2. Out = h \o b
  BY DEF Out
<1>3. CASE "W" \in rev
  <2>1. m \in 0..Len(h \o b)
    BY <1>2, <1>3 DEF Writes
  <2> DEFINE header == SubSeq(h, m + 1, Len(h))
             body == SubSeq(b, over + 1, Len(b))
             done == conn.rReady /\ m = Len(h) + Len(b)
  <2>2. d = [conn EXCEPT !.header = header, !.body = body, !.rSent = done]
    BY <1>3 DEF Drained, Written
  <2>3. g \in Seq(Units) /\ g \o (header \o body) = got \o (h \o b)
    <3> HIDE DEF h, b
    <3>1. QED
      BY <1>1, <1>2, <2>1, NothingLost
  <2>4. m \in Nat /\ m <= Len(h) + Len(b)
    <3> HIDE DEF h, b
    <3>1. Len(h \o b) = Len(h) + Len(b)
      BY <1>1, ConcatProperties
    <3>2. QED
      BY <1>1, <2>1, <3>1
  <2>5. header \in Seq(Units) /\ body \in Seq(Units)
    <3>1. over \in Nat
      BY <1>1, <2>4
    <3> HIDE DEF over, h, b
    <3>2. QED
      BY <1>1, <2>4, <3>1, DropKeeps
  <2>6. done \/ b = <<>> => body = <<>>
    <3>1. ASSUME done
          PROVE  body = <<>>
      <4> DEFINE kh == Len(h)
                 kb == Len(b)
      <4>1. /\ kh \in Nat /\ kb \in Nat /\ m = kh + kb
            /\ over = IF m > kh THEN m - kh ELSE 0
        BY <1>1, <3>1
      <4> HIDE DEF over, kh, kb
      <4>2. over + 1 \in Int /\ kb \in Int /\ kb < over + 1
        BY <4>1
      <4> HIDE DEF b
      <4>3. QED
        BY <4>2, SubSeqEmpty DEF kb
    <3>2. ASSUME b = <<>>
          PROVE  body = <<>>
      <4>1. over + 1 \in Int /\ Len(b) \in Int /\ Len(b) < over + 1
        BY <1>1, <2>4, <3>2, EmptySeq
      <4> HIDE DEF over, b
      <4>2. QED
        BY <4>1, SubSeqEmpty
    <3>3. QED
      BY <3>1, <3>2
  <2>7. done => conn.rReady
    OBVIOUS
  <2> HIDE DEF header, body, done, d, over, g
  <2>8. /\ d.header = header /\ d.body = body /\ (d.rSent <=> done)
        /\ d.q = conn.q /\ d.start = conn.start /\ d.bodyWait = conn.bodyWait
        /\ d.expect = conn.expect /\ d.qReady = conn.qReady /\ d.rReady = conn.rReady
    BY <2>2 DEF ConnType
  <2>9. Due(g, d) = Due(got, conn)
    <3>1. (g \o header) \o body = g \o (header \o body)
      <4>1. g \in Seq(Units) /\ header \in Seq(Units) /\ body \in Seq(Units)
        BY <2>3, <2>5
      <4>2. QED
        BY <4>1, Regroup, ZenonT(60)
    <3>2. (got \o h) \o b = got \o (h \o b)
      <4> HIDE DEF h, b
      <4>1. QED
        BY <1>1, Regroup
    <3>3. QED
      BY <2>3, <2>8, <3>1, <3>2 DEF Due
  <2>10. QED
    BY <2>3, <2>6, <2>7, <2>8, <2>9 DEF d, g
<1>4. CASE "W" \notin rev
  <2>1. d = conn /\ m = 0
    BY <1>4 DEF Drained, Writes
  <2>2. g = got
    <3>1. SubSeq(Out, 1, 0) = <<>>
      BY SubSeqEmpty
    <3>2. QED
      BY <2>1, <3>1, ConcatEmptySeq
  <2> HIDE DEF d, g
  <2>3. QED
    BY <2>1, <2>2 DEF d, g
<1>5. QED
  BY <1>3, <1>4

(* When the callback goes on to read, what it knows of the request is true *)
(* of the exchange it reads in, a new one too. *)
LEMMA ReadingPlaces ==
  ASSUME ConnInv, PlaceInv, ~RepeatsExpect,
         NEW rev \in Revs, NEW m \in Writes(rev), GoesOn(rev, m)
  PROVE  LET c == Reading(rev, m)
             g == got \o SubSeq(Out, 1, m)
         IN /\ g \in Seq(Units) /\ Placed(Due(g, c))
            /\ Steady(c, sent, pos, Due(g, c))
<1> DEFINE d == Drained(rev, m)
           c == Reading(rev, m)
           g == got \o SubSeq(Out, 1, m)
           all == Due(got, conn)
<1>1. /\ conn \in ConnType /\ got \in Seq(Units) /\ Placed(all)
      /\ Steady(conn, sent, pos, all)
  BY DEF ConnInv, TypeOK, PlaceInv, GoesOn, Revents
<1>2. ~conn.rSent /\ (~conn.rReady => conn.body = <<>>)
  BY <1>1 DEF Steady
<1>3. /\ g \in Seq(Units) /\ Due(g, d) = all
      /\ d.q = conn.q /\ d.start = conn.start /\ d.bodyWait = conn.bodyWait
      /\ d.expect = conn.expect /\ d.qReady = conn.qReady /\ d.rReady = conn.rReady
      /\ d.rSent => conn.rReady
      /\ d.rSent \/ ~conn.rReady => d.body = <<>>
  BY <1>1, <1>2, DrainedPlaces
<1>4. d \in ConnType
  BY <1>1, DrainedKeeps
<1>5. c = (IF d.rSent THEN Reset(d) ELSE d) /\ (d.rReady => d.rSent)
  BY DEF Reading, GoesOn
<1> HIDE DEF d, g, all, c
<1>6. CASE d.rSent
  <2>1. /\ c.q = conn.q /\ c.header = d.header /\ c.body = <<>>
        /\ ~c.expect /\ ~c.rReady /\ ~c.rSent
    BY <1>3, <1>4, <1>5, <1>6 DEF Reset, ConnType
  <2>2. Due(g, c) = all
    BY <1>3, <1>6, <2>1 DEF Due
  <2>3. ~Waits(all) /\ Follows(conn, sent, pos)
    BY <1>1, <1>3, <1>6 DEF Steady
  <2>4. Follows(c, sent, pos) /\ Exchange(c, sent, pos, Waits(all))
    BY <2>1, <2>3 DEF Follows, Read, Exchange
  <2>5. QED
    BY <1>1, <1>3, <2>1, <2>2, <2>3, <2>4 DEF Steady, c, g
<1>7. CASE ~d.rSent
  <2>1. c = d /\ ~c.rReady /\ ~conn.rReady
    BY <1>3, <1>5, <1>7
  <2>2. Follows(conn, sent, pos) /\ Exchange(conn, sent, pos, Waits(all))
    BY <1>1, <2>1 DEF Steady
  <2>3. Follows(d, sent, pos) /\ Exchange(d, sent, pos, Waits(all))
    BY <1>3, <2>2 DEF Follows, Read, Exchange, Expected
  <2>4. QED
    BY <1>1, <1>3, <1>7, <2>1, <2>3 DEF Steady, c, g
<1>8. QED
  BY <1>6, <1>7

(* A response of which a part is written. *)
LEMMA KeepWritingPlaces ==
  ASSUME ConnInv, PlaceInv, ~RepeatsExpect,
         NEW rev \in Revs, NEW m \in Writes(rev), KeepWriting(rev, m)
  PROVE  /\ got' \in Seq(Units) /\ Placed(Due(got', conn'))
         /\ Steady(conn', sent, pos, Due(got', conn'))
<1> DEFINE d == Drained(rev, m)
           g == got \o SubSeq(Out, 1, m)
           all == Due(got, conn)
<1>1. /\ conn \in ConnType /\ got \in Seq(Units) /\ Placed(all)
      /\ Steady(conn, sent, pos, all)
  BY DEF ConnInv, TypeOK, PlaceInv, KeepWriting, Revents
<1>2. ~conn.rSent /\ (~conn.rReady => conn.body = <<>>)
  BY <1>1 DEF Steady
<1>3. /\ g \in Seq(Units) /\ Due(g, d) = all /\ d.q = conn.q
  BY <1>1, <1>2, DrainedPlaces
<1>4. d \in ConnType
  BY <1>1, DrainedKeeps
<1>5. conn' = [d EXCEPT !.events = {"W"}] /\ got' = g /\ d.rReady /\ ~d.rSent
  BY DEF KeepWriting
<1>6. d.rReady = conn.rReady
  BY <1>1, <1>2, DrainedPlaces
<1> HIDE DEF d, g, all
<1>7. /\ conn'.header = d.header /\ conn'.body = d.body /\ conn'.q = conn.q
      /\ conn'.rReady /\ ~conn'.rSent
  BY <1>3, <1>4, <1>5 DEF ConnType
<1>8. Due(got', conn') = all
  BY <1>3, <1>5, <1>7 DEF Due
<1>9. Follows(conn', sent, pos) /\ ~Waits(all)
  BY <1>1, <1>5, <1>6, <1>7 DEF Steady, Follows, Read
<1>10. QED
  BY <1>1, <1>3, <1>5, <1>7, <1>8, <1>9 DEF Steady

(* A connection that is freed: what was written of it stays. *)
LEMMA FreedPlaces ==
  ASSUME NEW g \in Seq(Units), NEW d \in ConnType, Placed(Due(g, d))
  PROVE  Placed(Due(g, Closed))
<1>1. Due(g, Closed) = g
  <2>1. Due(g, Closed) = (g \o <<>>) \o <<>>
    BY DEF Due, Closed
  <2>2. QED
    BY <2>1, ConcatEmptySeq
<1>2. /\ d.header \in Seq(Units) /\ d.body \in Seq(Units) /\ g \o d.header \in Seq(Units)
      /\ Placed((g \o d.header) \o d.body)
  BY DueIsSeq DEF Due
<1>3. Placed(g \o d.header)
  BY <1>2, StartPlaced
<1>4. QED
  BY <1>1, <1>2, <1>3, StartPlaced

LEMMA ClosePlaces ==
  ASSUME ConnInv, PlaceInv, ~RepeatsExpect,
         NEW rev \in Revs, NEW m \in Writes(rev), CloseWhenSent(rev, m) \/ CloseWhenFull(rev, m)
  PROVE  got' \in Seq(Units) /\ Placed(Due(got', conn')) /\ ~conn'.open
<1> DEFINE d == Drained(rev, m)
           g == got \o SubSeq(Out, 1, m)
<1>1. /\ conn \in ConnType /\ got \in Seq(Units) /\ Placed(Due(got, conn))
      /\ Steady(conn, sent, pos, Due(got, conn))
  BY DEF ConnInv, TypeOK, PlaceInv, CloseWhenSent, CloseWhenFull, GoesOn, Revents
<1>2. ~conn.rSent /\ (~conn.rReady => conn.body = <<>>)
  BY <1>1 DEF Steady
<1>3. g \in Seq(Units) /\ Due(g, d) = Due(got, conn)
  BY <1>1, <1>2, DrainedPlaces
<1>4. d \in ConnType
  BY <1>1, DrainedKeeps
<1>5. conn' = Closed /\ got' = g
  BY DEF CloseWhenSent, CloseWhenFull, GoesOn
<1> HIDE DEF d, g
<1>6. Placed(Due(g, Closed))
  BY <1>1, <1>3, <1>4, FreedPlaces
<1>7. QED
  BY <1>3, <1>5, <1>6, ClosedIsConn

(* What was read last is at the end of the buffer. *)
LEMMA PieceFollows ==
  ASSUME NEW c \in ConnType, NEW d \in ConnType, NEW s \in Seq(Tokens), NEW p \in Nat,
         NEW n \in Nat, p + n <= Len(s), Follows(c, s, p),
         d.q = c.q \o SubSeq(s, p + 1, p + n)
  PROVE  Follows(d, s, p + n) /\ Read(d, p + n) = Read(c, p)
<1> DEFINE piece == SubSeq(s, p + 1, p + n)
           old == Len(c.q)
           new == Len(d.q)
<1>1. c.q \in Seq(Tokens) /\ old \in Nat /\ Len(s) \in Nat
  <2>1. c.q \in Seq(Tokens)
    BY DEF ConnType, Tokens
  <2>2. QED
    BY <2>1, LenProperties
<1>2. piece \in Seq(Tokens) /\ Len(piece) = n /\ \A x \in 1..n : piece[x] = s[p + x]
  <2>1. \A i \in p + 1..p + n : s[i] \in Tokens
    BY <1>1, ElementOfSeq
  <2>2. /\ piece \in Seq(Tokens) /\ Len(piece) = n
        /\ \A x \in 1..n : piece[x] = s[p + 1 + x - 1]
    BY <2>1, SubSeqProperties
  <2> HIDE DEF piece
  <2>3. \A x \in 1..n : p + 1 + x - 1 = p + x
    OBVIOUS
  <2>4. QED
    BY <2>2, <2>3
<1> HIDE DEF piece
<1> DEFINE before == c.q
           after == d.q
<1>3. /\ new = old + n
      /\ \A x \in 1..new : after[x] = IF x <= old THEN before[x] ELSE piece[x - old]
  <2>1. before \in Seq(Tokens) /\ piece \in Seq(Tokens) /\ after = before \o piece
    BY <1>1, <1>2 DEF piece
  <2>2. new = Len(after) /\ old = Len(before)
    OBVIOUS
  <2> HIDE DEF before, after, old, new
  <2>3. /\ Len(before \o piece) = Len(before) + Len(piece)
        /\ \A x \in 1..Len(before) + Len(piece) :
             (before \o piece)[x]
               = IF x <= Len(before) THEN before[x] ELSE piece[x - Len(before)]
    BY <2>1, ConcatProperties
  <2>4. QED
    BY <1>2, <2>1, <2>2, <2>3
<1> DEFINE u == p - old
<1>4. old <= p /\ \A x \in 1..old : before[x] = s[u + x]
  BY DEF Follows, Read
<1> HIDE DEF old, new, before, after
<1>5. new \in Nat /\ new <= p + n /\ (p + n) - new = u /\ u \in Nat
  BY <1>1, <1>3, <1>4
<1>6. ASSUME NEW x \in 1..new
      PROVE  after[x] = s[u + x]
  <2>1. CASE x <= old
    <3>1. x \in 1..old
      BY <1>5, <2>1
    <3>2. QED
      BY <1>3, <1>4, <2>1, <3>1
  <2>2. CASE ~(x <= old)
    <3>1. x - old \in 1..n /\ p + (x - old) = u + x
      BY <1>1, <1>3, <1>5, <2>2
    <3>2. piece[x - old] = s[u + x]
      BY <1>2, <3>1
    <3>3. QED
      BY <1>3, <2>2, <3>2
  <2>3. QED
    BY <2>1, <2>2
<1>7. Read(d, p + n) = u /\ Read(c, p) = u
  BY <1>5 DEF Read, old, new
<1> HIDE DEF u
<1>8. Follows(d, s, p + n)
  BY <1>5, <1>6, <1>7 DEF Follows, new, after
<1>9. QED
  BY <1>7, <1>8

LEMMA ReadMorePlaces ==
  ASSUME ConnInv, PlaceInv, ~RepeatsExpect, ~RepeatsExpect', NEW n \in 0..BufSize,
         NEW rev \in Revs, NEW m \in Writes(rev), ReadMore(rev, m, n)
  PROVE  /\ got' \in Seq(Units) /\ Placed(Due(got', conn'))
         /\ conn'.open => Steady(conn', sent, pos', Due(got', conn'))
<1> DEFINE d == Reading(rev, m)
           piece == SubSeq(sent, pos + 1, pos + n)
           c == [d EXCEPT !.q = @ \o piece]
           g == got \o SubSeq(Out, 1, m)
<1>1. d \in ConnType /\ d.q = conn.q /\ ~d.rReady
  BY ReadingKeeps DEF ReadMore
<1>2. g \in Seq(Units) /\ Placed(Due(g, d)) /\ Steady(d, sent, pos, Due(g, d))
  BY ReadingPlaces DEF ReadMore
<1>3. sent \in Seq(Tokens) /\ Len(sent) \in Nat
  <2>1. sent \in Seq(Tokens)
    BY DEF ConnInv, TypeOK, Tokens
  <2>2. QED
    BY <2>1, LenProperties
<1>4. pos \in Nat /\ n \in Nat /\ pos + n <= Len(sent)
  BY <1>3, StreamsAssumption DEF ReadMore, ConnInv, TypeOK
<1>5. /\ conn' = Process(c, n = 0) /\ pos' = pos + n /\ sent' = sent
      /\ got' = g
  BY DEF ReadMore, GoesOn
<1>6. piece \in Seq(Tokens)
  <2>1. \A i \in pos + 1..pos + n : sent[i] \in Tokens
    BY <1>3, <1>4, ElementOfSeq
  <2>2. QED
    BY <1>4, <2>1, SubSeqProperties
<1> HIDE DEF d, g, piece
<1>7. /\ c \in ConnType /\ c.q = d.q \o piece /\ c.header = d.header /\ c.body = d.body
      /\ c.start = d.start /\ c.bodyWait = d.bodyWait /\ c.expect = d.expect
      /\ c.qReady = d.qReady /\ c.rReady = d.rReady /\ c.rSent = d.rSent
  <2>1. d.q \in Seq(Tokens)
    BY <1>1 DEF ConnType, Tokens
  <2>2. d.q \o piece \in Seq(Tokens)
    BY <1>6, <2>1, ConcatProperties
  <2>3. QED
    BY <1>1, <2>2 DEF ConnType, Tokens
<1> HIDE DEF c
<1>8. Due(g, c) = Due(g, d)
  BY <1>7 DEF Due
<1> DEFINE p == pos + n
<1>9. p \in Nat /\ Follows(c, sent, p) /\ Read(c, p) = Read(d, pos)
  <2>1. Follows(d, sent, pos)
    BY <1>2 DEF Steady
  <2>2. c.q = d.q \o SubSeq(sent, pos + 1, pos + n)
    BY <1>7 DEF piece
  <2>3. Follows(c, sent, pos + n) /\ Read(c, pos + n) = Read(d, pos)
    <3>1. /\ c \in ConnType /\ d \in ConnType /\ sent \in Seq(Tokens)
          /\ pos \in Nat /\ n \in Nat /\ pos + n <= Len(sent)
      BY <1>1, <1>3, <1>4, <1>7
    <3>2. QED
      BY <2>1, <2>2, <3>1, PieceFollows, ZenonT(60)
  <2>4. p \in Nat
    BY <1>4
  <2>5. p = pos + n
    OBVIOUS
  <2> HIDE DEF p
  <2>6. QED
    BY <2>3, <2>4, <2>5
<1> HIDE DEF p
<1>10. Steady(c, sent, p, Due(g, c))
  BY <1>2, <1>7, <1>8, <1>9 DEF Steady, Exchange, Expected
<1>11. ~Repeats(sent, p)
  BY <1>5 DEF RepeatsExpect, Repeats, EndsHeader, p
<1> DEFINE eof == n = 0
<1>12. eof \in BOOLEAN /\ conn' = Process(c, eof)
  BY <1>5
<1> HIDE DEF eof
<1>13. Placed(Due(g, conn')) /\ (conn'.open => Steady(conn', sent, p, Due(g, conn')))
  BY <1>1, <1>2, <1>7, <1>8, <1>9, <1>10, <1>11, <1>12, ProcessPlaces
<1>14. QED
  BY <1>2, <1>5, <1>13 DEF p

LEMMA ReadLeftoverPlaces ==
  ASSUME ConnInv, PlaceInv, ~RepeatsExpect,
         NEW rev \in Revs, NEW m \in Writes(rev), ReadLeftover(rev, m)
  PROVE  /\ got' \in Seq(Units) /\ Placed(Due(got', conn'))
         /\ conn'.open => Steady(conn', sent, pos, Due(got', conn'))
<1> DEFINE c == Reading(rev, m)
           g == got \o SubSeq(Out, 1, m)
           eof == FALSE
<1>1. c \in ConnType /\ ~c.rReady
  BY ReadingKeeps DEF ReadLeftover
<1>2. g \in Seq(Units) /\ Placed(Due(g, c)) /\ Steady(c, sent, pos, Due(g, c))
  BY ReadingPlaces DEF ReadLeftover
<1>3. conn' = Process(c, eof) /\ got' = g /\ eof \in BOOLEAN
  BY DEF ReadLeftover, GoesOn
<1>4. pos \in Nat
  <2>1. sent \in Seq(Tokens)
    BY DEF ConnInv, TypeOK, Tokens
  <2>2. QED
    BY <2>1, LenProperties DEF ConnInv, TypeOK
<1>5. ~Repeats(sent, pos)
  BY DEF RepeatsExpect, Repeats, EndsHeader
<1> HIDE DEF c, g, eof
<1>6. QED
  BY <1>1, <1>2, <1>3, <1>4, <1>5, ProcessPlaces

(* What the client will not send any more was not read yet. *)
LEMMA ShutdownPlaces ==
  ASSUME ConnInv, PlaceInv, Shutdown
  PROVE  PlaceInv'
<1>1. PICK i \in pos..Len(sent) : sent' = SubSeq(sent, 1, i)
  BY DEF Shutdown
<1>2. sent \in Seq(Tokens) /\ Len(sent) \in Nat /\ pos \in 0..Len(sent) /\ conn \in ConnType
  <2>1. sent \in Seq(Tokens) /\ conn \in ConnType
    BY DEF ConnInv, TypeOK, Tokens
  <2>2. QED
    BY <2>1, LenProperties DEF ConnInv, TypeOK
<1>3. i \in Nat /\ pos \in Nat /\ pos <= i /\ i <= Len(sent)
  BY <1>2
<1>4. \A x \in 1..pos : sent'[x] = sent[x]
  <2>1. \A j \in 1..i : sent[j] \in Tokens
    BY <1>2, <1>3, ElementOfSeq
  <2>2. \A x \in 1..i : sent'[x] = sent[1 + x - 1]
    BY <1>1, <1>3, <2>1, SubSeqProperties
  <2>3. QED
    BY <1>3, <2>2
<1>5. UNCHANGED <<conn, pos, got>>
  BY DEF Shutdown
<1> DEFINE s == sent'
<1> HIDE DEF s
<1>6. \A x \in 1..pos : s[x] = sent[x]
  BY <1>4 DEF s
<1>7. \A l \in 1..pos - 1 : EndsHeader(s, l) <=> EndsHeader(sent, l)
  BY <1>3, <1>6 DEF EndsHeader
<1>8. Repeats(sent, pos) => Repeats(s, pos)
  <2>1. SUFFICES ASSUME NEW a \in 1..pos, NEW b \in 1..pos, a < b,
                        sent[a] = ExpectLine, sent[b] = ExpectLine,
                        \A l \in a..b - 1 : ~EndsHeader(sent, l)
                 PROVE  Repeats(s, pos)
    BY DEF Repeats
  <2>2. s[a] = ExpectLine /\ s[b] = ExpectLine
    BY <1>6, <2>1
  <2>3. \A l \in a..b - 1 : l \in 1..pos - 1
    BY <1>3
  <2>4. \A l \in a..b - 1 : ~EndsHeader(s, l)
    BY <1>7, <2>1, <2>3
  <2>5. QED
    BY <2>1, <2>2, <2>4 DEF Repeats
<1>9. (RepeatsExpect <=> Repeats(sent, pos)) /\ (RepeatsExpect' <=> Repeats(s, pos))
  BY <1>5 DEF RepeatsExpect, Repeats, EndsHeader, s
<1>10. ASSUME NEW all, Steady(conn, sent, pos, all)
       PROVE  Steady(conn, s, pos, all)
  <2> DEFINE length == Len(conn.q)
             u == Read(conn, pos)
  <2>1. length \in Nat /\ length <= pos /\ u = pos - length
    <3>1. conn.q \in Seq(Tokens)
      BY <1>2 DEF ConnType, Tokens
    <3>2. QED
      BY <1>10, <3>1, LenProperties DEF Steady, Follows, Read
  <2>2. Follows(conn, s, pos)
    <3>1. \A x \in 1..length : conn.q[x] = sent[u + x]
      BY <1>10 DEF Steady, Follows
    <3> HIDE DEF length, u
    <3>2. \A x \in 1..length : u + x \in 1..pos
      BY <1>3, <2>1
    <3>3. \A x \in 1..length : conn.q[x] = s[u + x]
      BY <1>6, <3>1, <3>2
    <3>4. QED
      BY <2>1, <3>3 DEF Follows, length, u
  <2>3. Expected(conn, sent, pos) => Expected(conn, s, pos)
    <3> HIDE DEF length, u
    <3>1. u \in Nat /\ u <= pos
      BY <1>3, <2>1
    <3>2. SUFFICES ASSUME NEW x \in 1..u, sent[x] = ExpectLine,
                          \/ conn.bodyWait
                          \/ sent[u] = NL /\ \A l \in x..u - 1 : ~EndsHeader(sent, l)
                   PROVE  Expected(conn, s, pos)
      BY DEF Expected, u
    <3>3. x \in 1..pos /\ u \in 1..pos /\ \A l \in x..u - 1 : l \in 1..pos - 1
      BY <1>3, <3>1
    <3>4. \/ conn.bodyWait
          \/ s[u] = NL /\ \A l \in x..u - 1 : ~EndsHeader(s, l)
      BY <1>6, <1>7, <3>2, <3>3
    <3>5. s[x] = ExpectLine
      BY <1>6, <3>2, <3>3
    <3>6. QED
      BY <3>4, <3>5 DEF Expected, u
  <2>4. QED
    BY <1>10, <2>2, <2>3 DEF Steady, Exchange
<1>11. QED
  BY <1>5, <1>8, <1>9, <1>10 DEF PlaceInv, s

LEMMA InitPlaces == Init => PlaceInv
<1> SUFFICES ASSUME Init PROVE PlaceInv
  OBVIOUS
<1>1. /\ conn.header = <<>> /\ conn.body = <<>> /\ conn.q = <<>> /\ ~conn.rSent
      /\ ~conn.expect
  BY DEF Init, Closed
<1>2. Due(got, conn) = <<>>
  <2>1. Due(got, conn) = (<<>> \o <<>>) \o <<>>
    BY <1>1 DEF Due, Init
  <2>2. <<>> \in Seq(Units)
    OBVIOUS
  <2>3. <<>> \o <<>> = <<>>
    BY <2>2, ConcatEmptySeq
  <2>4. QED
    BY <2>1, <2>3
<1>3. Placed(<<>>) /\ ~Waits(<<>>)
  BY DEF Placed, Waits
<1>4. Follows(conn, sent, pos)
  BY <1>1 DEF Follows, Init
<1>5. Exchange(conn, sent, pos, Waits(<<>>))
  BY <1>1, <1>3 DEF Exchange
<1>6. got \in Seq(Units)
  BY DEF Init
<1>7. QED
  BY <1>1, <1>2, <1>3, <1>4, <1>5, <1>6 DEF PlaceInv, Steady

LEMMA NextPlaces == ConnInv /\ PlaceInv /\ [Next]_vars => PlaceInv'
<1> SUFFICES ASSUME ConnInv, PlaceInv, [Next]_vars PROVE PlaceInv'
  OBVIOUS
<1>1. ASSUME NEW rev \in Revs, NEW m \in Writes(rev), KeepWriting(rev, m)
      PROVE  PlaceInv'
  <2>1. UNCHANGED <<sent, pos>>
    BY <1>1 DEF KeepWriting
  <2>2. RepeatsExpect' <=> RepeatsExpect
    BY <2>1 DEF RepeatsExpect
  <2>3. QED
    BY <1>1, <2>1, <2>2, KeepWritingPlaces DEF PlaceInv
<1>2. ASSUME NEW rev \in Revs, NEW m \in Writes(rev),
             CloseWhenSent(rev, m) \/ CloseWhenFull(rev, m)
      PROVE  PlaceInv'
  <2>1. UNCHANGED <<sent, pos>>
    BY <1>2 DEF CloseWhenSent, CloseWhenFull
  <2>2. RepeatsExpect' <=> RepeatsExpect
    BY <2>1 DEF RepeatsExpect
  <2>3. QED
    BY <1>2, <2>2, ClosePlaces DEF PlaceInv
<1>3. ASSUME NEW n \in 0..BufSize, NEW rev \in Revs, NEW m \in Writes(rev), ReadMore(rev, m, n)
      PROVE  PlaceInv'
  <2>1. sent' = sent /\ pos' = pos + n
    BY <1>3 DEF ReadMore
  <2>2. RepeatsExpect => RepeatsExpect'
    <3>1. pos \in Nat /\ n \in Nat
      <4>1. sent \in Seq(Tokens)
        BY DEF ConnInv, TypeOK, Tokens
      <4>2. QED
        BY <4>1, LenProperties, StreamsAssumption DEF ConnInv, TypeOK
    <3>2. 1..pos \subseteq 1..pos'
      BY <2>1, <3>1
    <3>3. QED
      BY <2>1, <3>2 DEF RepeatsExpect
  <2>3. QED
    BY <1>3, <2>1, <2>2, ReadMorePlaces DEF PlaceInv
<1>4. ASSUME NEW rev \in Revs, NEW m \in Writes(rev), ReadLeftover(rev, m)
      PROVE  PlaceInv'
  <2>1. UNCHANGED <<sent, pos>>
    BY <1>4 DEF ReadLeftover
  <2>2. RepeatsExpect' <=> RepeatsExpect
    BY <2>1 DEF RepeatsExpect
  <2>3. QED
    BY <1>4, <2>1, <2>2, ReadLeftoverPlaces DEF PlaceInv
<1>5. CASE IoError \/ Timeout
  <2>1. conn' = Closed /\ UNCHANGED <<sent, pos, got>> /\ conn \in ConnType
    BY <1>5 DEF IoError, Timeout, ConnInv, TypeOK
  <2>2. RepeatsExpect' <=> RepeatsExpect
    BY <2>1 DEF RepeatsExpect
  <2>3. QED
    BY <2>1, <2>2, FreedPlaces, ClosedIsConn DEF PlaceInv
<1>6. CASE Shutdown
  BY <1>6, ShutdownPlaces
<1>7. CASE UNCHANGED vars
  <2>1. UNCHANGED <<conn, sent, pos, got>>
    BY <1>7 DEF vars
  <2>2. RepeatsExpect' <=> RepeatsExpect
    BY <2>1 DEF RepeatsExpect
  <2>3. QED
    BY <2>1, <2>2 DEF PlaceInv
<1>8. QED
  BY <1>1, <1>2, <1>3, <1>4, <1>5, <1>6, <1>7 DEF Next, IoCb, Calls

(* Whatever the client sends and in whatever pieces, as long as no request *)
(* has two Expect headers: bc_io_cb answers an Expect header at most once, *)
(* and the next that it sends on the connection is that request's header.  *)
THEOREM ContinueAlwaysInPlace == Spec => []ContinueInPlace
<1>1. PlaceInv => ContinueInPlace
  BY DEF PlaceInv, ContinueInPlace, Placed, Due
<1>2. QED
  BY <1>1, InitConn, InitPlaces, NextConn, NextPlaces, PTL DEF Spec

-----------------------------------------------------------------------------
(* Sequences of units that start others. *)

Starts(a, b) == \E x \in Seq(Units) : b = a \o x

LEMMA StartsSelf ==
  ASSUME NEW a \in Seq(Units)
  PROVE  Starts(a, a) /\ Starts(<<>>, a)
<1>1. <<>> \in Seq(Units) /\ a \o <<>> = a /\ <<>> \o a = a
  BY ConcatEmptySeq
<1>2. QED
  BY <1>1 DEF Starts

LEMMA StartsFurther ==
  ASSUME NEW a \in Seq(Units), NEW b \in Seq(Units), NEW c, Starts(a, b), Starts(b, c)
  PROVE  Starts(a, c)
<1>1. PICK x \in Seq(Units) : b = a \o x
  BY DEF Starts
<1>2. PICK y \in Seq(Units) : c = b \o y
  BY DEF Starts
<1>3. c = a \o (x \o y) /\ x \o y \in Seq(Units)
  <2>1. x \o y \in Seq(Units)
    BY ConcatProperties
  <2>2. a \o (x \o y) = (a \o x) \o y
    BY Regroup, ZenonT(60)
  <2>3. QED
    BY <1>1, <1>2, <2>1, <2>2
<1>4. QED
  BY <1>3 DEF Starts

LEMMA StartsAfter ==
  ASSUME NEW a \in Seq(Units), NEW b \in Seq(Units), NEW c, Starts(b, c)
  PROVE  Starts(a \o b, a \o c)
<1>1. PICK x \in Seq(Units) : c = b \o x
  BY DEF Starts
<1>2. a \o c = (a \o b) \o x
  BY <1>1, Regroup
<1>3. QED
  BY <1>2 DEF Starts

LEMMA StartsMore ==
  ASSUME NEW a \in Seq(Units), NEW b \in Seq(Units)
  PROVE  Starts(a, a \o b)
BY DEF Starts

LEMMA StartsIsPrefix ==
  ASSUME NEW a \in Seq(Units), NEW b \in Seq(Units), Starts(a, b)
  PROVE  IsPrefix(a, b)
<1>1. PICK x \in Seq(Units) : b = a \o x
  BY DEF Starts
<1>2. /\ Len(a) \in Nat /\ Len(x) \in Nat /\ Len(b) = Len(a) + Len(x)
      /\ \A i \in 1..Len(a) : b[i] = a[i]
  BY <1>1, ConcatProperties, LenProperties
<1> DEFINE n == Len(a)
           start == SubSeq(b, 1, n)
<1>3. start \in Seq(Units) /\ Len(start) = n /\ \A i \in 1..n : start[i] = b[1 + i - 1]
  <2>1. \A i \in 1..n : b[i] \in Units
    BY <1>2, ElementOfSeq
  <2>2. QED
    BY <1>2, <2>1, SubSeqProperties
<1>4. SubSeq(a, 1, n) = a
  BY SubSeqFull
<1> HIDE DEF start
<1>5. \A i \in 1..Len(a) : start[i] = a[i]
  <2>1. \A i \in 1..n : 1 + i - 1 = i
    BY <1>2
  <2>2. QED
    BY <1>2, <1>3, <2>1
<1>6. start = a
  BY <1>3, <1>5, SeqEqual
<1>7. QED
  BY <1>2, <1>4, <1>6 DEF IsPrefix, start

-----------------------------------------------------------------------------
(* What is left of units without "100 Continue". *)

IsPlain(f, us, l) ==
  f = [i \in 0..l |->
         IF i = 0 THEN <<>>
         ELSE IF us[i] = Continue THEN f[i - 1] ELSE Append(f[i - 1], us[i])]

PlainTo(us, l) == CHOOSE f : IsPlain(f, us, l)

LEMMA PlainExists ==
  ASSUME NEW us
  PROVE  \A l \in Nat : \E f : IsPlain(f, us, l)
<1> DEFINE S == {l \in Nat : \E f : IsPlain(f, us, l)}
<1>1. 0 \in S
  <2> DEFINE g == [i \in 0..0 |-> <<>>]
  <2>1. IsPlain(g, us, 0)
    BY DEF IsPlain
  <2>2. QED
    BY <2>1
<1>2. ASSUME NEW l \in Nat, l \in S
      PROVE  l + 1 \in S
  <2>1. PICK f : IsPlain(f, us, l)
    BY <1>2
  <2> DEFINE E(p, i) == IF us[i] = Continue THEN p ELSE Append(p, us[i])
             g == [i \in 0..l + 1 |-> IF i = l + 1 THEN E(f[l], i) ELSE f[i]]
  <2>2. \A i \in 0..l : f[i] = IF i = 0 THEN <<>> ELSE E(f[i - 1], i)
    BY <2>1 DEF IsPlain
  <2>3. \A i \in 0..l + 1 : g[i] = IF i = 0 THEN <<>> ELSE E(g[i - 1], i)
    <3> HIDE DEF E
    <3>1. SUFFICES ASSUME NEW i \in 0..l + 1
                   PROVE  g[i] = IF i = 0 THEN <<>> ELSE E(g[i - 1], i)
      OBVIOUS
    <3>2. CASE i = l + 1
      BY <3>2
    <3>3. CASE i # l + 1
      <4>1. i \in 0..l /\ g[i] = f[i] /\ (i # 0 => g[i - 1] = f[i - 1])
        BY <3>3
      <4>2. QED
        BY <2>2, <4>1
    <3>4. QED
      BY <3>2, <3>3
  <2>4. IsPlain(g, us, l + 1)
    BY <2>3 DEF IsPlain
  <2>5. QED
    BY <2>4
<1>3. QED
  BY <1>1, <1>2, AllNumbers

LEMMA PlainSteps ==
  ASSUME NEW us, Len(us) \in Nat
  PROVE  /\ Plain(us) = PlainTo(us, Len(us))[Len(us)]
         /\ PlainTo(us, Len(us))[0] = <<>>
         /\ \A i \in 1..Len(us) :
              PlainTo(us, Len(us))[i] =
                IF us[i] = Continue THEN PlainTo(us, Len(us))[i - 1]
                ELSE Append(PlainTo(us, Len(us))[i - 1], us[i])
<1>1. IsPlain(PlainTo(us, Len(us)), us, Len(us))
  BY PlainExists DEF PlainTo
<1>2. Plain(us) = PlainTo(us, Len(us))[Len(us)]
  BY DEF Plain, PlainTo, IsPlain
<1> DEFINE l == Len(us)
           p == PlainTo(us, l)
<1> HIDE DEF p
<1>3. p = [i \in 0..l |->
             IF i = 0 THEN <<>>
             ELSE IF us[i] = Continue THEN p[i - 1] ELSE Append(p[i - 1], us[i])]
  BY <1>1 DEF p, IsPlain
<1> HIDE DEF l
<1>4. \A i \in 0..l : p[i] = IF i = 0 THEN <<>>
                            ELSE IF us[i] = Continue THEN p[i - 1] ELSE Append(p[i - 1], us[i])
  BY <1>3
<1>5. l \in Nat
  BY DEF l
<1>6. /\ p[0] = <<>>
      /\ \A i \in 1..l : p[i] = IF us[i] = Continue THEN p[i - 1] ELSE Append(p[i - 1], us[i])
  BY <1>4, <1>5
<1>7. QED
  BY <1>2, <1>6 DEF p, l

LEMMA PlainIsSeq ==
  ASSUME NEW us \in Seq(Units)
  PROVE  /\ Plain(us) \in Seq(Units)
         /\ \A i \in 0..Len(us) : PlainTo(us, Len(us))[i] \in Seq(Units)
<1> DEFINE l == Len(us)
           p == PlainTo(us, l)
           S == {i \in Nat : i <= l => p[i] \in Seq(Units)}
<1>1. l \in Nat /\ \A i \in 1..l : us[i] \in Units
  BY LenProperties, ElementOfSeq
<1>2. /\ Plain(us) = p[l] /\ p[0] = <<>>
      /\ \A i \in 1..l : p[i] = IF us[i] = Continue THEN p[i - 1] ELSE Append(p[i - 1], us[i])
  BY <1>1, PlainSteps
<1> HIDE DEF l, p
<1>3. 0 \in S
  BY <1>2, EmptySeq
<1>4. ASSUME NEW i \in Nat, i \in S
      PROVE  i + 1 \in S
  <2>1. SUFFICES ASSUME i + 1 <= l
                 PROVE  p[i + 1] \in Seq(Units)
    OBVIOUS
  <2>2. i + 1 \in 1..l /\ (i + 1) - 1 = i /\ p[i] \in Seq(Units)
    BY <1>1, <1>4, <2>1
  <2>3. p[i + 1] = IF us[i + 1] = Continue THEN p[i] ELSE Append(p[i], us[i + 1])
    BY <1>2, <2>2
  <2>4. Append(p[i], us[i + 1]) \in Seq(Units)
    BY <1>1, <2>2, AppendProperties
  <2>5. QED
    BY <2>2, <2>3, <2>4
<1>5. Nat \subseteq S
  BY <1>3, <1>4, AllNumbers
<1>6. QED
  BY <1>1, <1>2, <1>5 DEF l, p

LEMMA PlainConcat ==
  ASSUME NEW a \in Seq(Units), NEW b \in Seq(Units)
  PROVE  Plain(a \o b) = Plain(a) \o Plain(b)
<1> DEFINE c == a \o b
           k == Len(a)
           l == Len(b)
           f == PlainTo(a, k)
           g == PlainTo(b, l)
           h == PlainTo(c, Len(c))
<1>1. /\ k \in Nat /\ l \in Nat /\ c \in Seq(Units) /\ Len(c) = k + l
      /\ \A i \in 1..k + l : c[i] = IF i <= k THEN a[i] ELSE b[i - k]
  BY LenProperties, ConcatProperties
<1>2. /\ Plain(a) = f[k] /\ f[0] = <<>>
      /\ \A i \in 1..k : f[i] = IF a[i] = Continue THEN f[i - 1] ELSE Append(f[i - 1], a[i])
  BY <1>1, PlainSteps
<1>3. /\ Plain(b) = g[l] /\ g[0] = <<>>
      /\ \A i \in 1..l : g[i] = IF b[i] = Continue THEN g[i - 1] ELSE Append(g[i - 1], b[i])
  BY <1>1, PlainSteps
<1>4. /\ Plain(c) = h[k + l] /\ h[0] = <<>>
      /\ \A i \in 1..k + l :
           h[i] = IF c[i] = Continue THEN h[i - 1] ELSE Append(h[i - 1], c[i])
  <2> HIDE DEF c, k, l
  <2>1. Len(c) = k + l /\ Len(c) \in Nat
    BY <1>1
  <2>2. /\ Plain(c) = h[Len(c)] /\ h[0] = <<>>
        /\ \A i \in 1..Len(c) :
             h[i] = IF c[i] = Continue THEN h[i - 1] ELSE Append(h[i - 1], c[i])
    BY <2>1, PlainSteps
  <2> HIDE DEF h
  <2>3. QED
    BY <2>1, <2>2
<1>5. Plain(a) \in Seq(Units) /\ \A i \in 0..l : g[i] \in Seq(Units)
  BY PlainIsSeq
<1>6. \A i \in 1..l : b[i] \in Units
  BY <1>1, ElementOfSeq
<1> HIDE DEF c, k, l, f, g, h
<1> DEFINE S == {i \in Nat : i <= k => h[i] = f[i]}
           T == {i \in Nat : i <= l => h[k + i] = Plain(a) \o g[i]}
<1>7. 0 \in S
  BY <1>2, <1>4
<1>8. ASSUME NEW i \in Nat, i \in S
      PROVE  i + 1 \in S
  <2>1. SUFFICES ASSUME i + 1 <= k
                 PROVE  h[i + 1] = f[i + 1]
    OBVIOUS
  <2>2. i + 1 \in 1..k /\ i + 1 \in 1..k + l /\ (i + 1) - 1 = i /\ h[i] = f[i]
    BY <1>1, <1>8, <2>1
  <2>3. c[i + 1] = a[i + 1]
    BY <1>1, <2>1, <2>2
  <2>4. QED
    BY <1>2, <1>4, <2>2, <2>3
<1>9. Nat \subseteq S
  BY <1>7, <1>8, AllNumbers
<1>10. h[k] = Plain(a)
  BY <1>1, <1>2, <1>9
<1>11. 0 \in T
  BY <1>1, <1>3, <1>5, <1>10, ConcatEmptySeq
<1>12. ASSUME NEW i \in Nat, i \in T
       PROVE  i + 1 \in T
  <2>1. SUFFICES ASSUME i + 1 <= l
                 PROVE  h[k + (i + 1)] = Plain(a) \o g[i + 1]
    OBVIOUS
  <2>2. /\ i + 1 \in 1..l /\ k + (i + 1) \in 1..k + l /\ (i + 1) - 1 = i
        /\ (k + (i + 1)) - 1 = k + i /\ (k + (i + 1)) - k = i + 1 /\ ~(k + (i + 1) <= k)
        /\ i \in 0..l /\ h[k + i] = Plain(a) \o g[i]
    BY <1>1, <1>12, <2>1
  <2>3. c[k + (i + 1)] = b[i + 1]
    BY <1>1, <2>2
  <2>4. h[k + (i + 1)] = IF b[i + 1] = Continue THEN h[k + i] ELSE Append(h[k + i], b[i + 1])
    BY <1>4, <2>2, <2>3
  <2>5. g[i + 1] = IF b[i + 1] = Continue THEN g[i] ELSE Append(g[i], b[i + 1])
    BY <1>3, <2>2
  <2>6. Plain(a) \o Append(g[i], b[i + 1]) = Append(Plain(a) \o g[i], b[i + 1])
    <3>1. g[i] \in Seq(Units) /\ b[i + 1] \in Units
      BY <1>5, <1>6, <2>2
    <3>2. QED
      BY <1>5, <3>1, ConcatAppend
  <2>7. QED
    BY <2>2, <2>4, <2>5, <2>6
<1>13. Nat \subseteq T
  BY <1>11, <1>12, AllNumbers
<1>14. Plain(c) = Plain(a) \o Plain(b)
  BY <1>1, <1>3, <1>4, <1>13
<1>15. QED
  BY <1>14 DEF c

(* A "100 Continue" leaves no trace, what else there is stays. *)
LEMMA PlainOf ==
  /\ Plain(<<>>) = <<>>
  /\ \A us \in Seq(Units) : Plain(Append(us, Continue)) = Plain(us)
  /\ \A us \in Seq(Units) :
       (\A i \in 1..Len(us) : us[i] # Continue) => Plain(us) = us
<1>1. Plain(<<>>) = <<>>
  <2>1. Len(<<>>) = 0 /\ 0 \in Nat
    BY EmptySeq
  <2>2. QED
    BY <2>1, PlainSteps
<1>2. ASSUME NEW us \in Seq(Units)
      PROVE  Plain(Append(us, Continue)) = Plain(us)
  <2>1. Continue \in Units
    BY DEF Continue, Unit, HeadUnits, Units
  <2> DEFINE one == <<Continue>>
  <2>2. one \in Seq(Units) /\ Len(one) = 1 /\ one[1] = Continue
    BY <2>1
  <2>3. Append(us, Continue) = us \o one
    BY <2>1, AppendIsConcat
  <2> HIDE DEF one
  <2>4. Plain(one) = <<>>
    <3>1. 1 \in Nat /\ 1 \in 1..1 /\ 1 - 1 = 0
      OBVIOUS
    <3>2. QED
      BY <2>2, <3>1, PlainSteps
  <2>5. Plain(us \o one) = Plain(us) \o <<>>
    BY <2>2, <2>4, PlainConcat
  <2>6. QED
    BY <2>3, <2>5, PlainIsSeq, ConcatEmptySeq
<1>3. ASSUME NEW us \in Seq(Units), \A i \in 1..Len(us) : us[i] # Continue
      PROVE  Plain(us) = us
  <2> DEFINE l == Len(us)
             p == PlainTo(us, l)
             S == {i \in Nat : i <= l => p[i] = SubSeq(us, 1, i)}
  <2>1. l \in Nat /\ \A i \in 1..l : us[i] \in Units
    BY LenProperties, ElementOfSeq
  <2>2. /\ Plain(us) = p[l] /\ p[0] = <<>>
        /\ \A i \in 1..l : p[i] = Append(p[i - 1], us[i])
    BY <1>3, <2>1, PlainSteps
  <2> HIDE DEF p
  <2>3. 0 \in S
    <3>1. SubSeq(us, 1, 0) = <<>>
      BY SubSeqEmpty
    <3>2. QED
      BY <2>2, <3>1
  <2>4. ASSUME NEW i \in Nat, i \in S
        PROVE  i + 1 \in S
    <3>1. SUFFICES ASSUME i + 1 <= l
                   PROVE  p[i + 1] = SubSeq(us, 1, i + 1)
      OBVIOUS
    <3>2. i + 1 \in 1..l /\ (i + 1) - 1 = i /\ p[i] = SubSeq(us, 1, i) /\ i \in 0..l
      BY <2>1, <2>4, <3>1
    <3>3. Append(SubSeq(us, 1, i), us[i + 1]) = SubSeq(us, 1, i + 1)
      BY <2>1, <3>2
    <3>4. QED
      BY <2>2, <3>2, <3>3
  <2>5. Nat \subseteq S
    <3> HIDE DEF S
    <3>1. QED
      BY <2>3, <2>4, AllNumbers
  <2>6. p[l] = SubSeq(us, 1, l)
    BY <2>1, <2>5
  <2>7. QED
    BY <2>2, <2>6, SubSeqFull
<1>4. QED
  BY <1>1, <1>2, <1>3

-----------------------------------------------------------------------------
(* The reference: the first and the last of some numbers. *)

LEMMA LeastExists ==
  ASSUME NEW S \in SUBSET Nat, S # {}
  PROVE  Min(S) \in S /\ \A x \in S : Min(S) <= x
<1>1. PICK m \in S : \A l \in S : ~(<<l, m>> \in OpToRel(<, Nat))
  BY NatLessThanWellFounded, WFMin
<1>2. ASSUME NEW l \in S
      PROVE  m <= l
  <2>1. l \in Nat /\ m \in Nat
    OBVIOUS
  <2>2. l < m => <<l, m>> \in OpToRel(<, Nat)
    BY <2>1 DEF OpToRel
  <2>3. ~(l < m)
    BY <1>1, <2>2
  <2>4. QED
    BY <2>1, <2>3
<1>3. QED
  BY <1>2 DEF Min

LEMMA LeastIs ==
  ASSUME NEW S \in SUBSET Nat, NEW m \in S, \A x \in S : m <= x
  PROVE  Min(S) = m
<1>1. Min(S) \in S /\ \A x \in S : Min(S) <= x
  BY LeastExists
<1> DEFINE l == Min(S)
<1> HIDE DEF l
<1>2. l \in Nat /\ m \in Nat /\ l <= m /\ m <= l
  BY <1>1 DEF l
<1>3. QED
  BY <1>2 DEF l

LEMMA LastExists ==
  ASSUME NEW r \in Nat, NEW S \in SUBSET (0..r), S # {}
  PROVE  Max(S) \in S
<1> DEFINE T == {r - x : x \in S}
<1>1. T \in SUBSET Nat /\ T # {}
  <2>1. ASSUME NEW x \in S
        PROVE  r - x \in Nat /\ r - x \in T
    OBVIOUS
  <2>2. PICK x : x \in S
    OBVIOUS
  <2>3. T \subseteq Nat
    BY <2>1
  <2>4. T # {}
    BY <2>2
  <2>5. QED
    BY <2>3, <2>4
<1>2. Min(T) \in T /\ \A y \in T : Min(T) <= y
  BY <1>1, LeastExists
<1>3. PICK m \in S : Min(T) = r - m
  BY <1>2
<1>4. \A x \in S : m >= x
  <2>1. SUFFICES ASSUME NEW x \in S
                 PROVE  m >= x
    OBVIOUS
  <2>2. r - m <= r - x
    BY <1>2, <1>3
  <2>3. QED
    BY <2>2
<1>5. QED
  BY <1>4 DEF Max

LEMMA LastIs ==
  ASSUME NEW r \in Nat, NEW S \in SUBSET (0..r), NEW m \in S, \A x \in S : m >= x
  PROVE  Max(S) = m
<1>1. \E x \in S : \A y \in S : x >= y
  OBVIOUS
<1>2. Max(S) \in S /\ \A y \in S : Max(S) >= y
  BY <1>1 DEF Max
<1> DEFINE l == Max(S)
<1>3. l \in S /\ l >= m
  BY <1>2
<1> HIDE DEF l
<1>4. l \in Nat /\ m \in Nat /\ m >= l
  BY <1>3
<1>5. QED
  BY <1>3, <1>4 DEF l

(* r is the end of the header of the request at i. *)
IsHeaderEnd(s, n, i, r) == r \in Blanks(s, n, i) /\ \A j \in Blanks(s, n, i) : r <= j

LEMMA HeaderEndIs ==
  ASSUME NEW s, NEW n \in Nat, NEW i \in Nat
  PROVE  /\ \A r : IsHeaderEnd(s, n, i, r) => HeaderEnd(s, n, i) = r /\ r \in i + 2..n
         /\ Blanks(s, n, i) # {} => IsHeaderEnd(s, n, i, HeaderEnd(s, n, i))
<1>1. Blanks(s, n, i) \in SUBSET Nat /\ Blanks(s, n, i) \subseteq i + 2..n
  BY DEF Blanks
<1>2. ASSUME NEW r, IsHeaderEnd(s, n, i, r)
      PROVE  HeaderEnd(s, n, i) = r /\ r \in i + 2..n
  BY <1>1, <1>2, LeastIs DEF IsHeaderEnd, HeaderEnd
<1>3. ASSUME Blanks(s, n, i) # {}
      PROVE  IsHeaderEnd(s, n, i, HeaderEnd(s, n, i))
  BY <1>1, <1>3, LeastExists DEF IsHeaderEnd, HeaderEnd
<1>4. QED
  BY <1>2, <1>3

LEMMA LengthIs ==
  ASSUME NEW s, NEW i \in Nat, NEW r \in Nat
  PROVE  /\ ContentLength(s, i, r) \in Nat
         /\ Lengths(s, i, r) # {} => Max(Lengths(s, i, r)) \in Lengths(s, i, r)
<1>1. Lengths(s, i, r) \in SUBSET (0..r)
  BY DEF Lengths
<1>2. Lengths(s, i, r) # {} => Max(Lengths(s, i, r)) \in Lengths(s, i, r)
  BY <1>1, LastExists
<1>3. QED
  BY <1>2 DEF ContentLength, Lengths

LEMMA NextStartIs ==
  ASSUME NEW s, NEW n \in Nat, NEW i \in 1..n + 1, HasNext(s, n, i)
  PROVE  NextStart(s, n, i) \in i + 1..n + 1
<1>1. PICK j \in i..n : s[j] = NL
  BY DEF HasNext, HasLine
<1>2. CASE s[i] = NL
  BY <1>1, <1>2 DEF NextStart
<1>3. CASE s[i] # NL
  <2> DEFINE r == HeaderEnd(s, n, i)
             l == ContentLength(s, i, r)
  <2>1. IsHeaderEnd(s, n, i, r) /\ r + l <= n
    BY <1>3, HeaderEndIs DEF HasNext, Whole, RequestEnd
  <2> HIDE DEF r
  <2>2. i \in Nat /\ r \in i + 2..n /\ r \in Nat
    <3>1. i \in Nat
      OBVIOUS
    <3>2. r \in i + 2..n
      BY <2>1, <3>1, HeaderEndIs
    <3>3. QED
      BY <3>1, <3>2
  <2>3. l \in Nat
    BY <2>2, LengthIs
  <2>4. NextStart(s, n, i) = r + l + 1
    BY <1>3 DEF NextStart, RequestEnd, r
  <2> HIDE DEF l
  <2>5. QED
    BY <2>1, <2>2, <2>3, <2>4
<1>4. QED
  BY <1>2, <1>3

-----------------------------------------------------------------------------
(* The answer to one request. *)

LEMMA OwnIs ==
  ASSUME NEW s, NEW n, NEW i, NEW e
  PROVE  /\ ~HasLine(s, n, i) \/ s[i] = NL => Own(s, n, i, e) = <<>>
         /\ HasLine(s, n, i) /\ s[i] # NL /\ ~GoodLine(s, i) =>
              Own(s, n, i, e) = Refused(Refusal(s, i))
         /\ HasLine(s, n, i) /\ GoodLine(s, i) => s[i] \in Targets /\ s[i] # NL
         /\ HasLine(s, n, i) /\ GoodLine(s, i) /\ Whole(s, n, i) =>
              Own(s, n, i, e) = Response(Answer[s[i]], s[i])
         /\ HasLine(s, n, i) /\ GoodLine(s, i) /\ ~Whole(s, n, i) =>
              Own(s, n, i, e) = IF e THEN Refused(BAD_REQUEST) ELSE <<>>
<1>1. NL \notin Targets
  BY StreamsAssumption
<1>2. CASE ~HasLine(s, n, i) \/ s[i] = NL
  BY <1>1, <1>2 DEF Own, GoodLine
<1>3. CASE HasLine(s, n, i) /\ s[i] # NL /\ ~GoodLine(s, i)
  BY <1>3 DEF Own
<1>4. CASE HasLine(s, n, i) /\ s[i] # NL /\ GoodLine(s, i)
  <2>1. Own(s, n, i, e) = IF Whole(s, n, i) THEN Response(Answer[s[i]], s[i])
                          ELSE IF e THEN Refused(BAD_REQUEST) ELSE <<>>
    BY <1>4 DEF Own
  <2>2. QED
    BY <1>1, <1>4, <2>1 DEF GoodLine
<1>5. QED
  BY <1>2, <1>3, <1>4

LEMMA HeaderIsUnit ==
  ASSUME NEW status \in Nat, NEW len \in Nat, NEW t \in Targets \cup {NoTarget}
  PROVE  /\ Header(status, len, t) \in HeadUnits /\ Header(status, len, t) \in Units
         /\ Header(status, len, t) # Continue
BY DEF Header, Unit, HeadUnits, Units, Continue

LEMMA RefusedIsSeq ==
  /\ \A s, i : Refusal(s, i) \in {BAD_REQUEST, METHOD_NOT_ALLOWED}
  /\ \A status \in {BAD_REQUEST, METHOD_NOT_ALLOWED} :
       Refused(status) \in Seq(Units) /\ Refused(status) # <<>>
<1>1. \A s, i : Refusal(s, i) \in {BAD_REQUEST, METHOD_NOT_ALLOWED}
  BY DEF Refusal
<1>2. ASSUME NEW status \in {BAD_REQUEST, METHOD_NOT_ALLOWED}
      PROVE  Refused(status) \in Seq(Units) /\ Refused(status) # <<>>
  <2> DEFINE h == Header(status, 0, NoTarget)
  <2>1. h \in Units
    BY HeaderIsUnit DEF BAD_REQUEST, METHOD_NOT_ALLOWED
  <2> HIDE DEF h
  <2>2. <<h>> \in Seq(Units) /\ <<h>> # <<>>
    BY <2>1
  <2>3. QED
    BY <2>2 DEF Refused, h
<1>3. QED
  BY <1>1, <1>2

LEMMA ResponseIsSeq ==
  ASSUME NEW t \in Targets
  PROVE  /\ Answer[t].status \in Nat /\ Answer[t].len \in Nat
         /\ Response(Answer[t], t) \in Seq(Units)
<1> DEFINE a == Answer[t]
<1>1. a.status \in Nat /\ a.len \in Nat
  <2>1. a \in [status: 200..599, len: Nat]
    BY StreamsAssumption
  <2> HIDE DEF a
  <2>2. QED
    BY <2>1
<1> HIDE DEF a
<1> DEFINE h == Header(a.status, a.len, t)
           b == Body(a.len, t)
<1>2. h \in Units /\ b \in Seq(Units)
  <2>1. b \in Seq(BodyUnits)
    BY <1>1, BodyIsSeq
  <2>2. QED
    BY <1>1, <2>1, HeaderIsUnit DEF Units
<1> HIDE DEF h, b
<1>3. <<h>> \o b \in Seq(Units)
  BY <1>2, ConcatProperties
<1>4. QED
  BY <1>1, <1>3 DEF Response, h, b, a

LEMMA OwnIsSeq ==
  ASSUME NEW s, NEW n, NEW i, NEW e
  PROVE  Own(s, n, i, e) \in Seq(Units)
<1>1. <<>> \in Seq(Units)
  BY EmptySeq
<1>2. Refused(Refusal(s, i)) \in Seq(Units) /\ Refused(BAD_REQUEST) \in Seq(Units)
  BY RefusedIsSeq
<1>3. s[i] \in Targets => Response(Answer[s[i]], s[i]) \in Seq(Units)
  BY ResponseIsSeq
<1>4. QED
  BY <1>1, <1>2, <1>3, OwnIs

(* Nothing is known of the end of the stream. *)
Unended == FALSE

(* The first n tokens of t are those of s. *)
Agree(s, t, n) == \A x \in 1..n : t[x] = s[x]

(* More of the stream changes nothing in a request that was whole. *)
LEMMA RequestGrows ==
  ASSUME NEW s, NEW t, NEW n \in Nat, NEW p \in Nat, n <= p, Agree(s, t, n),
         NEW i \in 1..n + 1, NEW r, IsHeaderEnd(s, n, i, r)
  PROVE  /\ r \in i + 2..n /\ HeaderEnd(s, n, i) = r
         /\ IsHeaderEnd(t, p, i, r) /\ HeaderEnd(t, p, i) = r
         /\ ContentLength(t, i, r) = ContentLength(s, i, r)
         /\ AsksToClose(t, i, r) <=> AsksToClose(s, i, r)
<1>1. r \in i + 2..n /\ HeaderEnd(s, n, i) = r /\ i \in Nat /\ r \in Nat
  <2>1. i \in Nat
    OBVIOUS
  <2>2. r \in i + 2..n /\ HeaderEnd(s, n, i) = r
    BY <2>1, HeaderEndIs
  <2>3. QED
    BY <2>1, <2>2
<1>2. r \in Blanks(s, n, i) /\ \A j \in Blanks(s, n, i) : r <= j
  BY DEF IsHeaderEnd
<1>3. \A j \in i + 2..n : t[j] = s[j] /\ t[j - 1] = s[j - 1]
  BY DEF Agree
<1>4. r \in Blanks(t, p, i)
  BY <1>1, <1>2, <1>3 DEF Blanks
<1>5. ASSUME NEW j \in Blanks(t, p, i)
      PROVE  r <= j
  <2>1. CASE j \in i + 2..n
    BY <1>2, <1>3, <1>5, <2>1 DEF Blanks
  <2>2. CASE j \notin i + 2..n
    BY <1>1, <1>5, <2>2 DEF Blanks
  <2>3. QED
    BY <2>1, <2>2
<1>6. IsHeaderEnd(t, p, i, r)
  BY <1>4, <1>5 DEF IsHeaderEnd
<1>7. HeaderEnd(t, p, i) = r
  <2>1. \A x : IsHeaderEnd(t, p, i, x) => HeaderEnd(t, p, i) = x
    <3>1. i \in Nat
      OBVIOUS
    <3>2. QED
      BY <3>1, HeaderEndIs
  <2>2. QED
    BY <1>6, <2>1
<1>8. Lengths(t, i, r) = Lengths(s, i, r) /\ Lengths(s, i, r) \subseteq i + 2..n
  BY <1>1, <1>3 DEF Lengths
<1>9. ContentLength(t, i, r) = ContentLength(s, i, r)
  <2>1. Lengths(s, i, r) # {} => Max(Lengths(s, i, r)) \in Lengths(s, i, r)
    BY <1>1, LengthIs
  <2>2. QED
    BY <1>3, <1>8, <2>1 DEF ContentLength
<1>10. AsksToClose(t, i, r) <=> AsksToClose(s, i, r)
  BY <1>1, <1>3 DEF AsksToClose
<1>11. QED
  BY <1>1, <1>6, <1>7, <1>9, <1>10

LEMMA OwnGrows ==
  ASSUME NEW s, NEW t, NEW n \in Nat, NEW p \in Nat, n <= p, Agree(s, t, n),
         NEW i \in 1..n + 1, NEW e
  PROVE  /\ Own(s, n, i, Unended) = <<>> \/ Own(t, p, i, e) = Own(s, n, i, Unended)
         /\ HasNext(s, n, i) => /\ HasNext(t, p, i)
                                /\ NextStart(t, p, i) = NextStart(s, n, i)
                                /\ Own(t, p, i, e) = Own(s, n, i, Unended)
<1>1. CASE ~HasLine(s, n, i)
  <2>1. Own(s, n, i, Unended) = <<>>
    BY <1>1, OwnIs
  <2>2. QED
    BY <1>1, <2>1 DEF HasNext
<1>2. CASE HasLine(s, n, i) /\ s[i] = NL
  <2>1. PICK j \in i..n : s[j] = NL
    BY <1>2 DEF HasLine
  <2>2. i \in 1..n /\ j \in 1..n
    BY <2>1
  <2>3. t[i] = NL /\ t[j] = NL /\ j \in i..p
    BY <1>2, <2>1, <2>2 DEF Agree
  <2>4. HasNext(t, p, i) /\ NextStart(t, p, i) = NextStart(s, n, i)
    BY <1>2, <2>3 DEF HasNext, HasLine, NextStart
  <2>5. Own(s, n, i, Unended) = <<>> /\ Own(t, p, i, e) = <<>>
    BY <1>2, <2>3, OwnIs
  <2>6. QED
    BY <2>4, <2>5
<1>3. CASE HasLine(s, n, i) /\ s[i] # NL
  <2>1. PICK j \in i..n : s[j] = NL
    BY <1>3 DEF HasLine
  <2>2. i \in 1..n /\ i + 1 \in 1..n /\ j \in 1..n
    BY <1>3, <2>1
  <2>3. t[i] = s[i] /\ t[i + 1] = s[i + 1] /\ t[j] = NL /\ j \in i..p
    BY <2>1, <2>2 DEF Agree
  <2>4. HasLine(t, p, i) /\ (GoodLine(t, i) <=> GoodLine(s, i)) /\ Refusal(t, i) = Refusal(s, i)
    BY <2>3 DEF HasLine, GoodLine, Refusal
  <2>5. CASE ~GoodLine(s, i)
    <3>1. Own(t, p, i, e) = Own(s, n, i, Unended)
      BY <1>3, <2>3, <2>4, <2>5, OwnIs
    <3>2. QED
      BY <1>3, <2>5, <3>1 DEF HasNext
  <2>6. CASE GoodLine(s, i) /\ ~Whole(s, n, i)
    <3>1. Own(s, n, i, Unended) = <<>>
      BY <1>3, <2>6, OwnIs DEF Unended
    <3>2. QED
      BY <1>3, <2>6, <3>1 DEF HasNext
  <2>7. CASE GoodLine(s, i) /\ Whole(s, n, i)
    <3> DEFINE r == HeaderEnd(s, n, i)
    <3>1. IsHeaderEnd(s, n, i, r)
      BY <2>2, <2>7, HeaderEndIs DEF Whole
    <3> HIDE DEF r
    <3>2. /\ r \in i + 2..n /\ HeaderEnd(s, n, i) = r
          /\ IsHeaderEnd(t, p, i, r) /\ HeaderEnd(t, p, i) = r
          /\ ContentLength(t, i, r) = ContentLength(s, i, r)
          /\ AsksToClose(t, i, r) <=> AsksToClose(s, i, r)
      BY <3>1, RequestGrows
    <3>3. RequestEnd(t, p, i) = RequestEnd(s, n, i)
      BY <3>2 DEF RequestEnd
    <3>4. RequestEnd(s, n, i) <= n /\ RequestEnd(s, n, i) \in Nat
      <4>1. ContentLength(s, i, r) \in Nat
        <5>1. i \in Nat /\ r \in Nat
          BY <3>2
        <5>2. QED
          BY <5>1, LengthIs
      <4>2. QED
        BY <2>7, <3>2, <4>1 DEF Whole, RequestEnd
    <3>5. Whole(t, p, i)
      BY <3>2, <3>3, <3>4 DEF Whole, IsHeaderEnd
    <3>6. Own(t, p, i, e) = Own(s, n, i, Unended)
      BY <1>3, <2>3, <2>4, <2>7, <3>5, OwnIs
    <3>7. HasNext(s, n, i) => HasNext(t, p, i) /\ NextStart(t, p, i) = NextStart(s, n, i)
      BY <2>3, <2>4, <3>2, <3>3, <3>5 DEF HasNext, NextStart
    <3>8. QED
      BY <3>6, <3>7
  <2>8. QED
    BY <2>5, <2>6, <2>7
<1>4. QED
  BY <1>1, <1>2, <1>3
-----------------------------------------------------------------------------
(* The answers to all of them. *)

IsFrom(f, s, n, e) ==
  f = [i \in 1..n + 1 |->
         Own(s, n, i, e) \o IF HasNext(s, n, i) THEN f[NextStart(s, n, i)] ELSE <<>>]

(* The answers to what starts in the last k + 1 places. *)
IsEnd(f, s, n, e, k) ==
  f = [i \in n + 1 - k..n + 1 |->
         Own(s, n, i, e) \o IF HasNext(s, n, i) THEN f[NextStart(s, n, i)] ELSE <<>>]

LEMMA NoNextAtEnd ==
  ASSUME NEW s, NEW n \in Nat
  PROVE  ~HasNext(s, n, n + 1) /\ \A e : Own(s, n, n + 1, e) = <<>>
<1>1. ~HasLine(s, n, n + 1)
  BY DEF HasLine
<1>2. QED
  BY <1>1, OwnIs DEF HasNext

LEMMA FromExists ==
  ASSUME NEW s, NEW n \in Nat, NEW e
  PROVE  IsFrom(AnswersFrom(s, n, e), s, n, e)
<1> DEFINE O(i) == Own(s, n, i, e)
           H(i) == HasNext(s, n, i)
           X(i) == NextStart(s, n, i)
           S == {k \in Nat : k <= n => \E f : IsEnd(f, s, n, e, k)}
<1>1. \A i \in 1..n + 1 : H(i) => X(i) \in i + 1..n + 1
  BY NextStartIs
<1>2. ~H(n + 1)
  BY NoNextAtEnd
<1> HIDE DEF O, H, X
<1>3. 0 \in S
  <2> DEFINE f == [i \in n + 1 - 0..n + 1 |-> O(i) \o <<>>]
  <2>1. f = [i \in n + 1 - 0..n + 1 |-> O(i) \o IF H(i) THEN f[X(i)] ELSE <<>>]
    <3>1. \A i \in n + 1 - 0..n + 1 : f[i] = O(i) \o IF H(i) THEN f[X(i)] ELSE <<>>
      <4>1. \A i \in n + 1 - 0..n + 1 : i = n + 1
        OBVIOUS
      <4>2. QED
        BY <1>2, <4>1
    <3>2. f = [i \in n + 1 - 0..n + 1 |-> f[i]]
      OBVIOUS
    <3> HIDE DEF f
    <3>3. QED
      BY <3>1, <3>2
  <2>2. IsEnd(f, s, n, e, 0)
    BY <2>1 DEF IsEnd, O, H, X
  <2>3. QED
    BY <2>2
<1>4. ASSUME NEW k \in Nat, k \in S
      PROVE  k + 1 \in S
  <2>1. SUFFICES ASSUME k + 1 <= n
                 PROVE  \E g : IsEnd(g, s, n, e, k + 1)
    OBVIOUS
  <2>2. PICK f : IsEnd(f, s, n, e, k)
    BY <1>4, <2>1
  <2> DEFINE b == n + 1 - k
             a == n + 1 - (k + 1)
             g == [i \in a..n + 1 |->
                     IF i = a THEN O(i) \o IF H(i) THEN f[X(i)] ELSE <<>> ELSE f[i]]
  <2>3. a \in 1..n + 1 /\ b = a + 1 /\ b \in 1..n + 1
    BY <2>1
  <2>4. \A i \in b..n + 1 : f[i] = O(i) \o IF H(i) THEN f[X(i)] ELSE <<>>
    BY <2>2 DEF IsEnd, O, H, X
  <2> HIDE DEF a, b
  <2>5. \A i \in a..n + 1 : g[i] = O(i) \o IF H(i) THEN g[X(i)] ELSE <<>>
    <3>1. SUFFICES ASSUME NEW i \in a..n + 1
                   PROVE  g[i] = O(i) \o IF H(i) THEN g[X(i)] ELSE <<>>
      OBVIOUS
    <3>2. H(i) => X(i) \in b..n + 1 /\ X(i) # a /\ X(i) \in a..n + 1
      BY <1>1, <2>3
    <3>3. H(i) => g[X(i)] = f[X(i)]
      BY <3>2
    <3>4. CASE i = a
      BY <2>3, <3>3, <3>4
    <3>5. CASE i # a
      <4>1. i \in b..n + 1 /\ g[i] = f[i]
        BY <2>3, <3>5
      <4>2. QED
        BY <2>4, <3>3, <4>1
    <3>6. QED
      BY <3>4, <3>5
  <2>6. IsEnd(g, s, n, e, k + 1)
    <3>1. g = [i \in a..n + 1 |-> g[i]]
      OBVIOUS
    <3> HIDE DEF g
    <3>2. g = [i \in a..n + 1 |-> O(i) \o IF H(i) THEN g[X(i)] ELSE <<>>]
      BY <2>5, <3>1
    <3>3. QED
      BY <3>2 DEF IsEnd, O, H, X, a
  <2>7. QED
    BY <2>6
<1>5. n \in S
  BY <1>3, <1>4, AllNumbers
<1>6. \E f : IsEnd(f, s, n, e, n)
  BY <1>5
<1>7. n + 1 - n = 1
  OBVIOUS
<1>8. \E f : IsFrom(f, s, n, e)
  BY <1>6, <1>7 DEF IsEnd, IsFrom
<1>9. AnswersFrom(s, n, e) = CHOOSE f : IsFrom(f, s, n, e)
  BY DEF AnswersFrom, IsFrom
<1>10. QED
  BY <1>8, <1>9

LEMMA FromSteps ==
  ASSUME NEW s, NEW n \in Nat, NEW e
  PROVE  \A i \in 1..n + 1 :
           /\ HasNext(s, n, i) =>
                AnswersFrom(s, n, e)[i]
                  = Own(s, n, i, e) \o AnswersFrom(s, n, e)[NextStart(s, n, i)]
           /\ ~HasNext(s, n, i) => AnswersFrom(s, n, e)[i] = Own(s, n, i, e)
<1> DEFINE f == AnswersFrom(s, n, e)
<1>1. IsFrom(f, s, n, e)
  BY FromExists
<1> HIDE DEF f
<1>2. \A i \in 1..n + 1 :
        f[i] = Own(s, n, i, e) \o IF HasNext(s, n, i) THEN f[NextStart(s, n, i)] ELSE <<>>
  BY <1>1 DEF IsFrom
<1>3. \A i : Own(s, n, i, e) \o <<>> = Own(s, n, i, e)
  BY OwnIsSeq, ConcatEmptySeq
<1>4. QED
  BY <1>2, <1>3 DEF f

LEMMA FromIsSeq ==
  ASSUME NEW s, NEW n \in Nat, NEW e
  PROVE  \A i \in 1..n + 1 : AnswersFrom(s, n, e)[i] \in Seq(Units)
<1> DEFINE f == AnswersFrom(s, n, e)
           S == {k \in Nat : \A i \in 1..n + 1 : i >= n + 1 - k => f[i] \in Seq(Units)}
<1>1. \A i \in 1..n + 1 :
        /\ HasNext(s, n, i) => f[i] = Own(s, n, i, e) \o f[NextStart(s, n, i)]
        /\ ~HasNext(s, n, i) => f[i] = Own(s, n, i, e)
  BY FromSteps
<1> HIDE DEF f
<1>2. \A i : Own(s, n, i, e) \in Seq(Units)
  BY OwnIsSeq
<1>3. 0 \in S
  <2>1. \A i \in 1..n + 1 : i >= n + 1 - 0 => i = n + 1
    OBVIOUS
  <2>2. f[n + 1] \in Seq(Units)
    BY <1>1, <1>2, NoNextAtEnd
  <2>3. QED
    BY <2>1, <2>2
<1>4. ASSUME NEW k \in Nat, k \in S
      PROVE  k + 1 \in S
  <2>1. SUFFICES ASSUME NEW i \in 1..n + 1, i >= n + 1 - (k + 1)
                 PROVE  f[i] \in Seq(Units)
    OBVIOUS
  <2>2. CASE HasNext(s, n, i)
    <3> DEFINE j == NextStart(s, n, i)
    <3>1. j \in i + 1..n + 1
      BY <2>2, NextStartIs
    <3>2. f[i] = Own(s, n, i, e) \o f[j]
      BY <1>1, <2>2
    <3> HIDE DEF j
    <3>3. f[j] \in Seq(Units)
      <4>1. j \in 1..n + 1 /\ j >= n + 1 - k
        BY <2>1, <3>1
      <4>2. QED
        BY <1>4, <4>1
    <3>4. QED
      BY <1>2, <3>2, <3>3, ConcatProperties
  <2>3. CASE ~HasNext(s, n, i)
    BY <1>1, <1>2, <2>3
  <2>4. QED
    BY <2>2, <2>3
<1>5. n \in S
  BY <1>3, <1>4, AllNumbers
<1>6. QED
  BY <1>5 DEF f

(* More of the stream, or its end, only adds to the answers. *)
LEMMA FromGrows ==
  ASSUME NEW s, NEW t, NEW n \in Nat, NEW p \in Nat, n <= p, Agree(s, t, n), NEW e
  PROVE  \A i \in 1..n + 1 : Starts(AnswersFrom(s, n, Unended)[i], AnswersFrom(t, p, e)[i])
<1> DEFINE f == AnswersFrom(s, n, Unended)
           g == AnswersFrom(t, p, e)
           S == {k \in Nat : \A i \in 1..n + 1 : i >= n + 1 - k => Starts(f[i], g[i])}
<1>1. \A i \in 1..n + 1 :
        /\ HasNext(s, n, i) => f[i] = Own(s, n, i, Unended) \o f[NextStart(s, n, i)]
        /\ ~HasNext(s, n, i) => f[i] = Own(s, n, i, Unended)
  BY FromSteps
<1>2. \A i \in 1..p + 1 :
        /\ HasNext(t, p, i) => g[i] = Own(t, p, i, e) \o g[NextStart(t, p, i)]
        /\ ~HasNext(t, p, i) => g[i] = Own(t, p, i, e)
  BY FromSteps
<1>3. /\ \A i \in 1..n + 1 : f[i] \in Seq(Units)
      /\ \A i \in 1..p + 1 : g[i] \in Seq(Units)
  BY FromIsSeq
<1> HIDE DEF f, g
<1>4. ASSUME NEW i \in 1..n + 1, ~HasNext(s, n, i)
      PROVE  Starts(f[i], g[i])
  <2>1. i \in 1..p + 1 /\ f[i] = Own(s, n, i, Unended)
    <3>1. i \in 1..p + 1
      OBVIOUS
    <3>2. QED
      BY <1>1, <1>4, <3>1
  <2>2. CASE f[i] = <<>>
    BY <1>3, <2>1, <2>2, StartsSelf
  <2>3. CASE f[i] # <<>>
    <3>1. Own(t, p, i, e) = f[i]
      <4>1. Own(s, n, i, Unended) = <<>> \/ Own(t, p, i, e) = Own(s, n, i, Unended)
        BY OwnGrows
      <4>2. QED
        BY <2>1, <2>3, <4>1
    <3>2. CASE HasNext(t, p, i)
      <4>1. g[i] = f[i] \o g[NextStart(t, p, i)]
        BY <1>2, <2>1, <3>1, <3>2
      <4>2. NextStart(t, p, i) \in 1..p + 1
        <5>1. NextStart(t, p, i) \in i + 1..p + 1
          BY <2>1, <3>2, NextStartIs
        <5>2. QED
          BY <5>1
      <4>3. QED
        BY <1>3, <4>1, <4>2, StartsMore
    <3>3. CASE ~HasNext(t, p, i)
      BY <1>2, <1>3, <2>1, <3>1, <3>3, StartsSelf
    <3>4. QED
      BY <3>2, <3>3
  <2>4. QED
    BY <2>2, <2>3
<1>5. 0 \in S
  <2>1. \A i \in 1..n + 1 : i >= n + 1 - 0 => i = n + 1
    OBVIOUS
  <2>2. Starts(f[n + 1], g[n + 1])
    BY <1>4, NoNextAtEnd
  <2>3. QED
    BY <2>1, <2>2
<1>6. ASSUME NEW k \in Nat, k \in S
      PROVE  k + 1 \in S
  <2>1. SUFFICES ASSUME NEW i \in 1..n + 1, i >= n + 1 - (k + 1), HasNext(s, n, i)
                 PROVE  Starts(f[i], g[i])
    BY <1>4
  <2> DEFINE j == NextStart(s, n, i)
             own == Own(s, n, i, Unended)
  <2>2. j \in i + 1..n + 1
    BY <2>1, NextStartIs
  <2>3. f[i] = own \o f[j]
    BY <1>1, <2>1
  <2>4. HasNext(t, p, i) /\ NextStart(t, p, i) = j /\ Own(t, p, i, e) = own
    BY <2>1, OwnGrows
  <2>5. g[i] = own \o g[j]
    <3>1. i \in 1..p + 1
      OBVIOUS
    <3>2. QED
      BY <1>2, <2>4, <3>1
  <2>6. own \in Seq(Units)
    BY OwnIsSeq
  <2> HIDE DEF j, own
  <2>7. j \in 1..n + 1 /\ j >= n + 1 - k
    BY <2>1, <2>2
  <2>8. Starts(f[j], g[j]) /\ f[j] \in Seq(Units)
    BY <1>3, <1>6, <2>7
  <2>9. QED
    BY <2>3, <2>5, <2>6, <2>8, StartsAfter
<1>7. n \in S
  BY <1>5, <1>6, AllNumbers
<1>8. QED
  BY <1>7 DEF f, g

LEMMA AnswersGrow ==
  ASSUME NEW s, NEW t, NEW n \in Nat, NEW p \in Nat, n <= p, Agree(s, t, n), NEW e
  PROVE  /\ Answers(s, n, Unended) \in Seq(Units) /\ Answers(t, p, e) \in Seq(Units)
         /\ Starts(Answers(s, n, Unended), Answers(t, p, e))
<1>1. 1 \in 1..n + 1 /\ 1 \in 1..p + 1
  OBVIOUS
<1>2. QED
  BY <1>1, FromIsSeq, FromGrows DEF Answers

-----------------------------------------------------------------------------
(* The answers to the requests before at are u, whatever comes after the   *)
(* first p tokens. *)
Skips(s, p, at, u) ==
  \A t, q, e : q \in Nat /\ p <= q /\ Agree(s, t, p) =>
    Answers(t, q, e) = u \o AnswersFrom(t, q, e)[at]

LEMMA SkipsNothing ==
  ASSUME NEW s, NEW p \in Nat
  PROVE  Skips(s, p, 1, <<>>)
<1>1. ASSUME NEW t, NEW q \in Nat, NEW e
      PROVE  Answers(t, q, e) = <<>> \o AnswersFrom(t, q, e)[1]
  <2>1. AnswersFrom(t, q, e)[1] \in Seq(Units)
    <3>1. 1 \in 1..q + 1
      OBVIOUS
    <3>2. QED
      BY <3>1, FromIsSeq
  <2>2. QED
    BY <2>1, ConcatEmptySeq DEF Answers
<1>2. QED
  BY <1>1 DEF Skips

LEMMA SkipsStays ==
  ASSUME NEW s, NEW t, NEW p \in Nat, NEW q \in Nat, p <= q, Agree(s, t, p),
         NEW at, NEW u, Skips(s, p, at, u)
  PROVE  Skips(t, q, at, u)
<1>1. ASSUME NEW v, NEW r \in Nat, q <= r, Agree(t, v, q)
      PROVE  p <= r /\ Agree(s, v, p)
  BY <1>1 DEF Agree
<1>2. QED
  BY <1>1 DEF Skips

LEMMA SkipsOn ==
  ASSUME NEW s, NEW p \in Nat, NEW at \in 1..p + 1, NEW u \in Seq(Units),
         Skips(s, p, at, u), HasNext(s, p, at)
  PROVE  Skips(s, p, NextStart(s, p, at), u \o Own(s, p, at, Unended))
<1> DEFINE j == NextStart(s, p, at)
           own == Own(s, p, at, Unended)
<1>1. ASSUME NEW t, NEW q, NEW e, q \in Nat /\ p <= q /\ Agree(s, t, p)
      PROVE  Answers(t, q, e) = (u \o own) \o AnswersFrom(t, q, e)[j]
  <2> DEFINE f == AnswersFrom(t, q, e)
  <2>1. Answers(t, q, e) = u \o f[at]
    BY <1>1 DEF Skips
  <2>2. HasNext(t, q, at) /\ NextStart(t, q, at) = j /\ Own(t, q, at, e) = own
    BY <1>1, OwnGrows
  <2>3. at \in 1..q + 1
    BY <1>1
  <2>4. f[at] = own \o f[j]
    <3>1. q \in Nat
      BY <1>1
    <3>2. HasNext(t, q, at) => f[at] = Own(t, q, at, e) \o f[NextStart(t, q, at)]
      BY <2>3, <3>1, FromSteps
    <3> HIDE DEF f, j, own
    <3>3. QED
      BY <2>2, <3>2
  <2>5. j \in 1..q + 1
    <3>1. j \in at + 1..p + 1
      BY NextStartIs
    <3> HIDE DEF j
    <3>2. QED
      BY <1>1, <3>1
  <2>6. f[j] \in Seq(Units)
    BY <1>1, <2>5, FromIsSeq
  <2>7. own \in Seq(Units)
    BY OwnIsSeq
  <2> HIDE DEF f, j, own
  <2>8. u \o (own \o f[j]) = (u \o own) \o f[j]
    BY <2>6, <2>7, Regroup
  <2>9. QED
    BY <2>1, <2>4, <2>8 DEF f
<1>2. QED
  BY <1>1 DEF Skips

LEMMA SkipsLast ==
  ASSUME NEW s, NEW p \in Nat, NEW at \in 1..p + 1, NEW u,
         Skips(s, p, at, u), ~HasNext(s, p, at), NEW e
  PROVE  Answers(s, p, e) = u \o Own(s, p, at, e)
<1>1. Agree(s, s, p) /\ p <= p
  BY DEF Agree
<1>2. Answers(s, p, e) = u \o AnswersFrom(s, p, e)[at]
  BY <1>1 DEF Skips
<1>3. QED
  BY <1>2, FromSteps

(* What was answered so far starts what is owed. *)
LEMMA SkipsStarts ==
  ASSUME NEW s, NEW p \in Nat, NEW at \in 1..p + 1, NEW u \in Seq(Units),
         Skips(s, p, at, u), NEW e
  PROVE  Starts(u, Answers(s, p, e))
<1>1. Agree(s, s, p) /\ p <= p
  BY DEF Agree
<1>2. Answers(s, p, e) = u \o AnswersFrom(s, p, e)[at]
  BY <1>1 DEF Skips
<1>3. QED
  BY <1>2, FromIsSeq, StartsMore

-----------------------------------------------------------------------------
(* What the connection knows of the request that it reads: with s all that *)
(* is sent, p how much of it was read, and at where the request starts.    *)

Heads(c, s, at, r) ==
  c.bodyLen = ContentLength(s, at, r) /\ (c.close <=> AsksToClose(s, at, r))

NoBlank(s, at, r) == \A j \in at + 2..r : ~(s[j - 1] = NL /\ s[j] = NL)

Awaits(c, s, p, at) ==
  /\ ~c.start /\ Read(c, p) + 1 = at
  /\ c.target = NoTarget /\ c.bodyLen = 0 /\ ~c.close /\ ~c.bodyWait

InHeader(c, s, p, at) ==
  /\ c.start /\ at + 1 <= Read(c, p)
  /\ GoodLine(s, at) /\ c.target = s[at]
  /\ Heads(c, s, at, Read(c, p))
  /\ IF c.bodyWait THEN c.bodyLen > 0 /\ IsHeaderEnd(s, p, at, Read(c, p))
                   ELSE s[Read(c, p)] = NL /\ NoBlank(s, at, Read(c, p))

Reads(c, s, p, at) ==
  ~c.qReady /\ c.status = 0 /\ (Awaits(c, s, p, at) \/ InHeader(c, s, p, at))

Refuses(c, s, p, at) ==
  /\ c.close /\ c.target = NoTarget /\ c.status = Refusal(s, at)
  /\ HasLine(s, p, at) /\ s[at] # NL /\ ~GoodLine(s, at)

Completes(c, s, p, at) ==
  /\ at + 1 <= Read(c, p) /\ GoodLine(s, at) /\ c.target = s[at]
  /\ IsHeaderEnd(s, p, at, Read(c, p)) /\ Heads(c, s, at, Read(c, p))
  /\ c.bodyLen <= Len(c.q) /\ Len(c.q) - c.bodyLen < BufSize

Ready(c, s, p, at) ==
  c.qReady /\ c.start /\ (Refuses(c, s, p, at) \/ Completes(c, s, p, at))

(* A line of i tokens, its end counted, is taken from the buffer, which    *)
(* starts after the first v of the stream; d is left of the connection.    *)
Takes(c, s, p, i, line, d, v) ==
  /\ i \in Nat /\ i >= 1 /\ v \in Nat /\ v + i <= p
  /\ d \in ConnType /\ Follows(d, s, p) /\ Read(d, p) = v + i
  /\ Len(d.q) \in Nat /\ Len(d.q) + i = Len(c.q)
  /\ s[v + i] = NL /\ \A x \in v + 1..v + i - 1 : s[x] # NL
  /\ line = <<>> <=> i = 1
  /\ line \in Seq(Tokens) /\ Len(line) = i - 1
  /\ i > 1 => line[1] = s[v + 1]

LEMMA TurnTakes ==
  ASSUME NEW c \in ConnType, NEW s, NEW p \in Nat, Follows(c, s, p), FirstNL(c.q) # 0
  PROVE  Takes(c, s, p, FirstNL(c.q), SubSeq(c.q, 1, FirstNL(c.q) - 1),
               [c EXCEPT !.q = SubSeq(@, FirstNL(c.q) + 1, Len(@))], Read(c, p))
<1> DEFINE i == FirstNL(c.q)
           line == SubSeq(c.q, 1, i - 1)
           rest == SubSeq(c.q, i + 1, Len(c.q))
           d == [c EXCEPT !.q = rest]
           u == Read(c, p)
           old == Len(c.q)
           new == Len(rest)
<1>1. c.q \in Seq(Tokens) /\ old \in Nat
  <2>1. c.q \in Seq(Tokens)
    BY DEF ConnType, Tokens
  <2>2. QED
    BY <2>1, LenProperties
<1>2. i \in 1..old /\ c.q[i] = NL /\ \A l \in 1..i - 1 : c.q[l] # NL
  BY <1>1, FirstNLIsPlace
<1>3. /\ rest \in Seq(Tokens) /\ new = old - i
      /\ \A x \in 1..new : rest[x] = c.q[i + x]
      /\ line = <<>> <=> i = 1
      /\ i > 1 => line[1] = c.q[1]
  BY <1>1, <1>2, LineTaken
<1>4. line \in Seq(Tokens) /\ Len(line) = i - 1
  <2>1. i - 1 \in Nat /\ 1 \in Nat /\ \A l \in 1..i - 1 : c.q[l] \in Tokens
    <3>1. \A l \in 1..i - 1 : l \in 1..old
      BY <1>1, <1>2
    <3>2. QED
      BY <1>1, <1>2, <3>1, ElementOfSeq
  <2> HIDE DEF i
  <2>2. /\ line \in Seq(Tokens)
        /\ Len(line) = IF 1 <= i - 1 THEN i - 1 - 1 + 1 ELSE 0
    BY <1>1, <2>1, SubSeqProperties
  <2> HIDE DEF line
  <2>3. QED
    BY <1>2, <2>2
<1>5. d \in ConnType /\ d.q = rest
  BY <1>3 DEF ConnType, Tokens
<1>6. old <= p /\ u = p - old /\ \A x \in 1..old : c.q[x] = s[u + x]
  BY DEF Follows, Read
<1> HIDE DEF i, line, rest, d, u, old, new
<1>7. /\ i \in Nat /\ i >= 1 /\ u \in Nat /\ u + i <= p /\ new \in Nat /\ new + i = old
      /\ new <= p /\ p - new = u + i
  BY <1>1, <1>2, <1>3, <1>6
<1>8. s[u + i] = NL
  BY <1>2, <1>6
<1>9. ASSUME NEW x \in u + 1..u + i - 1
      PROVE  s[x] # NL
  <2>1. x - u \in 1..i - 1 /\ x - u \in 1..old /\ u + (x - u) = x
    BY <1>1, <1>2, <1>7
  <2>2. QED
    BY <1>2, <1>6, <2>1
<1>10. ASSUME NEW x \in 1..new
       PROVE  rest[x] = s[(u + i) + x]
  <2>1. i + x \in 1..old /\ u + (i + x) = (u + i) + x
    BY <1>2, <1>7
  <2>2. QED
    BY <1>3, <1>6, <2>1
<1>11. Read(d, p) = u + i /\ Follows(d, s, p)
  <2>1. Read(d, p) = p - new
    BY <1>5 DEF Read, new
  <2>2. QED
    BY <1>5, <1>7, <1>10, <2>1 DEF Follows, new
<1>12. i > 1 => line[1] = s[u + 1]
  <2>1. 1 \in 1..old
    BY <1>1, <1>2
  <2>2. QED
    BY <1>3, <1>6, <2>1
<1>13. /\ i \in Nat /\ i >= 1 /\ u \in Nat /\ u + i <= p
       /\ d \in ConnType /\ Follows(d, s, p) /\ Read(d, p) = u + i
       /\ Len(d.q) \in Nat /\ Len(d.q) + i = old
       /\ s[u + i] = NL /\ \A x \in u + 1..u + i - 1 : s[x] # NL
       /\ line = <<>> <=> i = 1
       /\ line \in Seq(Tokens) /\ Len(line) = i - 1
       /\ i > 1 => line[1] = s[u + 1]
  BY <1>3, <1>4, <1>5, <1>7, <1>8, <1>9, <1>11, <1>12 DEF new
<1>14. d = [c EXCEPT !.q = SubSeq(@, i + 1, Len(@))]
  BY DEF d, rest
<1>15. Takes(c, s, p, i, line, d, u)
  BY <1>13 DEF Takes, old
<1>16. QED
  BY <1>14, <1>15 DEF i, line, u

(* A first line that is not empty. *)
LEMMA ReadStartServes ==
  ASSUME NEW d \in ConnType, NEW line \in Seq(Tokens), NEW s, NEW p \in Nat, NEW at \in Nat,
         NEW i \in Nat, i > 1, line # <<>>, Len(line) = i - 1, line[1] = s[at],
         ~d.start, d.status = 0, ~d.qReady,
         d.target = NoTarget, d.bodyLen = 0, ~d.close, ~d.bodyWait,
         Read(d, p) = at - 1 + i, at - 1 + i <= p,
         s[at - 1 + i] = NL, \A x \in at..at - 1 + i - 1 : s[x] # NL
  PROVE  LET m == ReadStart(d, line) IN Reads(m, s, p, at) \/ Ready(m, s, p, at)
<1> DEFINE m == ReadStart(d, line)
           e == [d EXCEPT !.start = TRUE]
<1>1. s[at] # NL /\ (s[at + 1] = NL <=> i = 2)
  <2>1. at \in at..at - 1 + i - 1
    OBVIOUS
  <2>2. i = 2 => at - 1 + i = at + 1
    OBVIOUS
  <2>3. i # 2 => at + 1 \in at..at - 1 + i - 1
    OBVIOUS
  <2>4. QED
    BY <2>1, <2>2, <2>3
<1>2. m.q = d.q /\ Read(m, p) = at - 1 + i
  BY ReadStartKeeps DEF Read
<1>3. HasLine(s, p, at)
  <2>1. at - 1 + i \in at..p
    OBVIOUS
  <2>2. QED
    BY <2>1 DEF HasLine
<1>4. line = <<OtherMethod>> <=> i = 2 /\ s[at] = OtherMethod
  <2>1. i = 2 /\ s[at] = OtherMethod => line = <<OtherMethod>>
    <3>1. ASSUME i = 2, s[at] = OtherMethod
          PROVE  line = <<OtherMethod>>
      <4>1. Len(line) = 1 /\ line[1] = OtherMethod
        BY <3>1
      <4>2. QED
        BY <4>1
    <3>2. QED
      BY <3>1
  <2>2. line = <<OtherMethod>> => Len(line) = 1 /\ line[1] = OtherMethod
    OBVIOUS
  <2>3. QED
    BY <2>1, <2>2
<1>5. CASE GoodLine(s, at)
  <2>1. i = 2 /\ s[at] \in Targets
    BY <1>1, <1>5 DEF GoodLine
  <2>2. m = [e EXCEPT !.target = line[1]]
    <3>1. Len(line) = 1 /\ line[1] \in Targets /\ line # <<OtherMethod>>
      BY <1>4, <2>1, StreamsAssumption
    <3>2. QED
      BY <3>1 DEF ReadStart
  <2> HIDE DEF m
  <2>3. /\ m.start /\ m.target = s[at] /\ ~m.qReady /\ m.status = 0 /\ m.bodyLen = 0
        /\ ~m.close /\ ~m.bodyWait
    BY <2>1, <2>2 DEF ConnType
  <2>4. Read(m, p) = at + 1
    BY <1>2, <2>1
  <2>5. Lengths(s, at, at + 1) = {} /\ ~AsksToClose(s, at, at + 1) /\ NoBlank(s, at, at + 1)
    BY DEF Lengths, AsksToClose, NoBlank
  <2>6. Heads(m, s, at, at + 1)
    BY <2>3, <2>5 DEF Heads, ContentLength
  <2>7. InHeader(m, s, p, at)
    BY <1>1, <1>5, <2>1, <2>3, <2>4, <2>5, <2>6 DEF InHeader
  <2>8. QED
    BY <2>3, <2>7 DEF Reads, m
<1>6. CASE ~GoodLine(s, at)
  <2>1. ~(Len(line) = 1 /\ line[1] \in Targets)
    BY <1>1, <1>6 DEF GoodLine
  <2>2. m = Error(e, Refusal(s, at))
    BY <1>1, <1>4, <2>1 DEF ReadStart, Refusal
  <2>3. Refusal(s, at) \in Nat /\ 0 < Refusal(s, at)
    BY DEF Refusal, BAD_REQUEST, METHOD_NOT_ALLOWED
  <2> HIDE DEF m
  <2>4. m.status = Refusal(s, at) /\ m.close /\ m.qReady /\ m.target = NoTarget /\ m.start
    BY <2>2, <2>3 DEF Error, ConnType
  <2>5. Ready(m, s, p, at)
    BY <1>1, <1>3, <1>6, <2>4 DEF Ready, Refuses
  <2>6. QED
    BY <2>5 DEF m
<1>7. QED
  BY <1>5, <1>6

(* A header line, an empty one at its end. *)
LEMMA ReadHeaderServes ==
  ASSUME NEW d \in ConnType, NEW line, NEW s, NEW p \in Nat, NEW at \in Nat,
         NEW u \in Nat, NEW i \in Nat, i >= 1, at + 1 <= u, u + i <= p,
         d.start, ~d.qReady, d.status = 0, ~d.bodyWait,
         GoodLine(s, at), d.target = s[at], Heads(d, s, at, u),
         s[u] = NL, NoBlank(s, at, u),
         Read(d, p) = u + i, Len(d.q) \in Nat, Len(d.q) < BufSize,
         line = <<>> <=> i = 1, i > 1 => line[1] = s[u + 1],
         s[u + i] = NL, \A x \in u + 1..u + i - 1 : s[x] # NL
  PROVE  LET m == ReadHeader(d, line) IN Reads(m, s, p, at) \/ Ready(m, s, p, at)
<1> DEFINE m == ReadHeader(d, line)
           r == u + i
<1>1. m.q = d.q /\ Read(m, p) = r
  BY ReadHeaderKeeps DEF Read
<1>2. NL \notin Nat /\ CloseLine \notin Nat /\ ExpectLine \notin Nat
      /\ CloseLine # NL /\ CloseLine # ExpectLine
  BY StreamsAssumption
<1>3. d.bodyLen \in Nat /\ d.close \in BOOLEAN
  BY DEF ConnType
<1>4. CASE i = 1
  <2>1. r = u + 1 /\ s[r] = NL /\ r - 1 = u /\ r \in at + 2..p
    BY <1>4
  <2> HIDE DEF r
  <2>2. IsHeaderEnd(s, p, at, r)
    <3>1. r \in Blanks(s, p, at)
      BY <2>1 DEF Blanks
    <3>2. ASSUME NEW j \in Blanks(s, p, at)
          PROVE  r <= j
      <4>1. j \in Nat /\ j \notin at + 2..u /\ j \in at + 2..p
        BY <3>2 DEF NoBlank, Blanks
      <4>2. QED
        BY <2>1, <4>1
    <3>3. QED
      BY <3>1, <3>2 DEF IsHeaderEnd
  <2>3. Lengths(s, at, r) = Lengths(s, at, u) /\ (AsksToClose(s, at, r) <=> AsksToClose(s, at, u))
    <3>1. \A j : j \in at + 2..r <=> (j = r \/ j \in at + 2..u)
      BY <2>1
    <3>2. s[r] \notin Nat /\ s[r] # CloseLine
      BY <1>2, <2>1
    <3>3. Lengths(s, at, r) = Lengths(s, at, u)
      BY <3>1, <3>2 DEF Lengths
    <3>4. AsksToClose(s, at, r) <=> AsksToClose(s, at, u)
      BY <3>1, <3>2 DEF AsksToClose
    <3>5. QED
      BY <3>3, <3>4
  <2>4. Heads(d, s, at, r)
    BY <2>3 DEF Heads, ContentLength
  <2>5. CASE d.bodyLen > 0
    <3>1. m = [d EXCEPT !.bodyWait = TRUE]
      BY <1>4, <2>5 DEF ReadHeader
    <3> HIDE DEF m
    <3>2. /\ m.start /\ ~m.qReady /\ m.status = 0 /\ m.bodyWait /\ m.target = s[at]
          /\ m.bodyLen = d.bodyLen /\ m.close = d.close
      BY <3>1 DEF ConnType
    <3>3. InHeader(m, s, p, at)
      BY <1>1, <2>1, <2>2, <2>4, <2>5, <3>2 DEF InHeader, Heads
    <3>4. QED
      BY <3>2, <3>3 DEF Reads, m
  <2>6. CASE ~(d.bodyLen > 0)
    <3>1. m = [d EXCEPT !.qReady = TRUE]
      BY <1>4, <2>6 DEF ReadHeader
    <3> HIDE DEF m
    <3>2. /\ m.start /\ m.qReady /\ m.target = s[at]
          /\ m.bodyLen = d.bodyLen /\ m.close = d.close
      BY <3>1 DEF ConnType
    <3>3. d.bodyLen = 0 /\ d.bodyLen <= Len(d.q) /\ Len(d.q) - d.bodyLen < BufSize
      BY <1>3, <2>6
    <3>4. Completes(m, s, p, at)
      BY <1>1, <2>1, <2>2, <2>4, <3>2, <3>3 DEF Completes, Heads
    <3>5. QED
      BY <3>2, <3>4 DEF Ready, m
  <2>7. QED
    BY <2>5, <2>6
<1>5. CASE i # 1
  <2>1. i > 1 /\ line # <<>> /\ line[1] = s[u + 1] /\ s[u + 1] # NL /\ u + 1 \in at + 2..r
    BY <1>5
  <2>2. NoBlank(s, at, r)
    <3>1. SUFFICES ASSUME NEW j \in at + 2..r, s[j - 1] = NL, s[j] = NL
                   PROVE  FALSE
      BY DEF NoBlank
    <3>2. j > u
      BY <3>1 DEF NoBlank
    <3>3. j # u + 1
      BY <2>1, <3>1
    <3>4. j - 1 \in u + 1..u + i - 1
      BY <3>2, <3>3
    <3>5. QED
      BY <3>1, <3>4
  <2>3. \A j \in at + 2..r : s[j - 1] = NL => j = u + 1 \/ j \in at + 2..u
    <3>1. SUFFICES ASSUME NEW j \in at + 2..r, s[j - 1] = NL, j # u + 1, j > u
                   PROVE  FALSE
      OBVIOUS
    <3>2. j - 1 \in u + 1..u + i - 1
      BY <3>1, SMTT(60)
    <3>3. QED
      BY <3>1, <3>2
  <2>4. u + 1 - 1 = u /\ \A j \in at + 2..u : j \in at + 2..r /\ j < u + 1
    OBVIOUS
  <2>5. AsksToClose(s, at, r) <=> AsksToClose(s, at, u) \/ line[1] = CloseLine
    BY <2>1, <2>3, <2>4 DEF AsksToClose
  <2>6. ContentLength(s, at, r)
          = IF line[1] \in Nat THEN line[1] ELSE ContentLength(s, at, u)
    <3>1. CASE line[1] \in Nat
      <4>1. u + 1 \in Lengths(s, at, r)
        BY <2>1, <2>4, <3>1 DEF Lengths
      <4>2. \A j \in Lengths(s, at, r) : u + 1 >= j
        BY <2>3, <2>4 DEF Lengths
      <4>3. Lengths(s, at, r) \in SUBSET (0..r) /\ r \in Nat
        BY DEF Lengths
      <4>4. Max(Lengths(s, at, r)) = u + 1
        BY <4>1, <4>2, <4>3, LastIs
      <4>5. QED
        BY <2>1, <3>1, <4>1, <4>4 DEF ContentLength
    <3>2. CASE line[1] \notin Nat
      <4>1. Lengths(s, at, r) = Lengths(s, at, u)
        BY <2>1, <2>3, <2>4, <3>2 DEF Lengths
      <4>2. QED
        BY <3>2, <4>1 DEF ContentLength
    <3>3. QED
      BY <3>1, <3>2
  <2> DEFINE first == line[1]
  <2>7. m = IF first \in Nat THEN [d EXCEPT !.bodyLen = first]
            ELSE IF first = CloseLine THEN [d EXCEPT !.close = TRUE]
            ELSE IF first = ExpectLine THEN [d EXCEPT !.expect = TRUE]
            ELSE d
    <3>1. CASE first \in Nat
      BY <1>2, <2>1, <3>1 DEF ReadHeader
    <3>2. CASE first = CloseLine
      BY <1>2, <2>1, <3>2 DEF ReadHeader
    <3>3. CASE first = ExpectLine
      BY <1>2, <2>1, <3>3 DEF ReadHeader
    <3>4. CASE first \notin Nat /\ first # CloseLine /\ first # ExpectLine
      BY <1>2, <2>1, <3>4 DEF ReadHeader
    <3>5. QED
      BY <3>1, <3>2, <3>3, <3>4
  <2>8. ContentLength(s, at, r) = IF first \in Nat THEN first ELSE ContentLength(s, at, u)
    BY <2>6
  <2>9. AsksToClose(s, at, r) <=> AsksToClose(s, at, u) \/ first = CloseLine
    BY <2>5
  <2> HIDE DEF m, first, r
  <2>10. /\ m.start /\ ~m.qReady /\ m.status = 0 /\ ~m.bodyWait /\ m.target = s[at]
         /\ m.bodyLen = (IF first \in Nat THEN first ELSE d.bodyLen)
         /\ m.close <=> d.close \/ first = CloseLine
    BY <1>2, <2>7 DEF ConnType
  <2>11. Heads(m, s, at, r)
    BY <2>8, <2>9, <2>10 DEF Heads
  <2>12. InHeader(m, s, p, at)
    BY <1>1, <2>1, <2>2, <2>10, <2>11 DEF InHeader, r
  <2>13. QED
    BY <2>10, <2>12 DEF Reads, m
<1>6. QED
  BY <1>4, <1>5

-----------------------------------------------------------------------------
(* Nothing more can be read of the request. *)
Stuck(c) == IF c.bodyWait THEN Len(c.q) < c.bodyLen ELSE FirstNL(c.q) = 0

LEMMA ReadMsgIs ==
  ASSUME NEW c \in ConnType
  PROVE  LET i == FirstNL(c.q)
             line == SubSeq(c.q, 1, i - 1)
             d == [c EXCEPT !.q = SubSeq(@, i + 1, Len(@))]
         IN /\ c.q = <<>> => i = 0
            /\ \/ ReadMsg(c) = c /\ (c.qReady \/ c.q = <<>> \/ (~c.bodyWait /\ i = 0))
               \/ /\ ~c.qReady /\ c.bodyWait
                  /\ ReadMsg(c) = [c EXCEPT !.qReady = c.bodyLen <= Len(c.q)]
               \/ /\ ~c.qReady /\ ~c.bodyWait /\ i # 0
                  /\ ReadMsg(c) = IF c.start THEN ReadHeader(d, line) ELSE ReadStart(d, line)
<1> DEFINE i == FirstNL(c.q)
<1>1. c.q = <<>> => i = 0
  <2>1. c.q \in Seq(Tokens)
    BY DEF ConnType, Tokens
  <2>2. i \in 0..Len(c.q)
    BY <2>1, FirstNLIsPlace
  <2>3. c.q = <<>> => Len(c.q) = 0
    BY EmptySeq
  <2> HIDE DEF i
  <2>4. QED
    BY <2>2, <2>3
<1>2. CASE c.qReady
  BY <1>1, <1>2 DEF ReadMsg
<1>3. CASE ~c.qReady /\ c.bodyWait
  BY <1>1, <1>3 DEF ReadMsg
<1>4. CASE ~c.qReady /\ ~c.bodyWait
  <2> DEFINE line == SubSeq(c.q, 1, i - 1)
             d == [c EXCEPT !.q = SubSeq(@, i + 1, Len(@))]
             m == IF c.start THEN ReadHeader(d, line) ELSE ReadStart(d, line)
  <2>1. ReadMsg(c) = IF i = 0 THEN c ELSE m
    BY <1>1, <1>4 DEF ReadMsg, FirstNL
  <2>2. \/ ReadMsg(c) = c /\ i = 0
        \/ i # 0 /\ ReadMsg(c) = m
    BY <2>1
  <2>3. QED
    BY <1>1, <1>4, <2>2
<1>5. QED
  BY <1>2, <1>3, <1>4

(* One turn of the loop: what the connection knows of the request that it  *)
(* reads stays true, or empty lines before it are skipped.                 *)
Serves(c, s, p, u) ==
  \E at \in 1..p + 1 : Skips(s, p, at, u) /\ (Reads(c, s, p, at) \/ Ready(c, s, p, at))

LEMMA TurnServes ==
  ASSUME NEW c \in ConnType, NEW s, NEW p \in Nat, NEW u \in Seq(Units),
         Follows(c, s, p), Len(c.q) <= BufSize, Serves(c, s, p, u)
  PROVE  Follows(ReadMsg(c), s, p) /\ Serves(ReadMsg(c), s, p, u)
<1> DEFINE i == FirstNL(c.q)
           line == SubSeq(c.q, 1, i - 1)
           d == [c EXCEPT !.q = SubSeq(@, i + 1, Len(@))]
           m == ReadMsg(c)
           v == Read(c, p)
           old == Len(c.q)
<1>1. PICK at \in 1..p + 1 : Skips(s, p, at, u) /\ (Reads(c, s, p, at) \/ Ready(c, s, p, at))
  BY DEF Serves
<1>2. old \in Nat /\ c.bodyLen \in Nat /\ BufSize \in Nat /\ old <= p /\ v = p - old
      /\ at \in Nat /\ 1 <= at /\ v \in Nat
  <2>1. c.q \in Seq(Tokens)
    BY DEF ConnType, Tokens
  <2>2. old \in Nat
    BY <2>1, LenProperties
  <2>3. old <= p
    BY DEF Follows
  <2>4. v = p - old
    BY DEF Read
  <2> HIDE DEF old, v
  <2>5. QED
    BY <2>2, <2>3, <2>4, StreamsAssumption DEF ConnType
<1>3. CASE m = c
  BY <1>1, <1>3 DEF Serves
<1>4. CASE ~c.qReady /\ c.bodyWait /\ m = [c EXCEPT !.qReady = c.bodyLen <= Len(c.q)]
  <2>1. /\ m.q = c.q /\ m.start = c.start /\ m.target = c.target /\ m.bodyLen = c.bodyLen
        /\ m.close = c.close /\ m.bodyWait = c.bodyWait /\ m.status = c.status
        /\ (m.qReady <=> c.bodyLen <= old)
    <3>1. \A b : LET f == [c EXCEPT !.qReady = b]
                 IN /\ f.q = c.q /\ f.start = c.start /\ f.target = c.target
                    /\ f.bodyLen = c.bodyLen /\ f.close = c.close
                    /\ f.bodyWait = c.bodyWait /\ f.status = c.status /\ f.qReady = b
      BY DEF ConnType
    <3>2. QED
      BY <1>4, <3>1, ZenonT(60)
  <2> HIDE DEF m
  <2>2. Read(m, p) = v /\ Follows(m, s, p)
    BY <2>1 DEF Read, Follows
  <2>3. InHeader(c, s, p, at) /\ c.status = 0
    BY <1>1, <1>4 DEF Reads, Ready, Awaits
  <2>4. /\ c.start /\ at + 1 <= v /\ GoodLine(s, at) /\ c.target = s[at] /\ Heads(c, s, at, v)
        /\ c.bodyLen > 0 /\ IsHeaderEnd(s, p, at, v)
    BY <1>4, <2>3 DEF InHeader
  <2>5. Heads(m, s, at, v)
    BY <2>1, <2>4 DEF Heads
  <2>6. CASE m.qReady
    <3>1. m.bodyLen <= Len(m.q) /\ Len(m.q) - m.bodyLen < BufSize
      <4>1. c.bodyLen <= old /\ old <= BufSize
        BY <2>1, <2>6
      <4> HIDE DEF old
      <4>2. c.bodyLen <= old /\ old - c.bodyLen < BufSize
        BY <1>2, <2>4, <4>1
      <4>3. QED
        BY <2>1, <4>2 DEF old
    <3>2. Completes(m, s, p, at)
      BY <2>1, <2>2, <2>4, <2>5, <3>1 DEF Completes
    <3>3. Ready(m, s, p, at)
      BY <2>1, <2>4, <2>6, <3>2 DEF Ready
    <3>4. QED
      BY <1>1, <2>2, <3>3 DEF Serves, m
  <2>7. CASE ~m.qReady
    <3>1. InHeader(m, s, p, at)
      BY <1>4, <2>1, <2>2, <2>4, <2>5 DEF InHeader
    <3>2. Reads(m, s, p, at)
      BY <2>1, <2>3, <2>7, <3>1 DEF Reads
    <3>3. QED
      BY <1>1, <2>2, <3>2 DEF Serves, m
  <2>8. QED
    BY <2>6, <2>7
<1>5. CASE /\ ~c.qReady /\ ~c.bodyWait /\ i # 0
           /\ m = IF c.start THEN ReadHeader(d, line) ELSE ReadStart(d, line)
  <2>1. /\ i \in Nat /\ i >= 1 /\ v \in Nat /\ v + i <= p
        /\ d \in ConnType /\ Follows(d, s, p) /\ Read(d, p) = v + i
        /\ Len(d.q) \in Nat /\ Len(d.q) + i = old
        /\ s[v + i] = NL /\ \A x \in v + 1..v + i - 1 : s[x] # NL
        /\ line = <<>> <=> i = 1
        /\ line \in Seq(Tokens) /\ Len(line) = i - 1
        /\ i > 1 => line[1] = s[v + 1]
    <3>1. c \in ConnType /\ p \in Nat /\ Follows(c, s, p) /\ FirstNL(c.q) # 0
      BY <1>5
    <3>2. Takes(c, s, p, i, line, d, v)
      BY <3>1, TurnTakes
    <3> HIDE DEF i, line, d, v
    <3>3. QED
      BY <3>2 DEF Takes
  <2>2. /\ d.start = c.start /\ d.status = c.status /\ d.qReady = c.qReady
        /\ d.target = c.target /\ d.bodyLen = c.bodyLen /\ d.close = c.close
        /\ d.bodyWait = c.bodyWait
    BY DEF ConnType
  <2> HIDE DEF d, line, i, v
  <2>3. m.q = d.q
    BY <1>5, <2>1, ReadHeaderKeeps, ReadStartKeeps
  <2>4. Follows(m, s, p) /\ Read(m, p) = v + i
    BY <2>1, <2>3 DEF Follows, Read
  <2>5. Reads(c, s, p, at)
    BY <1>1, <1>5 DEF Ready
  <2>6. CASE c.start
    <3>1. /\ at + 1 <= v /\ GoodLine(s, at) /\ c.target = s[at] /\ Heads(c, s, at, v)
          /\ s[v] = NL /\ NoBlank(s, at, v) /\ c.status = 0 /\ ~c.qReady
      BY <1>5, <2>5, <2>6 DEF Reads, Awaits, InHeader, v
    <3>2. Heads(d, s, at, v)
      BY <2>2, <3>1 DEF Heads
    <3>3. Len(d.q) < BufSize
      <4> DEFINE new == Len(d.q)
      <4>1. new \in Nat /\ new + i = old /\ old <= BufSize
        BY <2>1
      <4> HIDE DEF new, old
      <4>2. QED
        BY <1>2, <2>1, <4>1 DEF new
    <3>4. LET k == ReadHeader(d, line) IN Reads(k, s, p, at) \/ Ready(k, s, p, at)
      <4>1. d.start /\ ~d.qReady /\ d.status = 0 /\ ~d.bodyWait /\ d.target = s[at]
        BY <1>5, <2>2, <2>6, <3>1
      <4>2. at \in Nat /\ i >= 1
        BY <1>2, <2>1
      <4>3. QED
        BY <2>1, <3>1, <3>2, <3>3, <4>1, <4>2, ReadHeaderServes
    <3>5. m = ReadHeader(d, line)
      BY <1>5, <2>6
    <3> HIDE DEF m
    <3>6. QED
      BY <1>1, <2>4, <3>4, <3>5 DEF Serves, m
  <2>7. CASE ~c.start
    <3>1. /\ v + 1 = at /\ c.target = NoTarget /\ c.bodyLen = 0 /\ ~c.close /\ c.status = 0
      BY <2>5, <2>7 DEF Reads, Awaits, InHeader, v
    <3>2. m = ReadStart(d, line)
      BY <1>5, <2>7
    <3>3. CASE i = 1
      <4>1. m = d
        BY <2>1, <3>2, <3>3 DEF ReadStart
      <4> HIDE DEF m
      <4>2. s[at] = NL /\ at \in at..p /\ v + i + 1 = at + 1
        <5>1. v + i = at /\ at <= p /\ at \in Nat
          BY <1>2, <2>1, <3>1, <3>3
        <5>2. QED
          BY <2>1, <5>1
      <4>3. /\ HasNext(s, p, at) /\ NextStart(s, p, at) = at + 1
            /\ Own(s, p, at, Unended) = <<>>
        BY <4>2, OwnIs DEF HasNext, HasLine, NextStart
      <4>4. Skips(s, p, at + 1, u)
        <5>1. Skips(s, p, at + 1, u \o <<>>)
          BY <1>1, <4>3, SkipsOn
        <5>2. QED
          BY <5>1, ConcatEmptySeq
      <4>5. Awaits(d, s, p, at + 1)
        BY <1>5, <2>1, <2>2, <2>7, <3>1, <4>2 DEF Awaits
      <4>6. Reads(d, s, p, at + 1)
        BY <1>5, <2>2, <3>1, <4>5 DEF Reads
      <4>7. at + 1 \in 1..p + 1
        BY <1>2, <2>1, <3>1, <3>3
      <4>8. QED
        BY <2>4, <4>1, <4>4, <4>6, <4>7 DEF Serves, m
    <3>4. CASE i # 1
      <4>1. /\ i > 1 /\ line # <<>> /\ line[1] = s[at] /\ at - 1 + i = v + i /\ at \in Nat
            /\ at..at - 1 + i - 1 = v + 1..v + i - 1
        <5>1. i > 1 /\ line # <<>> /\ line[1] = s[v + 1]
          BY <2>1, <3>4
        <5>2. at = v + 1 /\ v \in Nat /\ i \in Nat
          BY <2>1, <3>1
        <5>3. at - 1 + i = v + i /\ at - 1 + i - 1 = v + i - 1 /\ at \in Nat
          BY <5>2
        <5>4. QED
          BY <5>1, <5>2, <5>3
      <4>2. /\ ~d.start /\ d.status = 0 /\ ~d.qReady /\ d.target = NoTarget
            /\ d.bodyLen = 0 /\ ~d.close /\ ~d.bodyWait
        BY <1>5, <2>2, <2>7, <3>1
      <4>3. Read(d, p) = at - 1 + i /\ at - 1 + i <= p /\ s[at - 1 + i] = NL
            /\ \A x \in at..at - 1 + i - 1 : s[x] # NL
        BY <2>1, <4>1
      <4>4. LET k == ReadStart(d, line) IN Reads(k, s, p, at) \/ Ready(k, s, p, at)
        BY <2>1, <4>1, <4>2, <4>3, ReadStartServes
      <4> HIDE DEF m
      <4>5. QED
        BY <1>1, <2>4, <3>2, <4>4 DEF Serves, m
    <3>5. QED
      BY <3>3, <3>4
  <2>8. QED
    BY <2>6, <2>7
<1>6. \/ m = c
      \/ ~c.qReady /\ c.bodyWait /\ m = [c EXCEPT !.qReady = c.bodyLen <= Len(c.q)]
      \/ /\ ~c.qReady /\ ~c.bodyWait /\ i # 0
         /\ m = IF c.start THEN ReadHeader(d, line) ELSE ReadStart(d, line)
  BY ReadMsgIs
<1>7. QED
  BY <1>3, <1>4, <1>5, <1>6

-----------------------------------------------------------------------------
(* The loop ends where nothing more can be read of a request, or with one  *)
(* that is to be answered.                                                 *)
LEMMA ParseServes ==
  ASSUME NEW c \in ConnType, NEW s, NEW p \in Nat, NEW u \in Seq(Units),
         Follows(c, s, p), Len(c.q) <= BufSize, Serves(c, s, p, u)
  PROVE  LET d == Parse[c] IN
         /\ Follows(d, s, p) /\ Len(d.q) <= BufSize /\ Serves(d, s, p, u)
         /\ ~d.qReady => Stuck(d)
<1> DEFINE S == {d \in ConnType : Follows(d, s, p) /\ Len(d.q) <= BufSize /\ Serves(d, s, p, u)}
           d == Parse[c]
<1>1. \A e \in ConnType : Len(e.q) \in Nat
  <2>1. \A e \in ConnType : e.q \in Seq(Tokens)
    BY DEF ConnType, Tokens
  <2>2. QED
    BY <2>1, LenProperties
<1>2. \A e \in S : ReadMsg(e) \in S
  <2>1. SUFFICES ASSUME NEW e \in S
                 PROVE  ReadMsg(e) \in S
    OBVIOUS
  <2>2. ReadMsg(e) \in ConnType /\ Len(ReadMsg(e).q) <= Len(e.q)
    BY ReadMsgKeeps
  <2>3. Follows(ReadMsg(e), s, p) /\ Serves(ReadMsg(e), s, p, u)
    BY TurnServes
  <2>4. Len(ReadMsg(e).q) <= BufSize
    <3> DEFINE old == Len(e.q)
               new == Len(ReadMsg(e).q)
    <3>1. old \in Nat /\ new \in Nat /\ new <= old /\ old <= BufSize /\ BufSize \in Nat
      BY <1>1, <2>2, StreamsAssumption
    <3> HIDE DEF old, new
    <3>2. new <= BufSize
      BY <3>1
    <3>3. QED
      BY <3>2 DEF new
  <2>5. QED
    BY <2>2, <2>3, <2>4
<1>3. S \in SUBSET ConnType /\ c \in S /\ Closing(S)
  BY <1>2 DEF Closing
<1>4. d \in S /\ ReadMsg(d) = d
  <2> HIDE DEF S
  <2>1. QED
    BY <1>3, ParseEnds
<1> HIDE DEF d
<1>5. d \in ConnType /\ Follows(d, s, p) /\ Len(d.q) <= BufSize /\ Serves(d, s, p, u)
  BY <1>4
<1>6. ASSUME ~d.qReady
      PROVE  Stuck(d)
  <2> DEFINE i == FirstNL(d.q)
             line == SubSeq(d.q, 1, i - 1)
             e == [d EXCEPT !.q = SubSeq(@, i + 1, Len(@))]
  <2>1. Len(d.q) \in Nat /\ d.bodyLen \in Nat
    BY <1>1, <1>5 DEF ConnType
  <2>2. d.bodyWait => d.bodyLen > 0
    BY <1>5, <1>6 DEF Serves, Reads, Ready, Awaits, InHeader
  <2>3. CASE d.bodyWait
    <3>1. CASE d.q = <<>>
      <4>1. Len(d.q) = 0
        BY <3>1, EmptySeq
      <4>2. QED
        BY <2>1, <2>2, <2>3, <4>1 DEF Stuck
    <3>2. CASE d.q # <<>>
      <4>1. ReadMsg(d) = [d EXCEPT !.qReady = d.bodyLen <= Len(d.q)]
        BY <1>6, <2>3, <3>2 DEF ReadMsg
      <4>2. \A b : [d EXCEPT !.qReady = b].qReady = b
        BY <1>5 DEF ConnType
      <4>3. ~(d.bodyLen <= Len(d.q))
        BY <1>4, <1>6, <4>1, <4>2, Zenon
      <4>4. QED
        BY <2>1, <2>3, <4>3 DEF Stuck
    <3>3. QED
      BY <3>1, <3>2
  <2>4. CASE ~d.bodyWait
    <3>1. CASE i = 0
      BY <2>4, <3>1 DEF Stuck
    <3>2. CASE i # 0
      <4>1. Takes(d, s, p, i, line, e, Read(d, p))
        <5>1. FirstNL(d.q) # 0 /\ d \in ConnType /\ Follows(d, s, p)
          BY <1>5, <3>2
        <5>2. QED
          BY <5>1, TurnTakes
      <4>2. ReadMsg(d) = IF d.start THEN ReadHeader(e, line) ELSE ReadStart(e, line)
        <5>1. d.q # <<>>
          BY <1>5, <3>2, ReadMsgIs
        <5>2. QED
          BY <1>6, <2>4, <3>2, <5>1 DEF ReadMsg, FirstNL
      <4> HIDE DEF i, line, e
      <4>3. /\ i \in Nat /\ i >= 1 /\ e \in ConnType /\ Len(e.q) \in Nat
            /\ Len(e.q) + i = Len(d.q)
        BY <4>1 DEF Takes
      <4>4. ReadMsg(d).q = e.q
        BY <4>2, <4>3, ReadHeaderKeeps, ReadStartKeeps
      <4>5. Len(e.q) = Len(d.q)
        BY <1>4, <4>4
      <4>6. QED
        BY <2>1, <4>3, <4>5
    <3>3. QED
      BY <3>1, <3>2
  <2>5. QED
    BY <2>3, <2>4
<1>7. QED
  BY <1>5, <1>6 DEF d

(* What the connection waits for is not in the buffer. *)
LEMMA StuckIsCut ==
  ASSUME NEW c \in ConnType, NEW s, NEW p \in Nat, NEW at \in 1..p + 1,
         Follows(c, s, p), Reads(c, s, p, at), Stuck(c)
  PROVE  /\ ~HasNext(s, p, at) /\ Own(s, p, at, Unended) = <<>>
         /\ c.start => \A e : Own(s, p, at, e) = IF e THEN Refused(BAD_REQUEST) ELSE <<>>
<1> DEFINE v == Read(c, p)
           length == Len(c.q)
<1>1. /\ length \in Nat /\ length <= p /\ v = p - length /\ c.q \in Seq(Tokens)
      /\ c.bodyLen \in Nat
  <2>1. c.q \in Seq(Tokens)
    BY DEF ConnType, Tokens
  <2>2. length \in Nat
    BY <2>1, LenProperties
  <2>3. QED
    BY <2>1, <2>2 DEF Follows, Read, ConnType
<1>2. \A x \in 1..length : c.q[x] = s[v + x]
  BY DEF Follows
<1>3. ~c.bodyWait => \A x \in v + 1..p : s[x] # NL
  <2>1. SUFFICES ASSUME ~c.bodyWait, NEW x \in v + 1..p
                 PROVE  s[x] # NL
    OBVIOUS
  <2>2. FirstNL(c.q) = 0
    BY <2>1 DEF Stuck
  <2>3. c.q[x - v] # NL
    <3>1. x - v \in 1..length
      <4> HIDE DEF v, length
      <4>1. QED
        BY <1>1
    <3> DEFINE I == {i \in 1..Len(c.q) : c.q[i] = NL}
    <3>2. FirstNL(c.q) = IF I # {} THEN Min(I) ELSE 0
      BY DEF FirstNL, SelectInSeq
    <3>3. I \in SUBSET Nat
      OBVIOUS
    <3>4. 0 \notin I
      OBVIOUS
    <3>5. I = {}
      <4> HIDE DEF I
      <4>1. I # {} => Min(I) \in I
        BY <3>3, LeastExists
      <4>2. QED
        BY <2>2, <3>2, <3>4, <4>1
    <3>6. QED
      BY <3>1, <3>5
  <2>4. x - v \in 1..length /\ v + (x - v) = x
    <3> HIDE DEF v, length
    <3>1. QED
      BY <1>1
  <2>5. QED
    BY <1>2, <2>3, <2>4
<1> HIDE DEF v, length
<1>4. CASE ~c.start
  <2>1. v + 1 = at /\ ~c.bodyWait
    BY <1>4 DEF Reads, Awaits, InHeader, v
  <2>2. ~HasLine(s, p, at)
    BY <1>3, <2>1 DEF HasLine
  <2>3. QED
    BY <1>4, <2>2, OwnIs DEF HasNext
<1>5. CASE c.start
  <2>1. /\ at + 1 <= v /\ GoodLine(s, at) /\ c.target = s[at] /\ Heads(c, s, at, v)
        /\ IF c.bodyWait THEN c.bodyLen > 0 /\ IsHeaderEnd(s, p, at, v)
                         ELSE s[v] = NL /\ NoBlank(s, at, v)
    BY <1>5 DEF Reads, Awaits, InHeader, v
  <2>2. HasLine(s, p, at)
    <3>1. at + 1 \in at..p /\ s[at + 1] = NL
      BY <1>1, <2>1 DEF GoodLine
    <3>2. QED
      BY <3>1 DEF HasLine
  <2>3. at \in Nat /\ p \in Nat
    OBVIOUS
  <2>4. ~Whole(s, p, at)
    <3>1. CASE c.bodyWait
      <4>1. HeaderEnd(s, p, at) = v
        BY <2>1, <2>3, <3>1, HeaderEndIs
      <4>2. RequestEnd(s, p, at) = v + c.bodyLen
        BY <2>1, <4>1 DEF RequestEnd, Heads
      <4>3. length < c.bodyLen
        BY <3>1 DEF Stuck, length
      <4>4. ~(v + c.bodyLen <= p)
        BY <1>1, <4>3
      <4>5. QED
        BY <4>2, <4>4 DEF Whole
    <3>2. CASE ~c.bodyWait
      <4>1. ASSUME NEW j \in Blanks(s, p, at)
            PROVE  FALSE
        <5>1. j \in at + 2..p /\ s[j - 1] = NL /\ s[j] = NL
          BY DEF Blanks
        <5>2. j <= v => j \in at + 2..v
          BY <1>1, <5>1
        <5>3. ~(j <= v) => j \in v + 1..p
          BY <1>1, <5>1
        <5>4. QED
          BY <1>3, <2>1, <3>2, <5>1, <5>2, <5>3 DEF NoBlank
      <4>2. QED
        BY <4>1 DEF Whole
    <3>3. QED
      BY <3>1, <3>2
  <2>5. \A e : Own(s, p, at, e) = IF e THEN Refused(BAD_REQUEST) ELSE <<>>
    BY <2>1, <2>2, <2>4, OwnIs
  <2>6. Own(s, p, at, Unended) = <<>>
    BY <2>5 DEF Unended
  <2>7. s[at] # NL
    BY <2>1, <2>2, OwnIs
  <2>8. QED
    BY <2>4, <2>5, <2>6, <2>7 DEF HasNext
<1>6. QED
  BY <1>4, <1>5

(* A complete request is one of the reference, and the connection is at    *)
(* its end.                                                                *)
LEMMA CompleteIs ==
  ASSUME NEW c \in ConnType, NEW s, NEW p \in Nat, NEW at \in 1..p + 1,
         Follows(c, s, p), Completes(c, s, p, at)
  PROVE  /\ s[at] \in Targets
         /\ \A e : Own(s, p, at, e) = Response(Answer[s[at]], s[at])
         /\ HasNext(s, p, at) <=> ~c.close
         /\ HasNext(s, p, at) => NextStart(s, p, at) = Read(c, p) + c.bodyLen + 1
<1> DEFINE v == Read(c, p)
           length == Len(c.q)
<1>1. /\ length \in Nat /\ length <= p /\ v = p - length /\ c.bodyLen \in Nat
  <2>1. c.q \in Seq(Tokens)
    BY DEF ConnType, Tokens
  <2>2. length \in Nat
    BY <2>1, LenProperties
  <2>3. QED
    BY <2>2 DEF Follows, Read, ConnType
<1>2. /\ at + 1 <= v /\ GoodLine(s, at) /\ c.target = s[at]
      /\ IsHeaderEnd(s, p, at, v) /\ Heads(c, s, at, v)
      /\ c.bodyLen <= length
  BY DEF Completes
<1> HIDE DEF v, length
<1>3. HasLine(s, p, at)
  <2>1. at + 1 \in at..p /\ s[at + 1] = NL
    BY <1>1, <1>2 DEF GoodLine
  <2>2. QED
    BY <2>1 DEF HasLine
<1>4. at \in Nat /\ p \in Nat
  OBVIOUS
<1>5. HeaderEnd(s, p, at) = v
  BY <1>2, <1>4, HeaderEndIs
<1>6. RequestEnd(s, p, at) = v + c.bodyLen
  BY <1>2, <1>5 DEF RequestEnd, Heads
<1>7. Whole(s, p, at)
  <2>1. v + c.bodyLen <= p
    BY <1>1, <1>2
  <2>2. Blanks(s, p, at) # {}
    BY <1>2 DEF IsHeaderEnd
  <2>3. QED
    BY <1>6, <2>1, <2>2 DEF Whole
<1>8. s[at] # NL /\ s[at] \in Targets
  BY <1>2, <1>3, OwnIs
<1>9. \A e : Own(s, p, at, e) = Response(Answer[s[at]], s[at])
  BY <1>2, <1>3, <1>7, OwnIs
<1>10. HasNext(s, p, at) <=> ~c.close
  BY <1>2, <1>3, <1>5, <1>7, <1>8 DEF HasNext, Heads
<1>11. NextStart(s, p, at) = v + c.bodyLen + 1
  BY <1>6, <1>8 DEF NextStart
<1>12. QED
  BY <1>8, <1>9, <1>10, <1>11 DEF v

-----------------------------------------------------------------------------
(* What the client is told, and the requests that it answers: a connection *)
(* between two callbacks.                                                  *)

Stands(c, s, p, at) ==
  IF c.rReady THEN Read(c, p) + 1 = at /\ Len(c.q) < BufSize
              ELSE Reads(c, s, p, at) /\ Stuck(c)

(* What was told or is due answers all requests before at, and what it     *)
(* waits for starts there; or it answers the last request.                 *)
Serving(c, s, p, u, e) ==
  /\ Follows(c, s, p) /\ ~c.rSent
  /\ ~c.rReady => c.body = <<>> /\ Plain(c.header) = <<>>
  /\ Starts(u, Answers(s, p, e))
  /\ \/ c.rReady /\ c.close
     \/ \E at \in 1..p + 1 : Skips(s, p, at, u) /\ Stands(c, s, p, at)

(* The request at at is refused, and no other follows. *)
Refusing(c, s, p, at, e) ==
  /\ c.close /\ c.target = NoTarget /\ c.status \in {BAD_REQUEST, METHOD_NOT_ALLOWED}
  /\ ~HasNext(s, p, at) /\ Own(s, p, at, e) = Refused(c.status)

Answerable(c, s, p, at, e) ==
  \/ ~c.qReady /\ Reads(c, s, p, at) /\ Stuck(c)
  \/ c.qReady /\ Refusing(c, s, p, at, e)
  \/ c.qReady /\ Completes(c, s, p, at)

LEMMA PlainDue ==
  ASSUME NEW g \in Seq(Units), NEW c \in ConnType
  PROVE  /\ Plain(g) \in Seq(Units) /\ Plain(c.header) \in Seq(Units)
         /\ Plain(Due(g, c)) \in Seq(Units)
         /\ Plain(Due(g, c)) = (Plain(g) \o Plain(c.header)) \o c.body
         /\ c.body = <<>> /\ Plain(c.header) = <<>> => Plain(Due(g, c)) = Plain(g)
<1>1. /\ c.header \in Seq(Units) /\ c.body \in Seq(BodyUnits) /\ c.body \in Seq(Units)
      /\ g \o c.header \in Seq(Units) /\ Due(g, c) \in Seq(Units)
  BY DueIsSeq
<1>2. Plain(c.body) = c.body
  <2>1. \A i \in 1..Len(c.body) : c.body[i] # Continue
    <3> DEFINE b == c.body
    <3>1. b \in Seq(BodyUnits)
      BY <1>1
    <3> HIDE DEF b
    <3>2. \A i \in 1..Len(b) : b[i] \in BodyUnits
      BY <3>1, LenProperties, ElementOfSeq
    <3>3. \A x \in BodyUnits : x # Continue
      BY DEF BodyUnits, Continue, Unit
    <3>4. QED
      BY <3>2, <3>3 DEF b
  <2>2. QED
    BY <1>1, <2>1, PlainOf
<1>3. Plain(g) \in Seq(Units) /\ Plain(c.header) \in Seq(Units) /\ Plain(Due(g, c)) \in Seq(Units)
  BY <1>1, PlainIsSeq
<1>4. Plain(g \o c.header) = Plain(g) \o Plain(c.header)
  BY <1>1, PlainConcat
<1>5. Plain(Due(g, c)) = (Plain(g) \o Plain(c.header)) \o c.body
  <2>1. Plain((g \o c.header) \o c.body) = Plain(g \o c.header) \o Plain(c.body)
    BY <1>1, PlainConcat
  <2>2. QED
    BY <1>2, <1>4, <2>1 DEF Due
<1>6. c.body = <<>> /\ Plain(c.header) = <<>> => Plain(Due(g, c)) = Plain(g)
  BY <1>3, <1>5, ConcatEmptySeq
<1>7. QED
  BY <1>3, <1>5, <1>6

LEMMA ParseAnswerable ==
  ASSUME NEW c \in ConnType, NEW s, NEW p \in Nat, NEW at \in 1..p + 1, NEW e,
         Reads(c, s, p, at) \/ Ready(c, s, p, at), ~c.qReady => Stuck(c)
  PROVE  Answerable(c, s, p, at, e)
<1>1. CASE Reads(c, s, p, at)
  BY <1>1 DEF Answerable, Reads
<1>2. CASE c.qReady /\ Completes(c, s, p, at)
  BY <1>2 DEF Answerable
<1>3. CASE c.qReady /\ Refuses(c, s, p, at)
  <2>1. /\ c.close /\ c.target = NoTarget /\ c.status = Refusal(s, at)
        /\ HasLine(s, p, at) /\ s[at] # NL /\ ~GoodLine(s, at)
    BY <1>3 DEF Refuses
  <2>2. c.status \in {BAD_REQUEST, METHOD_NOT_ALLOWED}
    BY <2>1, RefusedIsSeq
  <2>3. Own(s, p, at, e) = Refused(c.status)
    BY <2>1, OwnIs
  <2>4. ~HasNext(s, p, at)
    BY <2>1 DEF HasNext
  <2>5. QED
    BY <1>3, <2>1, <2>2, <2>3, <2>4 DEF Answerable, Refusing
<1>4. QED
  BY <1>1, <1>2, <1>3 DEF Ready

LEMMA AtEofAnswers ==
  ASSUME NEW c \in ConnType, NEW s, NEW p \in Nat, NEW at \in 1..p + 1, NEW e,
         NEW eof \in BOOLEAN, eof => e /\ c.start, Follows(c, s, p),
         Reads(c, s, p, at) \/ Ready(c, s, p, at), ~c.qReady => Stuck(c)
  PROVE  LET d == AtEof(c, eof) IN
         Follows(d, s, p) /\ Answerable(d, s, p, at, e)
<1> DEFINE d == AtEof(c, eof)
<1>1. CASE ~(eof /\ ~c.qReady)
  <2>1. d = c
    BY <1>1 DEF AtEof
  <2> HIDE DEF d
  <2>2. QED
    BY <2>1, ParseAnswerable DEF d
<1>2. CASE eof /\ ~c.qReady
  <2>1. d = Error(Reset(c), BAD_REQUEST)
    BY <1>2 DEF AtEof
  <2>2. /\ d.q = c.q /\ d.qReady /\ d.close /\ d.target = NoTarget /\ d.status = BAD_REQUEST
    BY <2>1 DEF Error, Reset, ConnType, BAD_REQUEST
  <2> HIDE DEF d
  <2>3. Reads(c, s, p, at) /\ Stuck(c) /\ c.start
    BY <1>2 DEF Ready
  <2>4. ~HasNext(s, p, at) /\ Own(s, p, at, e) = Refused(BAD_REQUEST)
    <3>1. \A f : Own(s, p, at, f) = IF f THEN Refused(BAD_REQUEST) ELSE <<>>
      BY <2>3, StuckIsCut
    <3>2. ~HasNext(s, p, at)
      BY <2>3, StuckIsCut
    <3>3. e
      BY <1>2
    <3>4. Own(s, p, at, e) = IF e THEN Refused(BAD_REQUEST) ELSE <<>>
      BY <3>1, Zenon
    <3>5. QED
      BY <3>2, <3>3, <3>4
  <2>5. Follows(d, s, p)
    BY <2>2 DEF Follows, Read
  <2>6. QED
    BY <2>2, <2>4, <2>5 DEF Answerable, Refusing, d
<1>3. QED
  BY <1>1, <1>2

LEMMA Expect100Answers ==
  ASSUME NEW c \in ConnType, NEW s, NEW p \in Nat, NEW at \in 1..p + 1, NEW e,
         Follows(c, s, p), Answerable(c, s, p, at, e), Plain(c.header) = <<>>
  PROVE  LET d == Expect100(c) IN
         /\ Follows(d, s, p) /\ Answerable(d, s, p, at, e) /\ Plain(d.header) = <<>>
         /\ d.body = c.body /\ d.rSent = c.rSent
<1> DEFINE d == Expect100(c)
<1>1. CASE ~(c.expect /\ ~c.qReady /\ c.status < 400)
  <2>1. d = c
    BY <1>1 DEF Expect100
  <2> HIDE DEF d
  <2>2. QED
    BY <2>1 DEF d
<1>2. CASE c.expect /\ ~c.qReady /\ c.status < 400
  <2>1. d = [c EXCEPT !.header = Append(@, Continue), !.expect = FALSE]
    BY <1>2 DEF Expect100
  <2>2. /\ d.header = Append(c.header, Continue) /\ d.body = c.body /\ d.q = c.q
        /\ d.qReady = c.qReady /\ d.rSent = c.rSent /\ d.status = c.status
        /\ d.start = c.start /\ d.bodyWait = c.bodyWait /\ d.target = c.target
        /\ d.bodyLen = c.bodyLen /\ d.close = c.close
    BY <2>1 DEF ConnType
  <2> HIDE DEF d
  <2>3. c.header \in Seq(Units)
    <3>1. <<>> \in Seq(Units)
      BY EmptySeq
    <3>2. QED
      BY <3>1, DueIsSeq
  <2>4. Plain(d.header) = <<>>
    BY <2>2, <2>3, PlainOf
  <2>5. Reads(c, s, p, at) /\ Stuck(c)
    BY <1>2 DEF Answerable
  <2>6. Follows(d, s, p) /\ Read(d, p) = Read(c, p)
    BY <2>2 DEF Follows, Read
  <2>7. Reads(d, s, p, at)
    BY <2>2, <2>5, <2>6 DEF Reads, Awaits, InHeader, Heads
  <2>8. Stuck(d)
    BY <2>2, <2>5 DEF Stuck
  <2>9. QED
    BY <1>2, <2>2, <2>4, <2>6, <2>7, <2>8 DEF Answerable, d
<1>3. QED
  BY <1>1, <1>2

(* The response to a request, after all that was told. *)
LEMMA ResponseDue ==
  ASSUME NEW g \in Seq(Units), NEW c \in ConnType, NEW d \in ConnType, NEW unit \in Units,
         unit # Continue, Plain(c.header) = <<>>, d.header = Append(c.header, unit)
  PROVE  Plain(Due(g, d)) = Plain(g) \o (<<unit>> \o d.body)
<1>1. c.header \in Seq(Units) /\ d.body \in Seq(Units)
  BY DueIsSeq
<1>2. <<unit>> \in Seq(Units) /\ Plain(<<unit>>) = <<unit>>
  <2>1. <<unit>> \in Seq(Units)
    OBVIOUS
  <2> DEFINE us == <<unit>>
  <2>2. Len(us) = 1 /\ us[1] = unit
    OBVIOUS
  <2> HIDE DEF us
  <2>3. \A i \in 1..Len(us) : us[i] # Continue
    BY <2>2
  <2>4. us \in Seq(Units)
    BY <2>1 DEF us
  <2>5. Plain(us) = us
    BY <2>3, <2>4, PlainOf
  <2>6. QED
    BY <2>1, <2>5 DEF us
<1>3. Plain(d.header) = <<unit>>
  <2>1. d.header = c.header \o <<unit>>
    BY <1>1, AppendIsConcat
  <2>2. Plain(c.header \o <<unit>>) = Plain(c.header) \o Plain(<<unit>>)
    BY <1>1, <1>2, PlainConcat
  <2>3. QED
    BY <1>2, <2>1, <2>2, ConcatEmptySeq
<1>4. Plain(Due(g, d)) = (Plain(g) \o <<unit>>) \o d.body /\ Plain(g) \in Seq(Units)
  BY <1>3, PlainDue
<1>5. QED
  BY <1>1, <1>2, <1>4, Regroup

-----------------------------------------------------------------------------
LEMMA HandleServes ==
  ASSUME NEW g \in Seq(Units), NEW c \in ConnType, NEW s, NEW p \in Nat, NEW at \in 1..p + 1,
         NEW e, Skips(s, p, at, Plain(g)), Follows(c, s, p), Answerable(c, s, p, at, e),
         ~c.rReady, ~c.rSent, c.body = <<>>, Plain(c.header) = <<>>
  PROVE  Serving(Handle(c), s, p, Plain(Due(g, Handle(c))), e)
<1> DEFINE d == Handle(c)
           u == Plain(g)
           h == Handled(c)
           unit == Header(h.status, Len(h.body), h.target)
<1>1. u \in Seq(Units)
  BY PlainIsSeq
<1>2. CASE ~c.qReady
  <2>1. d = c
    BY <1>2 DEF Handle
  <2>2. Plain(Due(g, c)) = u
    BY PlainDue
  <2>3. Starts(u, Answers(s, p, e))
    BY <1>1, SkipsStarts
  <2>4. Reads(c, s, p, at) /\ Stuck(c)
    BY <1>2 DEF Answerable
  <2>5. Stands(c, s, p, at)
    BY <2>4 DEF Stands
  <2> HIDE DEF d, u
  <2>6. QED
    BY <2>1, <2>2, <2>3, <2>5 DEF Serving, d, u
<1>3. CASE c.qReady
  <2>1. /\ h \in ConnType /\ h.q = c.q /\ h.header = c.header /\ ~h.rSent
        /\ unit \in HeadUnits
    BY HandledKeeps, HandledPlaces
  <2>2. d = [h EXCEPT !.rReady = TRUE, !.q = SubSeq(@, c.bodyLen + 1, Len(@)),
                      !.header = Append(@, unit), !.timer = FALSE]
    BY <1>3 DEF Handle
  <2>3. d \in ConnType
    BY HandleKeeps
  <2>4. unit \in Units /\ unit # Continue
    BY <2>1 DEF Units, Continue, Header, Unit
  <2>5. /\ d.header = Append(c.header, unit) /\ d.body = h.body /\ d.rReady /\ ~d.rSent
        /\ d.q = SubSeq(c.q, c.bodyLen + 1, Len(c.q)) /\ d.close = h.close
    <3> HIDE DEF h, unit, d
    <3>1. QED
      BY <2>1, <2>2 DEF ConnType
  <2>6. c.bodyLen \in Nat
    BY DEF ConnType
  <2>7. Follows(d, s, p)
    <3> HIDE DEF d
    <3>1. QED
      BY <2>3, <2>5, <2>6, DropFollows
  <2>8. Plain(Due(g, d)) = u \o (<<unit>> \o h.body)
    <3> HIDE DEF d, unit, h
    <3>1. Plain(Due(g, d)) = Plain(g) \o (<<unit>> \o d.body)
      BY <2>3, <2>4, <2>5, ResponseDue
    <3>2. QED
      BY <2>5, <3>1
  <2>9. CASE Refusing(c, s, p, at, e)
    <3>1. /\ c.target = NoTarget /\ c.status \in {BAD_REQUEST, METHOD_NOT_ALLOWED}
          /\ ~HasNext(s, p, at) /\ Own(s, p, at, e) = Refused(c.status)
      BY <2>9 DEF Refusing
    <3>2. h = Error(c, BAD_REQUEST)
      BY <3>1 DEF Handled
    <3>3. /\ h.status = c.status /\ h.close /\ h.target = NoTarget /\ h.body = <<>>
      BY <3>1, <3>2 DEF Error, ConnType, BAD_REQUEST, METHOD_NOT_ALLOWED
    <3> HIDE DEF h, d, u
    <3>4. <<unit>> \o h.body = Refused(c.status)
      <4>1. Len(h.body) = 0
        BY <3>3, EmptySeq
      <4>2. unit = Header(c.status, 0, NoTarget)
        BY <3>3, <4>1
      <4> HIDE DEF unit
      <4>3. <<unit>> \in Seq(Units)
        BY <2>4
      <4>4. <<unit>> \o <<>> = <<unit>>
        BY <4>3, ConcatEmptySeq
      <4>5. QED
        BY <3>3, <4>2, <4>4 DEF Refused
    <3>5. Answers(s, p, e) = u \o Own(s, p, at, e)
      BY <3>1, SkipsLast DEF u
    <3>6. Plain(Due(g, d)) = Answers(s, p, e)
      BY <2>8, <3>1, <3>4, <3>5
    <3>7. Starts(Plain(Due(g, d)), Answers(s, p, e))
      <4>1. Plain(Due(g, d)) \in Seq(Units)
        BY <2>3, PlainDue
      <4>2. QED
        BY <3>6, <4>1, StartsSelf
    <3>8. QED
      BY <2>5, <2>7, <3>3, <3>7 DEF Serving, d
  <2>10. CASE Completes(c, s, p, at)
    <3> DEFINE t == s[at]
               a == Answer[t]
               length == Len(c.q)
    <3>1. /\ t \in Targets
          /\ \A f : Own(s, p, at, f) = Response(a, t)
          /\ HasNext(s, p, at) <=> ~c.close
          /\ HasNext(s, p, at) => NextStart(s, p, at) = Read(c, p) + c.bodyLen + 1
      BY <2>10, CompleteIs
    <3>2. c.target = t /\ c.bodyLen <= length /\ length - c.bodyLen < BufSize
      BY <2>10 DEF Completes
    <3>3. a.status \in Nat /\ a.len \in Nat
      BY <3>1, ResponseIsSeq
    <3>4. h = [c EXCEPT !.status = a.status, !.body = Body(a.len, t)]
      <4>1. c.target # NoTarget
        BY <3>1, <3>2, StreamsAssumption
      <4>2. QED
        BY <3>2, <4>1 DEF Handled
    <3>5. /\ h.status = a.status /\ h.close = c.close /\ h.target = t
          /\ h.body = Body(a.len, t)
      <4> HIDE DEF t, a, h
      <4>1. QED
        BY <3>2, <3>4 DEF ConnType, t
    <3>6. Len(Body(a.len, t)) = a.len
      <4> HIDE DEF a, t
      <4>1. QED
        BY <3>3 DEF Body
    <3> HIDE DEF h, d, u, a
    <3>7. <<unit>> \o h.body = Response(a, t)
      BY <3>5, <3>6 DEF Response
    <3>8. Plain(Due(g, d)) = u \o Response(a, t)
      BY <2>8, <3>7
    <3>9. Plain(Due(g, d)) \in Seq(Units)
      BY <2>3, PlainDue
    <3>10. CASE c.close
      <4>1. ~HasNext(s, p, at) /\ Own(s, p, at, e) = Response(a, t)
        BY <3>1, <3>10
      <4>2. Answers(s, p, e) = u \o Own(s, p, at, e)
        BY <4>1, SkipsLast DEF u
      <4>3. Plain(Due(g, d)) = Answers(s, p, e)
        BY <3>8, <4>1, <4>2
      <4>4. Starts(Plain(Due(g, d)), Answers(s, p, e))
        BY <3>9, <4>3, StartsSelf
      <4>5. d.close
        BY <2>5, <3>5, <3>10
      <4>6. QED
        BY <2>5, <2>7, <4>4, <4>5 DEF Serving, d
    <3>11. CASE ~c.close
      <4> DEFINE j == NextStart(s, p, at)
      <4>1. HasNext(s, p, at) /\ j = Read(c, p) + c.bodyLen + 1
        BY <3>1, <3>11
      <4>2. j \in 1..p + 1
        <5>1. j \in at + 1..p + 1 /\ at \in Nat
          BY <4>1, NextStartIs
        <5> HIDE DEF j
        <5>2. QED
          BY <5>1
      <4>3. Skips(s, p, j, Plain(Due(g, d)))
        <5>1. Skips(s, p, j, u \o Own(s, p, at, Unended))
          BY <1>1, <4>1, SkipsOn DEF u
        <5>2. Own(s, p, at, Unended) = Response(a, t)
          BY <3>1
        <5>3. QED
          BY <3>8, <5>1, <5>2
      <4>4. Starts(Plain(Due(g, d)), Answers(s, p, e))
        BY <3>9, <4>2, <4>3, SkipsStarts
      <4>5. Read(d, p) + 1 = j /\ Len(d.q) < BufSize
        <5>1. length \in Nat /\ length <= p /\ Read(c, p) = p - length
          <6>1. c.q \in Seq(Tokens)
            BY DEF ConnType, Tokens
          <6>2. length \in Nat
            BY <6>1, LenProperties
          <6>3. QED
            BY <6>2 DEF Follows, Read
        <5>2. Len(d.q) = length - c.bodyLen
          <6>1. \A x \in c.bodyLen + 1..length : c.q[x] \in Tokens
            <7>1. c.q \in Seq(Tokens)
              BY DEF ConnType, Tokens
            <7> HIDE DEF length
            <7>2. \A x \in c.bodyLen + 1..length : x \in 1..length
              BY <2>6
            <7>3. QED
              BY <7>1, <7>2, ElementOfSeq DEF length
          <6>2. Len(d.q) = IF c.bodyLen + 1 <= length THEN length - (c.bodyLen + 1) + 1 ELSE 0
            BY <2>5, <2>6, <5>1, <6>1, SubSeqProperties
          <6> HIDE DEF length
          <6>3. QED
            BY <2>6, <3>2, <5>1, <6>2
        <5>3. Read(d, p) = p - Len(d.q)
          BY DEF Read
        <5> HIDE DEF j, length
        <5>4. QED
          BY <2>6, <3>2, <4>1, <5>1, <5>2, <5>3
      <4>6. Stands(d, s, p, j)
        BY <2>5, <4>5 DEF Stands
      <4>7. QED
        BY <2>5, <2>7, <4>2, <4>3, <4>4, <4>6 DEF Serving, d
    <3>12. QED
      BY <3>10, <3>11
  <2>11. QED
    BY <1>3, <2>9, <2>10 DEF Answerable
<1>4. QED
  BY <1>2, <1>3

LEMMA ProcessServes ==
  ASSUME NEW g \in Seq(Units), NEW c \in ConnType, NEW s, NEW p \in Nat, NEW e,
         NEW eof \in BOOLEAN, eof => e,
         Follows(c, s, p), Len(c.q) <= BufSize, Serves(c, s, p, Plain(g)),
         ~c.rReady, ~c.rSent, c.body = <<>>, Plain(c.header) = <<>>
  PROVE  LET d == Process(c, eof) IN
         d.open => Serving(d, s, p, Plain(Due(g, d)), e)
<1> DEFINE m == Parse[c]
           a == AtEof(m, eof)
           x == Expect100(a)
           h == Handle(x)
           w == Watch(h, eof)
           u == Plain(g)
<1>1. u \in Seq(Units)
  BY PlainIsSeq
<1>2. /\ m \in ConnType /\ Alike(c, m)
      /\ Follows(m, s, p) /\ Serves(m, s, p, u) /\ (~m.qReady => Stuck(m))
  <2> HIDE DEF u
  <2>1. Serves(c, s, p, u)
    BY DEF u
  <2>2. QED
    BY <1>1, <2>1, ParseKeeps, ParseServes
<1>3. Process(c, eof) = IF eof /\ ~m.start THEN Closed ELSE w
  BY DEF Process
<1> HIDE DEF m
<1>4. m.header = c.header /\ m.body = <<>> /\ ~m.rReady /\ ~m.rSent
  BY <1>2 DEF Alike
<1>5. CASE eof /\ ~m.start
  BY <1>3, <1>5, ClosedIsConn
<1>6. CASE ~(eof /\ ~m.start)
  <2>1. PICK at \in 1..p + 1 : Skips(s, p, at, u) /\ (Reads(m, s, p, at) \/ Ready(m, s, p, at))
    BY <1>2 DEF Serves
  <2>2. Follows(a, s, p) /\ Answerable(a, s, p, at, e)
    BY <1>2, <1>6, <2>1, AtEofAnswers
  <2>3. /\ a \in ConnType /\ ~a.rReady /\ a.header = c.header /\ a.body = <<>> /\ ~a.rSent
    BY <1>2, <1>4, AtEofKeeps, AtEofPlaces
  <2> HIDE DEF a
  <2>4. /\ x \in ConnType /\ ~x.rReady /\ Follows(x, s, p) /\ Answerable(x, s, p, at, e)
        /\ Plain(x.header) = <<>> /\ x.body = <<>> /\ ~x.rSent
    <3>1. Plain(a.header) = <<>>
      BY <2>3
    <3>2. x \in ConnType /\ x.rReady = a.rReady
      BY <2>3, Expect100Keeps
    <3>3. /\ Follows(x, s, p) /\ Answerable(x, s, p, at, e) /\ Plain(x.header) = <<>>
          /\ x.body = a.body /\ x.rSent = a.rSent
      BY <2>2, <2>3, <3>1, Expect100Answers
    <3>4. QED
      BY <2>3, <3>2, <3>3
  <2> HIDE DEF x
  <2>5. h \in ConnType /\ Serving(h, s, p, Plain(Due(g, h)), e)
    <3>1. h \in ConnType
      BY <2>4, HandleKeeps
    <3>2. Skips(s, p, at, Plain(g))
      BY <2>1 DEF u
    <3>3. QED
      BY <2>4, <3>1, <3>2, HandleServes
  <2> HIDE DEF h
  <2>6. /\ w.q = h.q /\ w.header = h.header /\ w.body = h.body /\ w.rSent = h.rSent
        /\ w.rReady = h.rReady /\ w.qReady = h.qReady /\ w.close = h.close
        /\ w.start = h.start /\ w.bodyWait = h.bodyWait /\ w.bodyLen = h.bodyLen
        /\ w.target = h.target /\ w.status = h.status
    BY <2>5 DEF Watch, ConnType
  <2> HIDE DEF w
  <2>7. Due(g, w) = Due(g, h)
    BY <2>6 DEF Due
  <2>8. Follows(w, s, p) /\ Read(w, p) = Read(h, p)
    BY <2>5, <2>6 DEF Serving, Follows, Read
  <2>9. \A at1 \in 1..p + 1 : Stands(h, s, p, at1) => Stands(w, s, p, at1)
    BY <2>6, <2>8 DEF Stands, Stuck, Reads, Awaits, InHeader, Heads
  <2>10. Serving(w, s, p, Plain(Due(g, h)), e)
    <3> DEFINE v == Plain(Due(g, h))
    <3> HIDE DEF v
    <3>1. Serving(h, s, p, v, e)
      BY <2>5 DEF v
    <3>2. Serving(w, s, p, v, e)
      BY <2>6, <2>8, <2>9, <3>1 DEF Serving
    <3>3. QED
      BY <3>2 DEF v
  <2>11. QED
    BY <1>3, <1>6, <2>7, <2>10
<1>7. QED
  BY <1>5, <1>6

-----------------------------------------------------------------------------
(* What is known of a request stays true when more of it is read, and when *)
(* the client will not send what was not read yet.                         *)
LEMMA ReadsStays ==
  ASSUME NEW c \in ConnType, NEW d, NEW s, NEW t, NEW p \in Nat, NEW q \in Nat, p <= q,
         Agree(s, t, p), NEW at \in 1..p + 1, Follows(c, s, p), Reads(c, s, p, at),
         Read(d, q) = Read(c, p), d.start = c.start, d.target = c.target,
         d.bodyLen = c.bodyLen, d.close = c.close, d.bodyWait = c.bodyWait,
         d.qReady = c.qReady, d.status = c.status
  PROVE  Reads(d, t, q, at)
<1> DEFINE v == Read(c, p)
<1>1. v \in Nat /\ v <= p /\ at \in Nat /\ 1 <= at /\ p \in Nat
  <2> DEFINE length == Len(c.q)
  <2>1. c.q \in Seq(Tokens)
    BY DEF ConnType, Tokens
  <2>2. length \in Nat
    BY <2>1, LenProperties
  <2>3. length <= p /\ v = p - length
    BY DEF Follows, Read
  <2> HIDE DEF length, v
  <2>4. QED
    BY <2>2, <2>3
<1> HIDE DEF v
<1>2. Read(d, q) = v
  BY DEF v
<1>3. CASE Awaits(c, s, p, at)
  <2>1. Awaits(d, t, q, at)
    BY <1>2, <1>3 DEF Awaits, v
  <2>2. QED
    BY <2>1 DEF Reads
<1>4. CASE InHeader(c, s, p, at)
  <2>1. /\ c.start /\ at + 1 <= v /\ GoodLine(s, at) /\ c.target = s[at] /\ Heads(c, s, at, v)
        /\ IF c.bodyWait THEN c.bodyLen > 0 /\ IsHeaderEnd(s, p, at, v)
                         ELSE s[v] = NL /\ NoBlank(s, at, v)
    BY <1>4 DEF InHeader, v
  <2>2. \A x \in 1..v : t[x] = s[x]
    BY <1>1 DEF Agree
  <2>3. GoodLine(t, at) /\ t[at] = s[at] /\ t[v] = s[v]
    BY <1>1, <2>1, <2>2 DEF GoodLine
  <2>4. \A j \in at + 2..v : t[j] = s[j] /\ t[j - 1] = s[j - 1]
    BY <1>1, <2>2
  <2>5. Lengths(t, at, v) = Lengths(s, at, v) /\ Lengths(s, at, v) \subseteq at + 2..v
    BY <2>4 DEF Lengths
  <2>6. ContentLength(t, at, v) = ContentLength(s, at, v)
    <3>1. Lengths(s, at, v) # {} => Max(Lengths(s, at, v)) \in Lengths(s, at, v)
      BY <1>1, LengthIs
    <3>2. QED
      BY <2>4, <2>5, <3>1 DEF ContentLength
  <2>7. AsksToClose(t, at, v) <=> AsksToClose(s, at, v)
    BY <2>4 DEF AsksToClose
  <2>8. Heads(d, t, at, v)
    BY <2>1, <2>6, <2>7 DEF Heads
  <2>9. NoBlank(s, at, v) => NoBlank(t, at, v)
    BY <2>4 DEF NoBlank
  <2>10. IsHeaderEnd(s, p, at, v) => IsHeaderEnd(t, q, at, v)
    BY RequestGrows
  <2>11. InHeader(d, t, q, at)
    BY <1>2, <2>1, <2>3, <2>8, <2>9, <2>10 DEF InHeader
  <2>12. QED
    BY <2>11 DEF Reads
<1>5. QED
  BY <1>3, <1>4 DEF Reads

-----------------------------------------------------------------------------
(* Every step of the connection. *)

SessionInv ==
  /\ got \in Seq(Units)
  /\ Starts(Plain(got), Asked)
  /\ conn.open => Serving(conn, sent, pos, Plain(Due(got, conn)), Ended)

LEMMA DrainedServes ==
  ASSUME conn \in ConnType, ~conn.rSent, NEW rev \in Revs, NEW m \in Writes(rev)
  PROVE  LET d == Drained(rev, m) IN
         /\ d.target = conn.target /\ d.status = conn.status /\ d.bodyLen = conn.bodyLen
         /\ d.close = conn.close
         /\ d.rSent => d.header = <<>>
<1> DEFINE h == conn.header
           b == conn.body
           d == Drained(rev, m)
<1>1. Len(h) \in Nat /\ Len(b) \in Nat
  <2>1. h \in Seq(HeadUnits) /\ b \in Seq(BodyUnits)
    BY DEF ConnType, HeadUnits, BodyUnits
  <2> HIDE DEF h, b
  <2>2. QED
    BY <2>1, LenProperties
<1>2. CASE "W" \in rev
  <2> DEFINE over == IF m > Len(h) THEN m - Len(h) ELSE 0
             header == SubSeq(h, m + 1, Len(h))
             body == SubSeq(b, over + 1, Len(b))
             done == conn.rReady /\ m = Len(h) + Len(b)
  <2>1. d = [conn EXCEPT !.header = header, !.body = body, !.rSent = done]
    BY <1>2 DEF Drained, Written
  <2>2. done => header = <<>>
    <3>1. SUFFICES ASSUME done PROVE header = <<>>
      OBVIOUS
    <3> DEFINE kh == Len(h)
               kb == Len(b)
    <3>2. kh \in Nat /\ kb \in Nat /\ m = kh + kb
      BY <1>1, <3>1
    <3> HIDE DEF kh, kb
    <3>3. m + 1 \in Int /\ kh \in Int /\ kh < m + 1
      BY <3>2
    <3> HIDE DEF h
    <3>4. QED
      BY <3>3, SubSeqEmpty DEF kh
  <2> HIDE DEF header, body, done, d
  <2>3. QED
    BY <2>1, <2>2 DEF ConnType, d
<1>3. CASE "W" \notin rev
  <2>1. d = conn
    BY <1>3 DEF Drained
  <2> HIDE DEF d
  <2>2. QED
    BY <2>1 DEF d
<1>4. QED
  BY <1>2, <1>3

(* Nothing is added that is not seen. *)
LEMMA NothingAdded ==
  ASSUME NEW a \in Seq(Units), NEW x \in Seq(Units), NEW y \in Seq(Units), a = (a \o x) \o y
  PROVE  x = <<>> /\ y = <<>>
<1>1. Len(a) \in Nat /\ Len(x) \in Nat /\ Len(y) \in Nat
  BY LenProperties
<1>2. Len(a \o x) = Len(a) + Len(x) /\ a \o x \in Seq(Units)
  BY ConcatProperties
<1>3. Len((a \o x) \o y) = Len(a \o x) + Len(y)
  BY <1>2, ConcatProperties
<1>4. Len(x) = 0 /\ Len(y) = 0
  BY <1>1, <1>2, <1>3
<1>5. QED
  BY <1>4, EmptySeq

(* What is written in a callback was due. *)
LEMMA WrittenWasDue ==
  ASSUME ConnInv, SessionInv, conn.open, NEW rev \in Revs, NEW m \in Writes(rev)
  PROVE  LET g == got \o SubSeq(Out, 1, m)
             d == Drained(rev, m)
         IN /\ g \in Seq(Units) /\ Due(g, d) = Due(got, conn) /\ d \in ConnType
            /\ Plain(g) \in Seq(Units) /\ Plain(Due(g, d)) \in Seq(Units)
            /\ Starts(Told, Plain(g)) /\ Starts(Plain(g), Asked)
            /\ ~conn.rReady => Plain(d.header) = <<>> /\ d.body = <<>>
<1> DEFINE g == got \o SubSeq(Out, 1, m)
           d == Drained(rev, m)
           part == SubSeq(Out, 1, m)
           u == Plain(Due(got, conn))
<1>1. /\ conn \in ConnType /\ got \in Seq(Units)
      /\ Serving(conn, sent, pos, u, Ended)
  BY DEF ConnInv, TypeOK, SessionInv
<1>2. ~conn.rSent /\ (~conn.rReady => conn.body = <<>> /\ Plain(conn.header) = <<>>)
  BY <1>1 DEF Serving
<1>3. /\ g \in Seq(Units) /\ Due(g, d) = Due(got, conn)
      /\ (d.rSent \/ ~conn.rReady => d.body = <<>>)
  BY <1>1, <1>2, DrainedPlaces
<1>4. d \in ConnType
  BY <1>1, DrainedKeeps
<1>5. part \in Seq(Units)
  <2> DEFINE h == conn.header
             b == conn.body
             out == h \o b
  <2>1. h \in Seq(Units) /\ b \in Seq(Units)
    BY <1>1, DueIsSeq
  <2> HIDE DEF h, b
  <2>2. out \in Seq(Units) /\ Len(out) \in Nat
    BY <2>1, ConcatProperties, LenProperties
  <2>3. m \in 0..Len(out)
    <3>1. m \in 0..Len(out) \/ m = 0
      BY DEF Writes, Out, h, b
    <3> HIDE DEF out
    <3>2. QED
      BY <2>2, <3>1
  <2>4. Out = out
    BY DEF Out, h, b
  <2> HIDE DEF out
  <2>5. \A i \in 1..m : out[i] \in Units
    BY <2>2, <2>3, ElementOfSeq
  <2>6. SubSeq(out, 1, m) \in Seq(Units)
    BY <2>2, <2>3, <2>5, SubSeqProperties
  <2>7. QED
    BY <2>4, <2>6
<1>6. Plain(g) = Plain(got) \o Plain(part) /\ Plain(got) \in Seq(Units) /\ Plain(part) \in Seq(Units)
  BY <1>1, <1>5, PlainConcat, PlainIsSeq
<1> HIDE DEF g, d, part, u
<1>7. /\ Plain(g) \in Seq(Units) /\ Plain(d.header) \in Seq(Units) /\ d.body \in Seq(Units)
      /\ Plain(Due(g, d)) \in Seq(Units)
      /\ Plain(Due(g, d)) = (Plain(g) \o Plain(d.header)) \o d.body
  BY <1>3, <1>4, PlainDue, DueIsSeq
<1>8. Plain(Due(g, d)) = u
  BY <1>3 DEF u
<1>9. Starts(Told, Plain(g))
  BY <1>6, StartsMore DEF Told
<1>10. Starts(Plain(g), Asked)
  <2>1. u = Plain(g) \o (Plain(d.header) \o d.body)
    BY <1>7, <1>8, Regroup
  <2>2. Plain(d.header) \o d.body \in Seq(Units)
    BY <1>7, ConcatProperties
  <2>3. Starts(Plain(g), u)
    BY <1>7, <2>1, <2>2 DEF Starts
  <2>4. Starts(u, Asked)
    BY <1>1 DEF Serving, Asked
  <2>5. u \in Seq(Units)
    BY <1>7, <1>8
  <2>6. QED
    BY <1>7, <2>3, <2>4, <2>5, StartsFurther
<1>11. ASSUME ~conn.rReady
       PROVE  Plain(d.header) = <<>> /\ d.body = <<>>
  <2>1. d.body = <<>>
    BY <1>3, <1>11
  <2>2. u = Plain(got)
    BY <1>1, <1>2, <1>11, PlainDue DEF u
  <2>3. u = Plain(g) \o Plain(d.header)
    <3>1. Plain(g) \o Plain(d.header) \in Seq(Units)
      BY <1>7, ConcatProperties
    <3>2. QED
      BY <1>7, <1>8, <2>1, <3>1, ConcatEmptySeq
  <2>4. Plain(got) = (Plain(got) \o Plain(part)) \o Plain(d.header)
    BY <1>6, <2>2, <2>3
  <2>5. Plain(d.header) = <<>>
    BY <1>6, <1>7, <2>4, NothingAdded
  <2>6. QED
    BY <2>1, <2>5
<1>12. QED
  BY <1>3, <1>4, <1>7, <1>9, <1>10, <1>11 DEF g, d

-----------------------------------------------------------------------------
(* When the callback goes on to read, all requests before the one that it  *)
(* reads have their answers written, as far as they are not yet due.       *)
LEMMA ReadingServes ==
  ASSUME ConnInv, SessionInv, NEW rev \in Revs, NEW m \in Writes(rev), GoesOn(rev, m)
  PROVE  LET c == Reading(rev, m)
             g == got \o SubSeq(Out, 1, m)
         IN /\ c \in ConnType /\ c.q = conn.q /\ Follows(c, sent, pos)
            /\ ~c.rReady /\ ~c.rSent /\ c.body = <<>> /\ Plain(c.header) = <<>>
            /\ \E at \in 1..pos + 1 :
                 /\ Skips(sent, pos, at, Plain(g)) /\ Reads(c, sent, pos, at)
                 /\ Stuck(c) \/ Len(conn.q) < BufSize
<1> DEFINE d == Drained(rev, m)
           c == Reading(rev, m)
           g == got \o SubSeq(Out, 1, m)
           u == Plain(Due(got, conn))
<1>1. conn.open /\ (d.rReady => d.rSent /\ ~conn.close)
  BY DEF GoesOn, Revents
<1>2. conn \in ConnType /\ got \in Seq(Units) /\ Serving(conn, sent, pos, u, Ended)
  BY <1>1 DEF ConnInv, TypeOK, SessionInv
<1>3. ~conn.rSent /\ (~conn.rReady => conn.body = <<>>)
  BY <1>2 DEF Serving
<1>4. /\ d.q = conn.q /\ d.start = conn.start /\ d.bodyWait = conn.bodyWait
      /\ d.qReady = conn.qReady /\ d.rReady = conn.rReady
      /\ d.rSent => conn.rReady
      /\ d.rSent \/ ~conn.rReady => d.body = <<>>
  BY <1>2, <1>3, DrainedPlaces
<1>5. /\ d.target = conn.target /\ d.status = conn.status /\ d.bodyLen = conn.bodyLen
      /\ d.close = conn.close
      /\ d.rSent => d.header = <<>>
  BY <1>2, <1>3, DrainedServes
<1>6. /\ d \in ConnType /\ Due(g, d) = Due(got, conn) /\ g \in Seq(Units)
      /\ ~conn.rReady => Plain(d.header) = <<>> /\ d.body = <<>>
  BY <1>1, WrittenWasDue
<1>7. c = IF d.rSent THEN Reset(d) ELSE d
  BY DEF Reading
<1>8. c \in ConnType /\ c.q = conn.q /\ ~c.rReady
  BY ReadingKeeps
<1> HIDE DEF d, c, g, u
<1>9. Follows(conn, sent, pos)
  BY <1>2 DEF Serving
<1>10. Follows(c, sent, pos) /\ Read(c, pos) = Read(conn, pos)
  BY <1>8, <1>9 DEF Follows, Read
<1>11. Plain(<<>>) = <<>>
  BY PlainOf
<1>12. CASE d.rSent
  <2>1. /\ c.header = <<>> /\ c.body = <<>> /\ ~c.rSent /\ ~c.start /\ c.target = NoTarget
        /\ c.bodyLen = 0 /\ ~c.close /\ ~c.bodyWait /\ ~c.qReady /\ c.status = 0
    BY <1>5, <1>6, <1>7, <1>12 DEF Reset, ConnType
  <2>2. Plain(g) = u
    <3>1. d.body = <<>> /\ Plain(d.header) = <<>>
      BY <1>4, <1>5, <1>11, <1>12
    <3>2. QED
      BY <1>6, <3>1, PlainDue DEF u
  <2>3. conn.rReady /\ ~conn.close
    BY <1>1, <1>4, <1>12
  <2>4. PICK at \in 1..pos + 1 : Skips(sent, pos, at, u) /\ Stands(conn, sent, pos, at)
    BY <1>2, <2>3 DEF Serving
  <2>5. Read(conn, pos) + 1 = at /\ Len(conn.q) < BufSize
    BY <2>3, <2>4 DEF Stands
  <2>6. Reads(c, sent, pos, at)
    BY <1>10, <2>1, <2>5 DEF Reads, Awaits
  <2>7. QED
    BY <1>8, <1>10, <1>11, <2>1, <2>2, <2>4, <2>5, <2>6 DEF c, g
<1>13. CASE ~d.rSent
  <2>1. c = d /\ ~conn.rReady /\ ~d.rSent
    BY <1>1, <1>4, <1>7, <1>13
  <2>2. Plain(d.header) = <<>> /\ d.body = <<>>
    BY <1>6, <2>1
  <2>3. Plain(g) = u
    BY <1>6, <2>2, PlainDue DEF u
  <2>4. PICK at \in 1..pos + 1 : Skips(sent, pos, at, u) /\ Stands(conn, sent, pos, at)
    BY <1>2, <2>1 DEF Serving
  <2>5. Reads(conn, sent, pos, at) /\ Stuck(conn)
    BY <2>1, <2>4 DEF Stands
  <2>6. Reads(c, sent, pos, at) /\ Stuck(c)
    BY <1>4, <1>5, <1>10, <2>1, <2>5 DEF Reads, Awaits, InHeader, Heads, Stuck
  <2>7. QED
    BY <1>8, <1>10, <2>1, <2>2, <2>3, <2>4, <2>6 DEF c, g
<1>14. QED
  BY <1>12, <1>13

(* What the steps have in common: what is told grows, and was owed before; *)
(* what is owed grows.                                                     *)
Grows == Starts(Told, Told') /\ Starts(Told', Asked) /\ Starts(Asked, Asked')

LEMMA AskedIsSeq ==
  ASSUME ConnInv
  PROVE  pos \in Nat /\ Len(sent) \in Nat /\ sent \in Seq(Tokens) /\ Asked \in Seq(Units)
<1>1. sent \in Seq(Tokens) /\ pos \in 0..Len(sent)
  BY DEF ConnInv, TypeOK, Tokens
<1>2. Len(sent) \in Nat
  BY <1>1, LenProperties
<1>3. pos \in Nat
  BY <1>1, <1>2
<1>4. Answers(sent, pos, Ended) \in Seq(Units)
  <2>1. 1 \in 1..pos + 1
    BY <1>3
  <2>2. QED
    BY <1>3, <2>1, FromIsSeq DEF Answers
<1>5. QED
  BY <1>1, <1>2, <1>3, <1>4 DEF Asked

LEMMA AskedGrows ==
  ASSUME ConnInv, pos' \in Nat, pos <= pos', Agree(sent, sent', pos), ~Ended
  PROVE  Starts(Asked, Asked')
<1>1. pos \in Nat
  BY AskedIsSeq
<1> DEFINE s == sent
           t == sent'
           n == pos
           p == pos'
           e == Ended'
<1>2. Asked' = Answers(t, p, e)
  BY DEF Asked
<1>3. Asked = Answers(s, n, Unended)
  <2>1. Ended = Unended
    <3>1. Ended \in BOOLEAN /\ Unended = FALSE
      BY DEF Ended, Unended
    <3>2. QED
      BY <3>1
  <2>2. QED
    BY <2>1, Zenon DEF Asked
<1>4. n \in Nat /\ p \in Nat /\ n <= p /\ Agree(s, t, n)
  BY <1>1
<1> HIDE DEF s, t, n, p, e
<1>5. Starts(Answers(s, n, Unended), Answers(t, p, e))
  BY <1>4, AnswersGrow
<1>6. QED
  BY <1>2, <1>3, <1>5

LEMMA AskedStays ==
  ASSUME ConnInv, UNCHANGED <<sent, fin, pos>>
  PROVE  Asked' = Asked /\ Ended' = Ended /\ Starts(Asked, Asked')
<1>1. Ended' = Ended
  BY DEF Ended
<1>2. Asked' = Asked
  BY <1>1, Zenon DEF Asked
<1>3. QED
  BY <1>1, <1>2, AskedIsSeq, StartsSelf

LEMMA FreedServes ==
  ASSUME ConnInv, SessionInv, conn.open, UNCHANGED <<sent, fin, pos>>, conn' = Closed,
         \/ got' = got
         \/ \E rev \in Revs : \E m \in Writes(rev) : got' = got \o SubSeq(Out, 1, m)
  PROVE  SessionInv' /\ Grows
<1>1. Asked' = Asked /\ Starts(Asked, Asked')
  BY AskedStays
<1>2. got' \in Seq(Units) /\ Starts(Told, Told') /\ Starts(Told', Asked)
  <2>1. CASE got' = got
    <3>1. got \in Seq(Units) /\ Told \in Seq(Units) /\ Starts(Told, Asked)
      BY PlainIsSeq DEF SessionInv, Told
    <3>2. QED
      BY <2>1, <3>1, StartsSelf DEF Told
  <2>2. ASSUME NEW rev \in Revs, NEW m \in Writes(rev), got' = got \o SubSeq(Out, 1, m)
        PROVE  got' \in Seq(Units) /\ Starts(Told, Told') /\ Starts(Told', Asked)
    BY <2>2, WrittenWasDue DEF Told
  <2>3. QED
    BY <2>1, <2>2
<1>3. ~conn'.open
  BY ClosedIsConn
<1>4. QED
  BY <1>1, <1>2, <1>3 DEF SessionInv, Grows, Told

LEMMA KeepWritingServes ==
  ASSUME ConnInv, SessionInv, NEW rev \in Revs, NEW m \in Writes(rev), KeepWriting(rev, m)
  PROVE  SessionInv' /\ Grows
<1> DEFINE d == Drained(rev, m)
           g == got \o SubSeq(Out, 1, m)
           u == Plain(Due(got, conn))
<1>1. /\ conn.open /\ d.rReady /\ ~d.rSent /\ UNCHANGED <<sent, fin, pos>>
      /\ conn' = [d EXCEPT !.events = {"W"}] /\ got' = g
  BY DEF KeepWriting, Revents
<1>2. conn \in ConnType /\ got \in Seq(Units) /\ Serving(conn, sent, pos, u, Ended)
  BY <1>1 DEF ConnInv, TypeOK, SessionInv
<1>3. ~conn.rSent /\ (~conn.rReady => conn.body = <<>>)
  BY <1>2 DEF Serving
<1>4. d.q = conn.q /\ d.rReady = conn.rReady
  BY <1>2, <1>3, DrainedPlaces
<1>5. d.close = conn.close
  BY <1>2, <1>3, DrainedServes
<1>6. /\ g \in Seq(Units) /\ Due(g, d) = Due(got, conn) /\ d \in ConnType
      /\ Starts(Told, Plain(g)) /\ Starts(Plain(g), Asked)
  BY <1>1, WrittenWasDue
<1> HIDE DEF d, g
<1>7. /\ conn'.header = d.header /\ conn'.body = d.body /\ conn'.q = conn.q
      /\ conn'.rReady /\ ~conn'.rSent /\ conn'.close = conn.close /\ conn.rReady
  BY <1>1, <1>4, <1>5, <1>6 DEF ConnType
<1>8. Plain(Due(got', conn')) = u
  BY <1>1, <1>6, <1>7 DEF Due
<1>9. Follows(conn', sent, pos) /\ Read(conn', pos) = Read(conn, pos)
  BY <1>2, <1>7 DEF Serving, Follows, Read
<1>10. \A at \in 1..pos + 1 : Stands(conn, sent, pos, at) => Stands(conn', sent, pos, at)
  BY <1>7, <1>9 DEF Stands
<1>11. Serving(conn', sent, pos, u, Ended)
  <2> HIDE DEF u
  <2>1. QED
    BY <1>2, <1>7, <1>9, <1>10 DEF Serving
<1>12. Asked' = Asked /\ Ended' = Ended /\ Starts(Asked, Asked')
  BY <1>1, AskedStays
<1>13. Serving(conn', sent', pos', Plain(Due(got', conn')), Ended')
  <2> DEFINE x == Plain(Due(got', conn'))
             c == conn'
  <2>1. x = u /\ sent' = sent /\ pos' = pos /\ Ended' = Ended
    BY <1>1, <1>8, <1>12
  <2>2. Serving(c, sent, pos, u, Ended)
    BY <1>11
  <2> HIDE DEF x, u, c
  <2>3. Serving(c, sent', pos', x, Ended')
    BY <2>1, <2>2
  <2>4. QED
    BY <2>3 DEF c, x
<1>14. QED
  BY <1>1, <1>6, <1>12, <1>13 DEF SessionInv, Grows, Told

-----------------------------------------------------------------------------
LEMMA ReadMoreServes ==
  ASSUME ConnInv, SessionInv, NEW n \in 0..BufSize,
         NEW rev \in Revs, NEW m \in Writes(rev), ReadMore(rev, m, n)
  PROVE  SessionInv' /\ Grows
<1> DEFINE d == Reading(rev, m)
           piece == SubSeq(sent, pos + 1, pos + n)
           c == [d EXCEPT !.q = @ \o piece]
           g == got \o SubSeq(Out, 1, m)
           s == sent
           o == pos
           p == pos + n
           e == Ended'
           eof == n = 0
<1>1. conn.open /\ GoesOn(rev, m)
  BY DEF ReadMore, GoesOn, Revents
<1>2. /\ d \in ConnType /\ d.q = conn.q /\ Follows(d, s, o)
      /\ ~d.rReady /\ ~d.rSent /\ d.body = <<>> /\ Plain(d.header) = <<>>
      /\ \E at \in 1..o + 1 : Skips(s, o, at, Plain(g)) /\ Reads(d, s, o, at)
  BY <1>1, ReadingServes
<1>3. /\ g \in Seq(Units) /\ Plain(g) \in Seq(Units)
      /\ Starts(Told, Plain(g)) /\ Starts(Plain(g), Asked)
  BY <1>1, WrittenWasDue
<1>4. s \in Seq(Tokens) /\ Len(s) \in Nat /\ o \in Nat
  BY AskedIsSeq
<1>5. /\ conn.q \in Seq(Tokens) /\ Len(conn.q) \in Nat
      /\ n \in Nat /\ p \in Nat /\ o <= p /\ p <= Len(s) /\ n <= BufSize - Len(conn.q)
  <2>1. conn.q \in Seq(Tokens)
    BY DEF ConnInv, TypeOK, ConnType, Tokens
  <2>2. Len(conn.q) \in Nat
    BY <2>1, LenProperties
  <2>3. pos + n <= Len(sent) /\ n <= BufSize - Len(conn.q)
    BY DEF ReadMore, Room
  <2>4. n \in Nat
    BY StreamsAssumption
  <2>5. QED
    BY <1>4, <2>1, <2>2, <2>3, <2>4
<1>6. /\ conn' = Process(c, eof) /\ pos' = p /\ UNCHANGED <<sent, fin>>
      /\ got' = g /\ (n = 0 => pos = Len(sent) /\ fin)
  BY DEF ReadMore, GoesOn
<1>7. piece \in Seq(Tokens) /\ Len(piece) = n
  <2>1. \A i \in o + 1..o + n : s[i] \in Tokens
    BY <1>4, <1>5, ElementOfSeq
  <2>2. QED
    BY <1>4, <1>5, <2>1, SubSeqProperties
<1>8. eof \in BOOLEAN /\ (eof => e)
  <2>1. n = 0 => Ended'
    BY <1>4, <1>6 DEF Ended
  <2>2. QED
    BY <2>1
<1>9. Starts(Asked, Asked') /\ Asked' = Answers(s, p, e) /\ Asked \in Seq(Units)
  <2>1. CASE n = 0
    <3>1. UNCHANGED <<sent, fin, pos>>
      BY <1>4, <1>6, <2>1
    <3>2. Starts(Asked, Asked')
      BY <3>1, AskedStays
    <3>3. QED
      BY <1>6, <3>2, AskedIsSeq DEF Asked
  <2>2. CASE n # 0
    <3>1. ~Ended
      BY <1>4, <1>5, <2>2 DEF Ended
    <3>2. pos' \in Nat /\ pos <= pos'
      BY <1>5, <1>6
    <3>3. Agree(sent, sent', pos)
      BY <1>6 DEF Agree
    <3>4. Starts(Asked, Asked')
      BY <3>1, <3>2, <3>3, AskedGrows
    <3>5. QED
      BY <1>6, <3>4, AskedIsSeq DEF Asked
  <2>3. QED
    BY <2>1, <2>2
<1> HIDE DEF g, eof, e
<1>10. c \in ConnType /\ c.q = conn.q \o piece /\ Len(c.q) <= BufSize
  <2> HIDE DEF d, piece
  <2>1. conn.q \o piece \in Seq(Tokens) /\ Len(conn.q \o piece) = Len(conn.q) + n
    BY <1>5, <1>7, ConcatProperties
  <2>2. c \in ConnType /\ c.q = conn.q \o piece
    BY <1>2, <2>1 DEF ConnType, Tokens
  <2> DEFINE k == Len(c.q)
             l == Len(conn.q)
  <2>3. k = l + n /\ l \in Nat /\ n \in Nat /\ n <= BufSize - l /\ BufSize \in Nat
    <3>1. Len(conn.q \o piece) = Len(conn.q) + n
      BY <2>1
    <3>2. c.q = conn.q \o piece
      BY <2>2
    <3> HIDE DEF c
    <3>3. QED
      BY <1>5, <3>1, <3>2, StreamsAssumption
  <2> HIDE DEF k, l
  <2>4. k <= BufSize
    BY <2>3
  <2>5. QED
    BY <2>2, <2>4 DEF k
<1>11. /\ c.start = d.start /\ c.target = d.target /\ c.bodyLen = d.bodyLen
       /\ c.close = d.close /\ c.bodyWait = d.bodyWait /\ c.qReady = d.qReady
       /\ c.status = d.status /\ c.header = d.header /\ c.body = d.body
       /\ c.rReady = d.rReady /\ c.rSent = d.rSent
  <2> HIDE DEF d, piece
  <2>1. QED
    BY <1>2 DEF ConnType
<1>12. c.q = d.q \o SubSeq(s, o + 1, o + n)
  BY <1>2, <1>10
<1> HIDE DEF d, piece, c, s, o
<1>13. Follows(c, s, o + n) /\ Read(c, o + n) = Read(d, o)
  <2>1. o + n <= Len(s)
    BY <1>5 DEF o
  <2>2. /\ c \in ConnType /\ d \in ConnType /\ s \in Seq(Tokens)
        /\ o \in Nat /\ n \in Nat /\ Follows(d, s, o)
    BY <1>2, <1>4, <1>5, <1>10
  <2>3. QED
    BY <1>12, <2>1, <2>2, PieceFollows
<1>14. p = o + n
  BY DEF o
<1> HIDE DEF p
<1>15. Follows(c, s, p) /\ Read(c, p) = Read(d, o) /\ Agree(s, s, o)
  BY <1>13, <1>14 DEF Agree
<1>16. Serves(c, s, p, Plain(g))
  <2> DEFINE u == Plain(g)
  <2>1. PICK at \in 1..o + 1 : Skips(s, o, at, u) /\ Reads(d, s, o, at)
    BY <1>2
  <2> HIDE DEF u
  <2>2. Skips(s, p, at, u)
    BY <1>4, <1>5, <1>15, <2>1, SkipsStays
  <2>3. Reads(c, s, p, at)
    BY <1>2, <1>4, <1>5, <1>11, <1>15, <2>1, ReadsStays
  <2>4. at \in 1..p + 1
    BY <1>4, <1>5, <2>1
  <2>5. QED
    BY <2>2, <2>3, <2>4 DEF Serves, u
<1> DEFINE w == Process(c, eof)
<1>17. w.open => Serving(w, s, p, Plain(Due(g, w)), e)
  BY <1>2, <1>3, <1>5, <1>8, <1>10, <1>11, <1>15, <1>16, ProcessServes
<1>18. w = conn' /\ s = sent' /\ p = pos' /\ g = got' /\ e = Ended'
  BY <1>6 DEF s, e
<1> HIDE DEF w
<1>19. conn'.open => Serving(conn', sent', pos', Plain(Due(got', conn')), Ended')
  BY <1>17, <1>18, Zenon
<1>20. Starts(Plain(g), Asked')
  BY <1>3, <1>9, StartsFurther
<1>21. QED
  BY <1>3, <1>9, <1>18, <1>19, <1>20 DEF SessionInv, Grows, Told

LEMMA ReadLeftoverServes ==
  ASSUME ConnInv, SessionInv, NEW rev \in Revs, NEW m \in Writes(rev), ReadLeftover(rev, m)
  PROVE  SessionInv' /\ Grows
<1> DEFINE c == Reading(rev, m)
           g == got \o SubSeq(Out, 1, m)
           s == sent
           p == pos
           e == Ended
           eof == FALSE
<1>1. conn.open /\ GoesOn(rev, m)
  BY DEF ReadLeftover, GoesOn, Revents
<1>2. /\ c \in ConnType /\ c.q = conn.q /\ Follows(c, s, p)
      /\ ~c.rReady /\ ~c.rSent /\ c.body = <<>> /\ Plain(c.header) = <<>>
      /\ \E at \in 1..p + 1 : Skips(s, p, at, Plain(g)) /\ Reads(c, s, p, at)
  BY <1>1, ReadingServes
<1>3. /\ g \in Seq(Units) /\ Plain(g) \in Seq(Units)
      /\ Starts(Told, Plain(g)) /\ Starts(Plain(g), Asked)
  BY <1>1, WrittenWasDue
<1>4. /\ conn' = Process(c, eof) /\ got' = g /\ UNCHANGED <<sent, fin, pos>>
      /\ eof \in BOOLEAN /\ (eof => e)
  BY DEF ReadLeftover, GoesOn
<1>5. Len(c.q) <= BufSize /\ p \in Nat
  BY <1>2, AskedIsSeq DEF ConnInv, TypeOK
<1>6. Asked' = Asked /\ Ended' = Ended /\ Starts(Asked, Asked')
  BY <1>4, AskedStays
<1> HIDE DEF c, g, eof, e, s, p
<1>7. Serves(c, s, p, Plain(g))
  BY <1>2 DEF Serves
<1> DEFINE w == Process(c, eof)
<1>8. w.open => Serving(w, s, p, Plain(Due(g, w)), e)
  BY <1>2, <1>3, <1>4, <1>5, <1>7, ProcessServes
<1>9. w = conn' /\ s = sent' /\ p = pos' /\ g = got' /\ e = Ended'
  BY <1>4, <1>6 DEF s, e, p
<1> HIDE DEF w
<1>10. conn'.open => Serving(conn', sent', pos', Plain(Due(got', conn')), Ended')
  BY <1>8, <1>9, Zenon
<1>11. QED
  BY <1>3, <1>6, <1>9, <1>10 DEF SessionInv, Grows, Told

-----------------------------------------------------------------------------
LEMMA ShutdownServes ==
  ASSUME ConnInv, SessionInv, Shutdown
  PROVE  SessionInv' /\ Grows
<1> DEFINE s == sent
           t == sent'
           p == pos
           e == Ended'
           u == Plain(Due(got, conn))
<1>1. s \in Seq(Tokens) /\ Len(s) \in Nat /\ p \in Nat /\ Asked \in Seq(Units)
  BY AskedIsSeq
<1>2. UNCHANGED <<conn, pos, got>> /\ ~Ended /\ conn \in ConnType
  BY DEF Shutdown, Ended, ConnInv, TypeOK
<1>3. Agree(s, t, p)
  <2>1. PICK i \in pos..Len(sent) : sent' = SubSeq(sent, 1, i)
    BY DEF Shutdown
  <2>2. i \in Nat /\ p <= i /\ i <= Len(s)
    BY <1>1
  <2>3. \A j \in 1..i : s[j] \in Tokens
    BY <1>1, <2>2, ElementOfSeq
  <2>4. \A x \in 1..i : t[x] = s[1 + x - 1]
    BY <2>1, <2>2, <2>3, SubSeqProperties
  <2>5. QED
    BY <1>1, <2>2, <2>4 DEF Agree
<1>4. Starts(Asked, Asked') /\ Asked' = Answers(t, p, e)
  BY <1>1, <1>2, <1>3, AskedGrows DEF Asked
<1>5. got \in Seq(Units) /\ Told \in Seq(Units) /\ Starts(Told, Asked)
  BY PlainIsSeq DEF SessionInv, Told
<1>6. Starts(Told, Told') /\ Starts(Told', Asked) /\ Starts(Told', Asked') /\ Told' = Told
  <2>1. Told' = Told
    BY <1>2 DEF Told
  <2>2. Starts(Told, Asked')
    BY <1>1, <1>4, <1>5, StartsFurther
  <2>3. QED
    BY <1>5, <2>1, <2>2, StartsSelf
<1>7. ASSUME conn.open
      PROVE  Serving(conn, t, p, u, e)
  <2>1. Serving(conn, s, p, u, Ended)
    BY <1>7 DEF SessionInv
  <2>2. u \in Seq(Units)
    BY <1>2, <1>5, PlainDue
  <2>3. Starts(u, Answers(t, p, e))
    <3>1. Starts(u, Asked)
      BY <2>1 DEF Serving, Asked
    <3> HIDE DEF u
    <3>2. QED
      BY <1>1, <1>4, <2>2, <3>1, StartsFurther
  <2> HIDE DEF s, t, p, u, e
  <2>4. Follows(conn, s, p)
    BY <2>1 DEF Serving
  <2>5. Follows(conn, t, p)
    <3> DEFINE length == Len(conn.q)
               v == Read(conn, p)
    <3>1. length \in Nat /\ length <= p /\ v = p - length
      <4>1. conn.q \in Seq(Tokens)
        BY <1>2 DEF ConnType, Tokens
      <4>2. QED
        BY <2>4, <4>1, LenProperties DEF Follows, Read
    <3>2. \A x \in 1..length : conn.q[x] = s[v + x]
      BY <2>4 DEF Follows
    <3> HIDE DEF length, v
    <3>3. \A x \in 1..length : v + x \in 1..p
      BY <1>1, <3>1
    <3>4. \A x \in 1..length : conn.q[x] = t[v + x]
      BY <1>3, <3>2, <3>3 DEF Agree
    <3>5. QED
      BY <3>1, <3>4 DEF Follows, length, v
  <2>6. \A at \in 1..p + 1 : Skips(s, p, at, u) => Skips(t, p, at, u)
    <3>1. p <= p
      BY <1>1
    <3>2. QED
      BY <1>1, <1>3, <3>1, SkipsStays
  <2>7. \A at \in 1..p + 1 : Reads(conn, s, p, at) => Reads(conn, t, p, at)
    <3>1. p <= p
      BY <1>1
    <3>2. QED
      BY <1>1, <1>2, <1>3, <2>4, <3>1, ReadsStays
  <2>8. \A at \in 1..p + 1 : Stands(conn, s, p, at) => Stands(conn, t, p, at)
    BY <2>7 DEF Stands
  <2>9. QED
    BY <2>1, <2>3, <2>5, <2>6, <2>8 DEF Serving
<1>8. conn'.open => Serving(conn', sent', pos', Plain(Due(got', conn')), Ended')
  <2> DEFINE c == conn'
             q == pos'
             w == Plain(Due(got', c))
  <2>1. c = conn /\ q = p /\ w = u
    BY <1>2
  <2> HIDE DEF c, q, w, t, p, u, e
  <2>2. c.open => Serving(c, t, q, w, e)
    BY <1>7, <2>1, Zenon
  <2>3. QED
    BY <2>2 DEF c, t, q, w, e
<1>9. got' \in Seq(Units)
  BY <1>2, <1>5
<1>10. QED
  BY <1>4, <1>6, <1>8, <1>9 DEF SessionInv, Grows, Told

LEMMA NothingAsked ==
  ASSUME NEW s, NEW e
  PROVE  Answers(s, 0, e) = <<>>
<1> DEFINE n == 0
<1>1. n \in Nat /\ 1 \in 1..n + 1 /\ n = 0
  OBVIOUS
<1> HIDE DEF n
<1>2. ~HasNext(s, n, 1) /\ ~HasLine(s, n, 1)
  BY <1>1 DEF HasNext, HasLine
<1>3. AnswersFrom(s, n, e)[1] = Own(s, n, 1, e)
  BY <1>1, <1>2, FromSteps
<1>4. Own(s, n, 1, e) = <<>>
  BY <1>2 DEF Own
<1>5. QED
  BY <1>3, <1>4 DEF Answers, n

LEMMA InitServes == Init => SessionInv /\ Asked = <<>> /\ Told = <<>>
<1> SUFFICES ASSUME Init PROVE SessionInv /\ Asked = <<>> /\ Told = <<>>
  OBVIOUS
<1> DEFINE p == pos
           e == Ended
<1>1. /\ conn.header = <<>> /\ conn.body = <<>> /\ conn.q = <<>> /\ ~conn.rSent /\ ~conn.rReady
      /\ ~conn.start /\ conn.target = NoTarget /\ conn.bodyLen = 0 /\ ~conn.close
      /\ ~conn.bodyWait /\ ~conn.qReady /\ conn.status = 0 /\ conn \in ConnType
  BY InitConn DEF Init, Closed, ConnInv, TypeOK
<1>2. got = <<>> /\ pos = 0 /\ <<>> \in Seq(Units)
  BY DEF Init
<1>3. Plain(<<>>) = <<>>
  BY PlainOf
<1>4. Told = <<>> /\ Plain(Due(got, conn)) = <<>>
  BY <1>1, <1>2, <1>3, PlainDue DEF Told
<1>5. Asked = <<>>
  BY <1>2, NothingAsked DEF Asked
<1>6. Answers(sent, p, e) = <<>>
  BY <1>5 DEF Asked
<1> HIDE DEF p, e
<1>7. p \in Nat /\ p = 0 /\ 1 \in 1..p + 1
  BY <1>2 DEF p
<1>8. Starts(<<>>, <<>>)
  BY <1>2, StartsSelf
<1>9. Follows(conn, sent, p) /\ Read(conn, p) + 1 = 1
  BY <1>1, <1>7 DEF Follows, Read
<1>10. Stuck(conn)
  <2>1. FirstNL(<<>>) = 0
    <3> DEFINE q == <<>>
    <3>1. q \in Seq(Tokens) /\ Len(q) = 0
      OBVIOUS
    <3> HIDE DEF q
    <3> DEFINE i == FirstNL(q)
               length == Len(q)
    <3>2. i \in 0..length
      BY <3>1, FirstNLIsPlace
    <3>3. length = 0
      BY <3>1
    <3> HIDE DEF i, length
    <3>4. i = 0
      BY <3>2, <3>3
    <3>5. QED
      BY <3>4 DEF q, i
  <2>2. QED
    BY <1>1, <2>1 DEF Stuck
<1>11. Reads(conn, sent, p, 1)
  BY <1>1, <1>9 DEF Reads, Awaits
<1>12. Stands(conn, sent, p, 1) /\ Skips(sent, p, 1, <<>>)
  BY <1>1, <1>7, <1>10, <1>11, SkipsNothing DEF Stands
<1>13. Serving(conn, sent, p, <<>>, e)
  BY <1>1, <1>3, <1>6, <1>7, <1>8, <1>9, <1>12 DEF Serving
<1>14. QED
  BY <1>2, <1>3, <1>4, <1>5, <1>8, <1>13 DEF SessionInv, p, e

LEMMA NextServes == ConnInv /\ SessionInv /\ [Next]_vars => SessionInv' /\ Grows
<1> SUFFICES ASSUME ConnInv, SessionInv, [Next]_vars PROVE SessionInv' /\ Grows
  OBVIOUS
<1>1. ASSUME NEW rev \in Revs, NEW m \in Writes(rev), KeepWriting(rev, m)
      PROVE  SessionInv' /\ Grows
  BY <1>1, KeepWritingServes
<1>2. ASSUME NEW rev \in Revs, NEW m \in Writes(rev),
             CloseWhenSent(rev, m) \/ CloseWhenFull(rev, m)
      PROVE  SessionInv' /\ Grows
  <2>1. /\ conn.open /\ conn' = Closed /\ UNCHANGED <<sent, fin, pos>>
        /\ got' = got \o SubSeq(Out, 1, m)
    BY <1>2 DEF CloseWhenSent, CloseWhenFull, GoesOn, Revents
  <2>2. QED
    BY <2>1, FreedServes
<1>3. ASSUME NEW n \in 0..BufSize, NEW rev \in Revs, NEW m \in Writes(rev), ReadMore(rev, m, n)
      PROVE  SessionInv' /\ Grows
  BY <1>3, ReadMoreServes
<1>4. ASSUME NEW rev \in Revs, NEW m \in Writes(rev), ReadLeftover(rev, m)
      PROVE  SessionInv' /\ Grows
  BY <1>4, ReadLeftoverServes
<1>5. CASE IoError \/ Timeout
  BY <1>5, FreedServes DEF IoError, Timeout
<1>6. CASE Shutdown
  BY <1>6, ShutdownServes
<1>7. CASE UNCHANGED vars
  <2>1. UNCHANGED <<conn, sent, fin, pos, got>>
    BY <1>7 DEF vars
  <2>2. Asked' = Asked /\ Ended' = Ended /\ Starts(Asked, Asked')
    BY <2>1, AskedStays
  <2>3. got \in Seq(Units) /\ Told \in Seq(Units) /\ Starts(Told, Asked)
    BY PlainIsSeq DEF SessionInv, Told
  <2>4. Starts(Told, Told') /\ Starts(Told', Asked)
    BY <2>1, <2>3, StartsSelf DEF Told
  <2>5. conn'.open => Serving(conn', sent', pos', Plain(Due(got', conn')), Ended')
    BY <2>1, <2>2, Zenon DEF SessionInv
  <2>6. QED
    BY <2>1, <2>2, <2>4, <2>5 DEF SessionInv, Grows, Told
<1>8. QED
  BY <1>1, <1>2, <1>3, <1>4, <1>5, <1>6, <1>7 DEF Next, IoCb, Calls

-----------------------------------------------------------------------------
(* Told and Asked change as the session allows. *)
LEMMA GrowsIsNext ==
  ASSUME ConnInv, ConnInv', SessionInv, SessionInv', Grows
  PROVE  [Session!Next]_(Session!vars)
<1> DEFINE a == Asked
           b == Asked'
           t == Told
           u == Told'
<1>1. a \in Seq(Units)
  BY AskedIsSeq
<1>2. b \in Seq(Units)
  <2> DEFINE s == sent'
             p == pos'
             e == Ended'
             length == Len(s)
  <2>1. s \in Seq(Tokens) /\ p \in 0..length
    BY DEF ConnInv, TypeOK, Tokens
  <2>2. b = AnswersFrom(s, p, e)[1]
    BY DEF Asked, Answers
  <2> HIDE DEF b, s, p, e
  <2>3. length \in Nat
    BY <2>1, LenProperties
  <2> HIDE DEF length
  <2>4. p \in Nat /\ 1 \in 1..p + 1
    BY <2>1, <2>3
  <2>5. QED
    BY <2>2, <2>4, FromIsSeq
<1>3. got \in Seq(Units) /\ got' \in Seq(Units)
  BY DEF SessionInv
<1>4. t \in Seq(Units) /\ u \in Seq(Units)
  BY <1>3, PlainIsSeq DEF Told
<1>5. Starts(t, u) /\ Starts(u, a) /\ Starts(a, b)
  BY DEF Grows
<1> HIDE DEF a, b, t, u
<1>6. IsPrefix(t, u) /\ IsPrefix(u, a) /\ IsPrefix(a, b)
  BY <1>1, <1>2, <1>4, <1>5, StartsIsPrefix
<1>7. /\ Session!IsPrefix(t, u) /\ Session!IsPrefix(u, a) /\ Session!IsPrefix(a, b)
      /\ t # u => Session!IsStrictPrefix(t, u)
      /\ a # b => Session!IsStrictPrefix(a, b)
  BY <1>6 DEF IsPrefix, Session!IsPrefix, Session!IsStrictPrefix
<1>8. \/ a # b /\ t = u
      \/ a = b /\ t # u
      \/ a # b /\ t # u
      \/ a = b /\ t = u
  OBVIOUS
<1>9. CASE a # b /\ t = u
  <2>1. Session!Ask
    BY <1>7, <1>9 DEF Session!Ask, a, b, t, u
  <2>2. QED
    BY <2>1 DEF Session!Next
<1>10. CASE a = b /\ t # u
  <2>1. Session!Tell
    BY <1>7, <1>10 DEF Session!Tell, a, b, t, u
  <2>2. QED
    BY <2>1 DEF Session!Next
<1>11. CASE a # b /\ t # u
  <2>1. Session!AskAndTell
    BY <1>7, <1>11 DEF Session!AskAndTell, a, b, t, u
  <2>2. QED
    BY <2>1 DEF Session!Next
<1>12. CASE a = b /\ t = u
  BY <1>12 DEF Session!vars, a, b, t, u
<1>13. QED
  BY <1>8, <1>9, <1>10, <1>11, <1>12

(* When the buffer is full there is no complete request in it. *)
LEMMA FullIsCut ==
  ASSUME ConnInv, SessionInv, NEW rev \in Revs, NEW m \in Writes(rev), CloseWhenFull(rev, m)
  PROVE  Answers(sent, pos, FALSE) = Plain(got')
<1> DEFINE c == Reading(rev, m)
           g == got \o SubSeq(Out, 1, m)
           u == Plain(g)
           s == sent
           p == pos
<1>1. conn.open /\ GoesOn(rev, m) /\ got' = g /\ Len(conn.q) >= BufSize
  <2>1. BufSize - Len(conn.q) = 0 /\ BufSize \in Nat
    BY StreamsAssumption DEF CloseWhenFull, Room
  <2>2. Len(conn.q) \in Nat
    <3>1. conn.q \in Seq(Tokens)
      BY DEF ConnInv, TypeOK, ConnType, Tokens
    <3>2. QED
      BY <3>1, LenProperties
  <2>3. QED
    BY <2>1, <2>2 DEF CloseWhenFull, GoesOn, Revents
<1>2. p \in Nat
  BY AskedIsSeq
<1>3. g \in Seq(Units) /\ u \in Seq(Units)
  BY <1>1, WrittenWasDue
<1>4. PICK at \in 1..p + 1 :
        /\ c \in ConnType /\ Follows(c, s, p)
        /\ Skips(s, p, at, u) /\ Reads(c, s, p, at)
        /\ Stuck(c) \/ Len(conn.q) < BufSize
  BY <1>1, ReadingServes
<1>5. Stuck(c)
  <2> DEFINE k == Len(conn.q)
  <2>1. k \in Nat /\ BufSize \in Nat /\ k >= BufSize
    <3>1. conn.q \in Seq(Tokens)
      BY DEF ConnInv, TypeOK, ConnType, Tokens
    <3>2. QED
      BY <1>1, <3>1, LenProperties, StreamsAssumption
  <2>2. Stuck(c) \/ k < BufSize
    BY <1>4
  <2> HIDE DEF k, c
  <2>3. QED
    BY <2>1, <2>2
<1> HIDE DEF c, g, u, s, p
<1>6. ~HasNext(s, p, at) /\ Own(s, p, at, Unended) = <<>>
  BY <1>2, <1>4, <1>5, StuckIsCut
<1>7. Answers(s, p, Unended) = u \o Own(s, p, at, Unended)
  BY <1>2, <1>4, <1>6, SkipsLast
<1>8. Answers(s, p, Unended) = u
  BY <1>3, <1>6, <1>7, ConcatEmptySeq
<1>9. QED
  BY <1>1, <1>8 DEF u, s, p, Unended

(* bc_io_cb answers each request once and in order, whatever pieces the    *)
(* stream arrives in and whatever pieces the socket takes: the connection  *)
(* implements the session that its client sees.                            *)
THEOREM SessionImplemented == Spec => ImplementsSession
<1>1. Init => Session!Init
  BY InitServes DEF Session!Init
<1>2. ConnInv /\ SessionInv /\ [Next]_vars => ConnInv' /\ SessionInv' /\ [Session!Next]_(Session!vars)
  BY NextConn, NextServes, GrowsIsNext
<1>3. Init => ConnInv /\ SessionInv
  BY InitConn, InitServes
<1>4. QED
  BY <1>1, <1>2, <1>3, PTL DEF Spec, ImplementsSession, Session!Spec

(* A connection that is dropped because its request buffer is full has no  *)
(* complete request in it: all that bc_io_cb read before was answered.     *)
THEOREM CompleteNeverDropped == Spec => NeverDropsComplete
<1> DEFINE Drops == \A rev \in Revs : \A m \in Writes(rev) : CloseWhenFull(rev, m) =>
                      Answers(sent, pos, FALSE) = Plain(got')
<1>1. ConnInv /\ SessionInv => Drops
  BY FullIsCut
<1>2. ConnInv /\ SessionInv /\ [Next]_vars => ConnInv' /\ SessionInv' /\ [Drops]_vars
  BY <1>1, NextConn, NextServes
<1>3. Init => ConnInv /\ SessionInv
  BY InitConn, InitServes
<1> HIDE DEF Drops
<1>4. Spec => [][Drops]_vars
  BY <1>2, <1>3, PTL DEF Spec
<1>5. QED
  BY <1>4 DEF NeverDropsComplete, Drops
===============================================================================
