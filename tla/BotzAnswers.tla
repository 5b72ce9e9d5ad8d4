----------------------------- MODULE BotzAnswers -----------------------------
(***************************************************************************)
(* What the client of a botz connection must be told, for the requests in  *)
(* the first n tokens of a stream s read as a whole, whatever pieces they  *)
(* arrive in: a reference for BotzConn that has no state.                  *)
(***************************************************************************)
EXTENDS BotzConn

Tokens == UNION {Range(s) : s \in Streams}

(* The request that starts at i has a whole first line, and a good one.    *)
HasLine(s, n, i) == \E j \in i..n : s[j] = NL
GoodLine(s, i) == s[i] \in Targets /\ s[i + 1] = NL

(* The empty lines after its first line: the first of them ends its header.*)
Blanks(s, n, i) == {j \in i + 2..n : s[j - 1] = NL /\ s[j] = NL}
HeaderEnd(s, n, i) == Min(Blanks(s, n, i))

(* The header lines that start in i + 2..r, by their first tokens: the     *)
(* last Content-Length of a request counts, and any Connection: close.     *)
Lengths(s, i, r) == {j \in i + 2..r : s[j - 1] = NL /\ s[j] \in Nat}
ContentLength(s, i, r) == IF Lengths(s, i, r) = {} THEN 0 ELSE s[Max(Lengths(s, i, r))]
AsksToClose(s, i, r) == \E j \in i + 2..r : s[j - 1] = NL /\ s[j] = CloseLine

RequestEnd(s, n, i) == HeaderEnd(s, n, i) + ContentLength(s, i, HeaderEnd(s, n, i))
Whole(s, n, i) == Blanks(s, n, i) # {} /\ RequestEnd(s, n, i) <= n

(* Empty lines before a request are skipped.  The answer to a malformed    *)
(* request, to one that asks to close and to one that is cut off by the    *)
(* end of the stream is the last.                                          *)
HasNext(s, n, i) ==
  /\ HasLine(s, n, i)
  /\ s[i] # NL =>
       GoodLine(s, i) /\ Whole(s, n, i) /\ ~AsksToClose(s, i, HeaderEnd(s, n, i))

NextStart(s, n, i) == IF s[i] = NL THEN i + 1 ELSE RequestEnd(s, n, i) + 1

Refusal(s, i) ==
  IF s[i] = OtherMethod /\ s[i + 1] = NL THEN METHOD_NOT_ALLOWED ELSE BAD_REQUEST

Refused(status) == <<Header(status, 0, NoTarget)>>
Response(a, target) == <<Header(a.status, a.len, target)>> \o Body(a.len, target)

(* The answer to what starts at i, ended telling if nothing follows.       *)
Own(s, n, i, ended) ==
  CASE ~HasLine(s, n, i) \/ s[i] = NL -> <<>>
    [] HasLine(s, n, i) /\ s[i] # NL /\ ~GoodLine(s, i) -> Refused(Refusal(s, i))
    [] HasLine(s, n, i) /\ GoodLine(s, i) ->
         IF Whole(s, n, i) THEN Response(Answer[s[i]], s[i])
         ELSE IF ended THEN Refused(BAD_REQUEST) ELSE <<>>

AnswersFrom(s, n, ended) ==
  LET from[i \in 1..n + 1] ==
        Own(s, n, i, ended)
          \o IF HasNext(s, n, i) THEN from[NextStart(s, n, i)] ELSE <<>>
  IN from

Answers(s, n, ended) == AnswersFrom(s, n, ended)[1]

-----------------------------------------------------------------------------
(* What was told, a "100 Continue" left out. *)
Plain(units) ==
  LET plain[i \in 0..Len(units)] ==
        IF i = 0 THEN <<>>
        ELSE IF units[i] = Continue THEN plain[i - 1] ELSE Append(plain[i - 1], units[i])
  IN plain[Len(units)]

(* No more of the stream will come. *)
Ended == fin /\ pos = Len(sent)

Asked == Answers(sent, pos, Ended)
Told == Plain(got)

Session == INSTANCE BotzSession WITH asked <- Asked, told <- Told

(* One whole answer for each request, in order, whatever pieces the stream *)
(* arrives in and whatever pieces the socket takes.                        *)
ImplementsSession == Session!Spec

(* n_buf_fill gives up on a full buffer only if there is no complete       *)
(* request in it: "We may have left something behind in the request        *)
(* buffer, so we check it regardless of revents" (bc_io_cb) leaves none.   *)
NeverDropsComplete ==
  [][\A rev \in Revs : \A m \in Writes(rev) : CloseWhenFull(rev, m) =>
        Answers(sent, pos, FALSE) = Plain(got')]_vars
=============================================================================
