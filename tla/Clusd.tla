------------------------------- MODULE Clusd -------------------------------
(***************************************************************************)
(* qhost_j_filter (clusd.c), which turns the output of `qhost -j' into the *)
(* lines of a PUT to /clus/NAME.  A line of the input is a real host, a    *)
(* host without cpus ("bogus"), a running job, or any other indented or    *)
(* ruled line.  The filter keeps two line buffers, and the name of the     *)
(* current host is a pointer into one of them.  The names of the           *)
(* specification carry Filter, so that CollectorProofs has it beside Servd.*)
(***************************************************************************)
EXTENDS Integers, Sequences, SequencesExt

CONSTANTS
  Hosts, JobIds,  \* names of hosts and of jobs
  MaxLines        \* bound on the lines of the input

ASSUME MaxLinesAssumption == MaxLines \in Nat

Null == -1
IDLE_JOBID == "IDLE"

Lines ==
  {<<"host", x>> : x \in Hosts} \cup {<<"bogus", x>> : x \in Hosts}
  \cup {<<"job", j>> : j \in JobIds} \cup {<<"other", "">>}

Alpha(l) == l[1] \in {"host", "bogus"}

VARIABLES
  read,   \* history: the lines that getline has returned
  buf,    \* line[0] and line[1]
  i,      \* the buffer in use
  host,   \* the buffer that host points into, or Null
  found,  \* found_job
  inner,  \* whether the loop over a host's jobs is running
  out,    \* what has been written: pairs of a host and a job
  done

filterVars == <<read, buf, i, host, found, inner, out, done>>

More(l) == ~done /\ Len(read) < MaxLines /\ read' = Append(read, l)

AgainKeepsFound(l, b) ==
  /\ i' = b
  /\ host' = IF l[1] = "host" THEN b ELSE Null
  /\ inner' = (l[1] = "host")
  /\ UNCHANGED <<found, done>>

(* From the label "again" on, for the line l in buffer b. *)
Again(l, b) ==
  /\ i' = b
  /\ host' = IF l[1] = "host" THEN b ELSE Null
  /\ inner' = (l[1] = "host")
  /\ found' = (found /\ l[1] # "host")
  /\ UNCHANGED done

(* A line is read while there is no current host. *)
OuterLine(l) ==
  /\ ~inner /\ More(l)
  /\ buf' = [buf EXCEPT ![i] = l]
  /\ IF Alpha(l) THEN Again(l, i) ELSE UNCHANGED <<i, host, found, inner, done>>
  /\ UNCHANGED out

(* The buffer that is read into while there is a current host. *)
Other == 1 - i

(* The line after a host, or after one of its jobs, is the next host. *)
InnerHost(l) ==
  /\ inner /\ More(l) /\ Alpha(l)
  /\ buf' = [buf EXCEPT ![Other] = l]
  /\ out' = IF found THEN out ELSE Append(out, <<buf'[host][2], IDLE_JOBID>>)
  /\ Again(l, Other)

InnerOther(l) ==
  /\ inner /\ More(l) /\ ~Alpha(l)
  /\ buf' = [buf EXCEPT ![Other] = l]
  /\ out' = IF l[1] = "job" THEN Append(out, <<buf'[host][2], l[2]>>) ELSE out
  /\ found' = (found \/ l[1] = "job")
  /\ UNCHANGED <<i, host, inner, done>>

(* getline finds the end of the input, in either loop. *)
Eof ==
  /\ ~done /\ done' = TRUE
  /\ UNCHANGED <<read, buf, i, host, found, inner, out>>

FilterInit ==
  /\ read = <<>> /\ buf = [b \in 0..1 |-> <<"other", "">>] /\ i = 0 /\ host = Null
  /\ found = FALSE /\ inner = FALSE /\ out = <<>> /\ done = FALSE

FilterNext ==
  \/ \E l \in Lines : OuterLine(l) \/ InnerHost(l) \/ InnerOther(l)
  \/ Eof

FilterSpec == FilterInit /\ [][FilterNext]_filterVars

-----------------------------------------------------------------------------
(* The host that is current in the loop over jobs is the one whose line    *)
(* was kept: host and i name the same buffer.                              *)
FilterTypeOK ==
  /\ read \in Seq(Lines) /\ buf \in [0..1 -> Lines] /\ i \in 0..1
  /\ host \in {i, Null} /\ (inner <=> host # Null)
  /\ found \in BOOLEAN /\ done \in BOOLEAN
  /\ out \in Seq(Hosts \X (JobIds \cup {IDLE_JOBID}))

(* The last host line before line q, real or bogus. *)
Above(q) == LET A == {p \in 1..q - 1 : Alpha(read[p])} IN
            IF A = {} THEN <<"bogus", "">> ELSE read[Max(A)]

HasJob(q) == \E r \in 1..q - 1 :
               /\ read[r][1] = "job"
               /\ \A s \in r..q - 1 : ~Alpha(read[s])

(* What line q adds to the output of an ideal filter: a running job is the *)
(* job of the host above it, and a host line ends an idle host.            *)
Due(q) ==
  LET h == Above(q) IN
  CASE h[1] = "host" /\ read[q][1] = "job" -> << <<h[2], read[q][2]>> >>
    [] h[1] = "host" /\ Alpha(read[q]) /\ ~HasJob(q) -> << <<h[2], IDLE_JOBID>> >>
    [] OTHER -> <<>>

(* Every job is written with the host it is listed under, and a host is    *)
(* called idle only if no job is listed under it, though the name of the   *)
(* host is a pointer into a buffer that is swapped and written over.       *)
FilterExact == out = FlattenSeq([q \in 1..Len(read) |-> Due(q)])

(* "Our output: HOST.DOMAIN JOBID@CLUSTER ... Or if host is idle:          *)
(* HOST.DOMAIN" (clusd.c): no real host is left out.                       *)
EveryHostWritten ==
  done => \A q \in 1..Len(read) : read[q][1] = "host" =>
            \E o \in 1..Len(out) : out[o][1] = read[q][2]
=============================================================================
