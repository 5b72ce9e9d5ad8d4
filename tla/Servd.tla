------------------------------- MODULE Servd -------------------------------
(***************************************************************************)
(* The collector xltop-servd (servd.c) between the counters that Lustre    *)
(* keeps for each target and client nid in /proc, which go on counting     *)
(* while they are read, and the master, which adds up the differences it   *)
(* is sent.                                                                *)
(*                                                                         *)
(* clock_cb is one callback but it reads many files and makes two PUTs, so *)
(* its parts are actions between which Lustre may act.  A counter stands   *)
(* for one of the three of NR_STATS.                                       *)
(***************************************************************************)
EXTENDS Integers, FiniteSets

CONSTANTS
  Lxts, Nids,   \* names of targets and of client nids
  MaxTraffic,   \* bound on the traffic of a nid
  MaxFaults,    \* bound on exports and targets that go away and reads that fail
  MaxRestarts,  \* bound on restarts of the master
  PutMayFail,   \* whether a PUT may get lost, or its reply
  ReadMayFail,  \* whether read() of a stats file may fail
  Schedules,    \* what the master may be configured with for this server:
                \* <<s_interval, s_offset>>
  OwnSchedule   \* what servd starts with

Absent == -1    \* no export directory, or no entry in an l_hash_table
Idle == "idle"

ASSUME BoundsAssumption ==
  /\ MaxTraffic \in Nat /\ MaxFaults \in Nat /\ MaxRestarts \in Nat
  /\ PutMayFail \in BOOLEAN /\ ReadMayFail \in BOOLEAN
  /\ IsFiniteSet(Lxts) /\ IsFiniteSet(Nids) /\ Absent \notin Lxts
  /\ Schedules # {}

VARIABLES
  (* Lustre *)
  targets,  \* targets with a directory in /proc
  exp,      \* the counter in each export's stats file
  traffic,  \* all a nid has ever done, however its counters were reset
  faults,   \* how often something went away or could not be read
  misread,  \* history: whether a read() has failed
  (* servd *)
  pc,       \* the part of clock_cb that comes next
  known,    \* lxt_hash_table
  tmp,      \* tmp_list of collect_all
  todo,     \* targets the directory walk has not come to
  reading,  \* the lxt whose exports are read, with those not read yet
  ts,       \* l_hash_table of each lxt: ns_stats of a nid at its last read
  ns,       \* nid_hash_table: the difference of each nid in it
  cur,      \* the nids in it whose ns_time is now
  nrNid, nrLxt,  \* ss_nr_nid, and ss_nr_mdt + ss_nr_ost
  sched,    \* interval and offset of clock_w
  before,   \* history: ts when clock_cb began, until the differences are sent
  (* master *)
  restarts, \* how often it was restarted
  config,   \* s_interval and s_offset
  total     \* k_sum of each nid

lustre == <<targets, exp, traffic, faults, misread>>
servd == <<pc, known, tmp, todo, reading, ts, ns, cur, nrNid, nrLxt, sched, before>>
master == <<restarts, config, total>>
vars == <<lustre, servd, master>>

NoCounters == [l \in Lxts |-> [n \in Nids |-> Absent]]
NotReading == [lxt |-> Absent, nids |-> {}]

Outcomes(mayFail) == IF mayFail THEN BOOLEAN ELSE {TRUE}

-----------------------------------------------------------------------------
(* Lustre: a client reads or writes. *)
Traffic(l, n) ==
  /\ exp[l][n] # Absent /\ traffic[n] < MaxTraffic
  /\ exp' = [exp EXCEPT ![l][n] = @ + 1]
  /\ traffic' = [traffic EXCEPT ![n] = @ + 1]
  /\ UNCHANGED <<targets, faults, misread, servd, master>>

(* A client connects; the counters of a new export are zero. *)
ExportComes(l, n) ==
  /\ l \in targets /\ exp[l][n] = Absent
  /\ exp' = [exp EXCEPT ![l][n] = 0]
  /\ UNCHANGED <<targets, traffic, faults, misread, servd, master>>

ExportGoes(l, n) ==
  /\ exp[l][n] # Absent /\ faults < MaxFaults
  /\ exp' = [exp EXCEPT ![l][n] = Absent]
  /\ faults' = faults + 1
  /\ UNCHANGED <<targets, traffic, misread, servd, master>>

TargetComes(l) ==
  /\ l \notin targets
  /\ targets' = targets \cup {l}
  /\ UNCHANGED <<exp, traffic, faults, misread, servd, master>>

TargetGoes(l) ==
  /\ l \in targets /\ faults < MaxFaults
  /\ targets' = targets \ {l}
  /\ exp' = [exp EXCEPT ![l] = [n \in Nids |-> Absent]]
  /\ faults' = faults + 1
  /\ UNCHANGED <<traffic, misread, servd, master>>

-----------------------------------------------------------------------------
(* servd: clock_cb begins; collect_all sets every lxt aside. *)
ClockCb ==
  /\ pc = Idle
  /\ pc' = "collect"
  /\ tmp' = known /\ todo' = targets /\ cur' = {} /\ before' = ts
  /\ UNCHANGED <<lustre, known, reading, ts, ns, nrNid, nrLxt, sched, master>>

(* lxt_lookup of a directory the walk has come to, and the beginning of    *)
(* lxt_collect, which fails if the target has gone meanwhile.              *)
LxtLookup(l) ==
  /\ pc = "collect" /\ reading = NotReading /\ l \in todo
  /\ todo' = todo \ {l}
  /\ known' = known \cup {l}
  /\ nrLxt' = nrLxt + (IF l \in known THEN 0 ELSE 1)
  /\ reading' = IF l \in targets
                THEN [lxt |-> l, nids |-> {n \in Nids : exp[l][n] # Absent}] ELSE NotReading
  /\ UNCHANGED <<lustre, pc, tmp, ts, ns, cur, nrNid, sched, before, master>>

DifferenceKeepsOld(l, n, stats) ==
  [m \in DOMAIN ns \cup {n} |->
     IF m # n THEN ns[m]
     ELSE (IF n \in DOMAIN ns THEN ns[n] ELSE 0) + stats - ts[l][n]]

(* ns_stats of the nid starts from zero in each round. *)
Difference(l, n, stats) ==
  [m \in DOMAIN ns \cup {n} |->
     IF m # n THEN ns[m] ELSE (IF n \in cur THEN ns[n] ELSE 0) + stats - ts[l][n]]

BaselineKept(l, n, stats) ==
  [ts EXCEPT ![l][n] = IF @ = Absent THEN stats ELSE @]

Baseline(l, n, stats) == [ts EXCEPT ![l][n] = stats]

(* lxt_collect_nid once nid_stats_read has returned stats: the first read  *)
(* of a nid is only the baseline of the next.                              *)
LxtCollectNid(n, stats) ==
  LET l == reading.lxt IN
  /\ n \in reading.nids
  /\ reading' = [reading EXCEPT !.nids = @ \ {n}]
  /\ ts' = Baseline(l, n, stats)
  /\ ns' = IF ts[l][n] = Absent THEN ns ELSE Difference(l, n, stats)
  /\ cur' = IF ts[l][n] = Absent THEN cur ELSE cur \cup {n}
  /\ nrNid' = nrNid + (IF ts[l][n] = Absent \/ n \in DOMAIN ns THEN 0 ELSE 1)
  /\ UNCHANGED <<pc, known, tmp, todo, nrLxt, sched, before, master>>

ReadsNid(n) ==
  /\ reading # NotReading
  /\ exp[reading.lxt][n] # Absent
  /\ LxtCollectNid(n, exp[reading.lxt][n])
  /\ UNCHANGED lustre

(* read() fails.  nid_stats_read passes n_buf_fill err and eof in each     *)
(* other's place and so takes no notice: the counters it returns are zero. *)
ReadFails(n) ==
  /\ ReadMayFail /\ faults < MaxFaults
  /\ faults' = faults + 1 /\ misread' = TRUE
  /\ reading # NotReading
  /\ exp[reading.lxt][n] # Absent
  /\ LxtCollectNid(n, 0)
  /\ UNCHANGED <<targets, exp, traffic>>

(* nid_stats_read gives up, and nothing is changed: the file has gone      *)
(* since the directory was listed, or it is empty, having no counters yet; *)
(* then read() returns 0, which for want of order among err and eof is     *)
(* taken for an error.                                                     *)
ReadGivenUp(n) ==
  /\ reading # NotReading
  /\ n \in reading.nids
  /\ exp[reading.lxt][n] \in {Absent, 0}
  /\ reading' = [reading EXCEPT !.nids = @ \ {n}]
  /\ UNCHANGED <<lustre, pc, known, tmp, todo, ts, ns, cur, nrNid, nrLxt, sched,
                 before, master>>

(* lxt_collect returns and the lxt goes back to lxt_list. *)
LxtCollected ==
  /\ reading # NotReading /\ reading.nids = {}
  /\ tmp' = tmp \ {reading.lxt}
  /\ reading' = NotReading
  /\ UNCHANGED <<lustre, pc, known, todo, ts, ns, cur, nrNid, nrLxt, sched, before, master>>

(* lxt_delete of every lxt in tmp_list, with its l_hash_table. *)
Forget == [l \in Lxts |-> IF l \in tmp THEN [n \in Nids |-> Absent] ELSE ts[l]]

(* The end of collect_all: "Kill all lxt's we didn't just see." *)
KillUnseen ==
  /\ pc = "collect" /\ reading = NotReading /\ todo = {}
  /\ pc' = "send"
  /\ known' = known \ tmp
  /\ nrLxt' = nrLxt - Cardinality(tmp)
  /\ tmp' = {}
  /\ ts' = Forget
  /\ UNCHANGED <<lustre, todo, reading, ns, cur, nrNid, sched, before, master>>

StaleUncounted(nr) == nr

(* The entries print_stats deletes are counted off. *)
StaleDeleted(nr) == nr - Cardinality(DOMAIN ns \ cur)

(* print_stats and the PUT of /serv/NAME.  Whether it arrives or not, the  *)
(* differences are not sent again.                                         *)
SendStats ==
  /\ pc = "send"
  /\ pc' = "status"
  /\ before' = NoCounters
  /\ ns' = [n \in cur |-> ns[n]]
  /\ nrNid' = StaleDeleted(nrNid)
  /\ \E arrives \in Outcomes(PutMayFail) :
       total' = IF arrives THEN [n \in Nids |-> total[n] + (IF n \in cur THEN ns[n] ELSE 0)]
                           ELSE total
  /\ UNCHANGED <<lustre, known, tmp, todo, reading, ts, cur, nrLxt, sched, restarts, config>>

AdoptInterval(reply) ==
  sched' = IF sched[1] # reply[1] \/ sched[2] # reply[2]
           THEN <<reply[1], sched[2]>> ELSE sched

(* What clock_cb does with the two numbers of the reply. *)
Adopt(reply) ==
  sched' = IF sched[1] # reply[1] \/ sched[2] # reply[2] THEN reply ELSE sched

(* The PUT of /serv/NAME/_status, answered with the schedule. *)
StatusAnswered ==
  /\ pc = "status"
  /\ pc' = Idle
  /\ Adopt(config)
  /\ UNCHANGED <<lustre, known, tmp, todo, reading, ts, ns, cur, nrNid, nrLxt, before, master>>

(* The PUT or its reply gets lost, or the reply is an error; only the      *)
(* first is told apart, but there are no numbers in the body of an error.  *)
StatusUnanswered ==
  /\ pc = "status" /\ PutMayFail
  /\ pc' = Idle
  /\ UNCHANGED <<lustre, known, tmp, todo, reading, ts, ns, cur, nrNid, nrLxt, sched,
                 before, master>>

(* The master is started again with another configuration; what it had     *)
(* counted is gone.                                                        *)
MasterRestarts(c) ==
  /\ restarts < MaxRestarts /\ c # config
  /\ restarts' = restarts + 1
  /\ config' = c
  /\ total' = [n \in Nids |-> 0]
  /\ UNCHANGED <<lustre, servd>>

Init ==
  /\ targets \in SUBSET Lxts
  /\ exp = [l \in Lxts |-> [n \in Nids |-> Absent]]
  /\ traffic = [n \in Nids |-> 0] /\ faults = 0 /\ misread = FALSE
  /\ pc = Idle /\ known = {} /\ tmp = {} /\ todo = {} /\ reading = NotReading
  /\ ts = NoCounters
  /\ ns = [n \in {} |-> 0] /\ cur = {} /\ nrNid = 0 /\ nrLxt = 0
  /\ sched = OwnSchedule /\ before = NoCounters
  /\ restarts = 0 /\ config \in Schedules
  /\ total = [n \in Nids |-> 0]

Lustre ==
  \/ \E l \in Lxts, n \in Nids : Traffic(l, n) \/ ExportComes(l, n) \/ ExportGoes(l, n)
  \/ \E l \in Lxts : TargetComes(l) \/ TargetGoes(l)

Step ==
  \/ ClockCb
  \/ \E l \in Lxts : LxtLookup(l)
  \/ \E n \in Nids : ReadsNid(n) \/ ReadFails(n) \/ ReadGivenUp(n)
  \/ LxtCollected
  \/ KillUnseen
  \/ SendStats
  \/ StatusAnswered \/ StatusUnanswered

Next == Lustre \/ Step \/ \E c \in Schedules : MasterRestarts(c)

Spec == Init /\ [][Next]_vars

(* clock_w is periodic and the files of /proc can always be read.  It is   *)
(* assumed of the network that a PUT returns some day, lost or not, for    *)
(* curl_x_put sets no timeout, and that not every status PUT that is ever  *)
(* made gets lost.                                                         *)
FairSpec == Spec /\ WF_vars(Step) /\ SF_vars(StatusAnswered)

-----------------------------------------------------------------------------
(* The target that is being read is one servd knows, and every nid of this *)
(* round is in nid_hash_table.                                             *)
TypeOK ==
  /\ targets \subseteq Lxts
  /\ exp \in [Lxts -> [Nids -> Nat \cup {Absent}]]
  /\ traffic \in [Nids -> Nat]
  /\ pc \in {Idle, "collect", "send", "status"}
  /\ tmp \subseteq known /\ known \subseteq Lxts /\ todo \subseteq Lxts
  /\ reading = NotReading \/ (reading.lxt \in known /\ reading.nids \subseteq Nids)
  /\ ts \in [Lxts -> [Nids -> Nat \cup {Absent}]]
  /\ ns \in [DOMAIN ns -> Int] /\ cur \subseteq DOMAIN ns /\ DOMAIN ns \subseteq Nids
  /\ sched \in Schedules \cup {OwnSchedule} /\ config \in Schedules
  /\ total \in [Nids -> Int]

(* The master never counts more than a client did, whichever exports are   *)
(* reset, targets restarted or PUTs lost between any two steps, unless a   *)
(* read() has failed (see BaselineWasRead).                                *)
NeverOvercounts == ~misread => \A n \in Nids : total[n] <= traffic[n]

(* The units of traffic that the counters of a nid have in the table b and *)
(* not in a, over all targets that have one in both.                       *)
Gains(a, b, n) ==
  UNION {{l} \X (a[l][n] + 1..b[l][n]) :
           l \in {k \in Lxts : a[k][n] # Absent /\ b[k][n] # Absent}}

(* What a round sends for a nid is what its counters have gone up by since *)
(* the last, less what they have gone down by, over all targets that were  *)
(* there both times.                                                       *)
DeltaExact ==
  pc = "send" =>
    \A n \in Nids : (IF n \in cur THEN ns[n] ELSE 0) =
      Cardinality(Gains(before, ts, n)) - Cardinality(Gains(ts, before, n))

(* The numbers servd reports of its own tables (ss_nr_nid, ss_nr_mdt and   *)
(* ss_nr_ost) are those of the tables, though entries come and go at       *)
(* different ends of the round.                                            *)
StatusCounts == nrNid = Cardinality(DOMAIN ns) /\ nrLxt = Cardinality(known)

(* A baseline is a value that the file really held.                        *)
BaselineWasRead ==
  [][\A l \in Lxts, n \in Nids : ts'[l][n] \in {ts[l][n], Absent, exp[l][n]}]_vars

(* Traffic that can be seen is picked up: the baseline catches up with the *)
(* file, unless the export or the lxt goes away.                           *)
CatchesUp ==
  \A l \in Lxts, n \in Nids, k \in 1..MaxTraffic :
    ts[l][n] \in 0..k - 1 /\ exp[l][n] >= k
      ~> ts[l][n] >= k \/ ts[l][n] = Absent \/ exp[l][n] < k

(* Whichever replies get lost and however often the master is restarted    *)
(* with another schedule, servd ends up with the one the master has:       *)
(* clock_cb takes over both numbers, and errors and losses change nothing. *)
SettlesOnSchedule == <>[](sched = config)
=============================================================================
