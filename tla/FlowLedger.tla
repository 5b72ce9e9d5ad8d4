----------------------------- MODULE FlowLedger -----------------------------
(***************************************************************************)
(* What xltop-master promises to the clients that query it, without        *)
(* pointers, timers or lazily made counters: an assignment of hosts to     *)
(* jobs and of jobs to clusters, and a total for every consumer and        *)
(* provider.  FlowTree implements it.                                      *)
(***************************************************************************)
EXTENDS Integers

CONSTANTS Hosts, Jobs, Clusters, U, V, NoNode, Servs, Filesystems, FsOf, Deltas

X0 == Hosts \cup Jobs \cup Clusters \cup {U}
X1 == Servs \cup Filesystems \cup {V}

VARIABLES
  jobOf,   \* the job of a host, NoNode before the host is first heard of
  clusOf,  \* the cluster of a job, NoNode while there is no such job
  total    \* the traffic counted for a consumer and a provider

vars == <<jobOf, clusOf, total>>

Init ==
  /\ jobOf \in [Hosts -> Jobs \cup {NoNode}]
  /\ clusOf \in [Jobs -> Clusters \cup {NoNode}]
  /\ \A h \in Hosts : jobOf[h] # NoNode => clusOf[jobOf[h]] # NoNode
  /\ total = [q \in X0 \X X1 |-> 0]

(* The scheduler, or the configuration, says that h runs job j; a job that *)
(* is not known yet belongs to the cluster that speaks of it.              *)
Place(h, j) ==
  /\ jobOf' = [jobOf EXCEPT ![h] = j]
  /\ clusOf' = clusOf \/ /\ clusOf[j] = NoNode
                         /\ \E c \in Clusters : clusOf' = [clusOf EXCEPT ![j] = c]
  /\ clusOf'[j] # NoNode

(* Who is charged for the traffic of h, who knows about that of s. *)
Charged(job, clus, h) == {h, job[h], clus[job[h]], U}
Informed(s) == {s, FsOf[s], V}

(* A server reports d for h, which may be heard of for the first time: one *)
(* count for everyone charged, and one only.                               *)
Report(h, s, d) ==
  /\ IF jobOf[h] = NoNode THEN \E j \in Jobs : Place(h, j)
                          ELSE UNCHANGED <<jobOf, clusOf>>
  /\ total' = [q \in X0 \X X1 |->
                 total[q] + (IF q \in Charged(jobOf', clusOf', h) \X Informed(s)
                             THEN d ELSE 0)]

(* A job nobody runs is forgotten with its own totals; those of its hosts  *)
(* and of its cluster stay.                                                *)
Retire(j) ==
  /\ \A h \in Hosts : jobOf[h] # j
  /\ clusOf' = [clusOf EXCEPT ![j] = NoNode]
  /\ total' = [q \in X0 \X X1 |-> IF q[1] = j THEN 0 ELSE total[q]]
  /\ UNCHANGED jobOf

Next ==
  \/ \E h \in Hosts, j \in Jobs : Place(h, j) /\ UNCHANGED total
  \/ \E h \in Hosts, s \in Servs, d \in Deltas : Report(h, s, d)
  \/ \E j \in Jobs : Retire(j)

Spec == Init /\ [][Next]_vars
=============================================================================
