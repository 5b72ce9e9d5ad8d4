------------------------------ MODULE XlClient ------------------------------
(***************************************************************************)
(* The caches of the client (xltop.c).  At start it makes an entry for     *)
(* each filesystem and each cluster the master lists.  An entry's periodic *)
(* watcher polls the master: a cluster for the job of each of its hosts, a *)
(* filesystem for the status of its servers.  When the screen is drawn the *)
(* rows of /top are resolved against these caches (k_get_job), so a row    *)
(* can meet a cache that is older or newer than itself.                    *)
(*                                                                         *)
(* The client has one thread and blocks in each GET: a callback is a step, *)
(* and the master may go through any number of its own in between.         *)
(* Owner, title, start and the number of hosts of a job are copied when it *)
(* is first listed and never again; they are left out here.                *)
(***************************************************************************)
EXTENDS Integers, FiniteSets, FiniteSetsExt

CONSTANTS
  Hosts, Jobs, Clusters,     \* names; the client makes entries as it meets them
  Servs, Filesystems,
  ClusOf,                    \* the cluster a job belongs to at the master
  FsOf,                      \* the filesystem of a server
  Statuses,                  \* what a server may report of itself
  Bucket,                    \* the hash chain of the name of a filesystem or cluster
  Periodic,                  \* the clusters whose interval is not zero
  GetMayFail,                \* whether a GET may fail
  NoJob, Freed

Status == [mdt : Nat, ost : Nat, nid : Nat, load : Nat, task : Nat]

ASSUME NamesAssumption ==
  /\ ClusOf \in [Jobs -> Clusters] /\ FsOf \in [Servs -> Filesystems]
  /\ NoJob \notin Jobs \cup {Freed} /\ Freed \notin Jobs
  /\ Hosts \cap Jobs = {} /\ Filesystems \cap Clusters = {}
  /\ DOMAIN Bucket = Filesystems \cup Clusters /\ Periodic \subseteq Clusters
  /\ IsFiniteSet(Servs) /\ Statuses \subseteq Status /\ GetMayFail \in BOOLEAN

Silent == [mdt |-> 0, ost |-> 0, nid |-> 0, load |-> 0, task |-> 0]

VARIABLES
  jobAt, status, \* the master: the job of each host, the s_status of each server
  pc, todo,      \* where main is, and the names it has yet to add
  table,         \* the filesystems and clusters in xl_hash_table
  watched,       \* those of them that have a watcher
  fed,           \* the watchers that have a pending event from ev_feed_event
  jobList,       \* c_job_list of each cluster; together, the jobs that exist
  hJob, dangling,\* the job h_job was set to, and the hosts whose h_job is freed
  totals,        \* the fields of each xl_fs
  last, fsLast   \* history: the last reply of each cluster and filesystem

master == <<jobAt, status>>
startup == <<pc, todo, table, watched>>
jobs == <<jobList, hJob, dangling, last>>
filesystems == <<totals, fsLast>>
vars == <<master, startup, fed, jobs, filesystems>>

-----------------------------------------------------------------------------
(* The master. *)

(* A line of a PUT to /clus/NAME moves a host to a job, of any cluster; a  *)
(* host that is known stays known.  FlowTree has what this does there.     *)
HostMoves(h, j) ==
  /\ jobAt[h] # j
  /\ jobAt' = [jobAt EXCEPT ![h] = j]
  /\ UNCHANGED <<status, startup, fed, jobs, filesystems>>

(* A PUT to /serv/NAME/_status; until the first one it is all zeros.       *)
ServReports(s, st) ==
  /\ status[s] # st
  /\ status' = [status EXCEPT ![s] = st]
  /\ UNCHANGED <<jobAt, startup, fed, jobs, filesystems>>

(* The body of GET /clus/NAME: a line for each host of each of its jobs.   *)
ClusGet(c) ==
  {<<h, jobAt[h]>> : h \in {g \in Hosts : jobAt[g] # NoJob /\ ClusOf[jobAt[g]] = c}}

(* The body of GET /fs/NAME/_status: a line for each of its servers.       *)
FsStatusGet(f) == {<<s, status[s]>> : s \in {t \in Servs : FsOf[t] = f}}

(* curl_x_get_iter: what the callback is called for; nothing if it fails.  *)
Replies(body) == {body} \cup (IF GetMayFail THEN {{}} ELSE {})

-----------------------------------------------------------------------------
(* Start: xl_fs_init, then xl_clus_init. *)

ChainedToNone(x, names) == FALSE

Chained(x, names) == \E y \in names : Bucket[y] = Bucket[x]

(* A new entry goes to the head of its chain.  The test for one that was   *)
(* there before is whether its next is set, and so a new one in a chain    *)
(* that is not empty is taken for old and gets no watcher.                 *)
AddsEntry(x, names) ==
  /\ x \in todo
  /\ todo' = todo \ {x}
  /\ table' = table \cup {x}
  /\ watched' = IF Chained(x, table \cap names) THEN watched ELSE watched \cup {x}
  /\ fed' = fed \cup (watched' \ watched)
  /\ UNCHANGED <<pc, master, jobs, filesystems>>

XlFsAdd(f) == pc = "fs" /\ AddsEntry(f, Filesystems)

XlClusAdd(c) == pc = "clus" /\ AddsEntry(c, Clusters)

XlFsInitDone ==
  /\ pc = "fs" /\ todo = {}
  /\ pc' = "clus" /\ todo' = Clusters
  /\ UNCHANGED <<table, watched, fed, master, jobs, filesystems>>

XlClusInitDone ==
  /\ pc = "clus" /\ todo = {}
  /\ pc' = "run"
  /\ UNCHANGED <<todo, table, watched, fed, master, jobs, filesystems>>

(* A list or the _info of a cluster cannot be read: main gives up.         *)
StartFails ==
  /\ GetMayFail /\ pc \in {"fs", "clus"}
  /\ pc' = "exit"
  /\ UNCHANGED <<todo, table, watched, fed, master, jobs, filesystems>>

-----------------------------------------------------------------------------
(* Callbacks. *)

(* A watcher is called when its event is fed and then at each interval;    *)
(* if that is zero, fmod(c_off + 1, c_int) is NaN, a time that never comes.*)
Runs(w) == pc = "run" /\ (w \in fed \/ (w \in watched /\ w \in Periodic \cup Filesystems))

(* What a poll of c leaves: these jobs, made or moved to its list, with    *)
(* the others freed, and these hosts set to the job the reply gives them.  *)
JobsUpdated(c, reply, hosts, kept) ==
  /\ jobList' = [jobList EXCEPT ![c] = kept]
  /\ hJob' = [h \in Hosts |-> IF h \in hosts THEN jobAt[h] ELSE hJob[h]]
  /\ dangling' = (dangling \ hosts) \cup {h \in Hosts : hJob'[h] \in jobList[c] \ kept}
  /\ last' = [last EXCEPT ![c] = reply]

HostsOf(reply) == {l[1] : l \in reply}

JobsOf(reply) == {l[2] : l \in reply}

XlClusCbSetsHostsOfNewJobs(c) ==
  /\ Runs(c) /\ fed' = fed \ {c}
  /\ \E reply \in Replies(ClusGet(c)) :
       JobsUpdated(c, reply, HostsOf({l \in reply : l[2] \notin jobList[c]}), JobsOf(reply))
  /\ UNCHANGED <<master, startup, filesystems>>

XlClusCbMovesNewJobs(c) ==
  /\ Runs(c) /\ fed' = fed \ {c}
  /\ \E reply \in Replies(ClusGet(c)) :
       JobsUpdated(c, reply, HostsOf(reply), JobsOf(reply) \ jobList[c])
  /\ UNCHANGED <<master, startup, filesystems>>

(* xl_clus_cb with xl_clus_msg_cb for each line of the reply: all its jobs *)
(* are kept and all its hosts set.                                         *)
XlClusCb(c) ==
  /\ Runs(c) /\ fed' = fed \ {c}
  /\ \E reply \in Replies(ClusGet(c)) :
       JobsUpdated(c, reply, HostsOf(reply), JobsOf(reply))
  /\ UNCHANGED <<master, startup, filesystems>>

XlFsZero == [nr_mds |-> 0, nr_mdt |-> 0, mds_load |-> 0, max_mds_task |-> 0,
             nr_oss |-> 0, nr_ost |-> 0, oss_load |-> 0, max_oss_task |-> 0, nr_nid |-> 0]

Greater(m, n) == IF m > n THEN m ELSE n

(* A server with an MDT counts as an MDS, one with OSTs only as an OSS.    *)
XlFsMsgCb(f, ss) ==
  LET g == [f EXCEPT !.nr_mdt = @ + ss.mdt, !.nr_ost = @ + ss.ost, !.nr_nid = Greater(@, ss.nid)]
  IN IF ss.mdt > 0
     THEN [g EXCEPT !.nr_mds = @ + 1, !.mds_load = Greater(@, ss.load),
                    !.max_mds_task = Greater(@, ss.task)]
     ELSE IF ss.ost > 0
     THEN [g EXCEPT !.nr_oss = @ + 1, !.oss_load = Greater(@, ss.load),
                    !.max_oss_task = Greater(@, ss.task)]
     ELSE g

XlFsCbNoReset(f) ==
  /\ Runs(f) /\ fed' = fed \ {f}
  /\ \E reply \in Replies(FsStatusGet(f)) :
       /\ totals' = [totals EXCEPT
                       ![f] = FoldSet(LAMBDA l, t : XlFsMsgCb(t, l[2]), @, reply)]
       /\ fsLast' = [fsLast EXCEPT ![f] = reply]
  /\ UNCHANGED <<master, startup, jobs>>

(* xl_fs_cb clears all fields before the GET and adds up what it returns.  *)
XlFsCb(f) ==
  /\ Runs(f) /\ fed' = fed \ {f}
  /\ \E reply \in Replies(FsStatusGet(f)) :
       /\ totals' = [totals EXCEPT
                       ![f] = FoldSet(LAMBDA l, t : XlFsMsgCb(t, l[2]), XlFsZero, reply)]
       /\ fsLast' = [fsLast EXCEPT ![f] = reply]
  /\ UNCHANGED <<master, startup, jobs>>

(* The job that a row of /top is shown with, as a host or as a job.        *)
KGetJob(x) ==
  IF x \in Hosts
  THEN IF x \in dangling THEN Freed ELSE hJob[x]
  ELSE IF x \in UNION {jobList[c] : c \in Clusters} THEN x ELSE NoJob

Init ==
  /\ jobAt = [h \in Hosts |-> NoJob] /\ status = [s \in Servs |-> Silent]
  /\ pc = "fs" /\ todo = Filesystems
  /\ table = {} /\ watched = {} /\ fed = {}
  /\ jobList = [c \in Clusters |-> {}]
  /\ hJob = [h \in Hosts |-> NoJob] /\ dangling = {}
  /\ last = [c \in Clusters |-> {}]
  /\ totals = [f \in Filesystems |-> XlFsZero] /\ fsLast = [f \in Filesystems |-> {}]

Next ==
  \/ \E h \in Hosts, j \in Jobs : HostMoves(h, j)
  \/ \E s \in Servs, st \in Statuses : ServReports(s, st)
  \/ \E f \in Filesystems : XlFsAdd(f) \/ XlFsCb(f)
  \/ \E c \in Clusters : XlClusAdd(c) \/ XlClusCb(c)
  \/ XlFsInitDone \/ XlClusInitDone \/ StartFails

Spec == Init /\ [][Next]_vars

-----------------------------------------------------------------------------
(* Jobs are in the list of their own cluster, and only entries that exist  *)
(* are polled.                                                             *)
TypeOK ==
  /\ jobAt \in [Hosts -> Jobs \cup {NoJob}] /\ hJob \in [Hosts -> Jobs \cup {NoJob}]
  /\ status \in [Servs -> Statuses \cup {Silent}]
  /\ pc \in {"fs", "clus", "run", "exit"}
  /\ todo \subseteq Filesystems \cup Clusters /\ todo \cap table = {}
  /\ fed \subseteq watched /\ watched \subseteq table /\ table \subseteq Filesystems \cup Clusters
  /\ \A c \in Clusters : jobList[c] \subseteq {j \in Jobs : ClusOf[j] = c}
  /\ dangling \subseteq {h \in Hosts : hJob[h] # NoJob}

(* A row is shown with a job that was freed only for a host that the last  *)
(* reply of the job's cluster left out: it failed, or the host has gone to *)
(* another cluster.  Hosts that change jobs in a cluster are safe, however *)
(* their moves and the polls interleave (xl_clus_cb sets h_job of all      *)
(* hosts before it frees a job).                                           *)
FreedOnlyIfUnlisted ==
  \A h \in Hosts :
    KGetJob(h) = Freed => \A j \in Jobs : <<h, j>> \notin last[ClusOf[hJob[h]]]

(* The client has the jobs of the last replies and no others: what is not  *)
(* listed does not stay, what is listed is not freed with the rest; and a  *)
(* host has one of these jobs unless it is one of those above.             *)
KeepsListedJobs ==
  /\ \A j \in Jobs : KGetJob(j) = j <=> \E h \in Hosts : <<h, j>> \in last[ClusOf[j]]
  /\ \A h \in Hosts : KGetJob(h) \in {NoJob, Freed} \/ KGetJob(KGetJob(h)) = KGetJob(h)

Greatest(S) == IF S = {} THEN 0 ELSE Max(S)

(* The line of a filesystem shows what the last reply says, with no trace  *)
(* of the one before: the servers of each kind, their greatest load and    *)
(* tasks, all targets and the greatest number of nids.                     *)
FsShowsLastReply ==
  \A f \in Filesystems :
    LET mds == {l \in fsLast[f] : l[2].mdt > 0}
        oss == {l \in fsLast[f] : l[2].mdt = 0 /\ l[2].ost > 0}
    IN /\ totals[f].nr_mds = Cardinality(mds) /\ totals[f].nr_oss = Cardinality(oss)
       /\ totals[f].nr_mdt = MapThenSumSet(LAMBDA l : l[2].mdt, fsLast[f])
       /\ totals[f].nr_ost = MapThenSumSet(LAMBDA l : l[2].ost, fsLast[f])
       /\ totals[f].mds_load = Greatest({l[2].load : l \in mds})
       /\ totals[f].oss_load = Greatest({l[2].load : l \in oss})
       /\ totals[f].max_mds_task = Greatest({l[2].task : l \in mds})
       /\ totals[f].max_oss_task = Greatest({l[2].task : l \in oss})
       /\ totals[f].nr_nid = Greatest({l[2].nid : l \in fsLast[f]})

(* Of the names added so far that share a hash chain exactly one is        *)
(* watched, and when the client runs all have been added.  The first of a  *)
(* chain, alone when it comes, is thus the one; those put in front of it   *)
(* later are in the tables and never polled nor shown.                     *)
OneWatchedPerChain ==
  /\ watched \subseteq table
  /\ \A names \in {Filesystems, Clusters} :
       /\ pc = "run" => names \subseteq table
       /\ \A x \in names \cap table :
            Cardinality({y \in names \cap watched : Bucket[y] = Bucket[x]}) = 1
=============================================================================
