--------------------------- MODULE XlClientProofs ---------------------------
(***************************************************************************)
(* Theorems about the caches of the client, for any hosts, jobs, clusters  *)
(* and filesystems and any hash function of their names.                   *)
(***************************************************************************)
EXTENDS XlClient, FiniteSetTheorems, TLAPS

-----------------------------------------------------------------------------
(* Hash chains. *)

Chain(x, names) == {y \in names \cap watched : Bucket[y] = Bucket[x]}

(* main adds all filesystems and then all clusters. *)
AddedInOrder ==
  /\ table \subseteq Filesystems \cup Clusters /\ watched \subseteq table
  /\ pc = "fs" => todo = Filesystems \ table /\ table \subseteq Filesystems
  /\ pc = "clus" => todo = Clusters \ table /\ Filesystems \subseteq table
  /\ pc = "run" => Filesystems \cup Clusters \subseteq table

(* Each chain has had its one watcher since its first name came.           *)
FirstWatched ==
  \A names \in {Filesystems, Clusters} : \A x \in names \cap table :
    \E w \in names : Chain(x, names) = {w}

ChainInv == AddedInOrder /\ FirstWatched

LEMMA InitChain == Init => ChainInv
BY DEF Init, ChainInv, AddedInOrder, FirstWatched

(* The first name of a chain gets the watcher, the others find it there.   *)
LEMMA AddKeepsChain ==
  ASSUME ChainInv, NEW names \in {Filesystems, Clusters}, NEW x \in names,
         pc = IF names = Filesystems THEN "fs" ELSE "clus", AddsEntry(x, names)
  PROVE  ChainInv'
<1>1. /\ table' = table \cup {x} /\ todo' = todo \ {x} /\ x \notin table /\ pc' = pc
      /\ watched' = IF Chained(x, table \cap names) THEN watched ELSE watched \cup {x}
  BY DEF AddsEntry, ChainInv, AddedInOrder
<1>2. AddedInOrder'
  BY <1>1, NamesAssumption DEF ChainInv, AddedInOrder
<1>3. FirstWatched'
  <2>1. SUFFICES ASSUME NEW ms \in {Filesystems, Clusters}, NEW y \in ms \cap table'
                 PROVE  \E w \in ms : Chain(y, ms)' = {w}
    BY DEF FirstWatched
  <2>2. CASE ms # names
    <3>1. x \notin ms
      BY <2>2, NamesAssumption
    <3>2. y \in ms \cap table /\ Chain(y, ms)' = Chain(y, ms)
      BY <1>1, <2>1, <3>1 DEF Chain
    <3>3. QED
      BY <3>2 DEF ChainInv, FirstWatched
  <2>3. CASE ms = names /\ Chained(x, table \cap names)
    <3>1. \A z : Chain(z, names)' = Chain(z, names)
      BY <1>1, <2>3 DEF Chain
    <3>2. PICK z \in table \cap names : Bucket[z] = Bucket[x]
      BY <2>3 DEF Chained
    <3>3. Chain(x, names) = Chain(z, names)
      BY <3>2 DEF Chain
    <3>4. y \in names \cap table \/ y = x
      BY <1>1, <2>1, <2>3
    <3>5. QED
      BY <2>3, <3>1, <3>2, <3>3, <3>4 DEF ChainInv, FirstWatched
  <2>4. CASE ms = names /\ ~Chained(x, table \cap names)
    <3>1. watched' = watched \cup {x}
      BY <1>1, <2>4
    <3>2. \A z \in table \cap names : Bucket[z] # Bucket[x]
      BY <2>4 DEF Chained
    <3>3. CASE y = x
      <4>1. Chain(x, names)' = {x}
        BY <3>1, <3>2 DEF Chain, ChainInv, AddedInOrder
      <4>2. QED
        BY <2>4, <3>3, <4>1
    <3>4. CASE y # x
      <4>1. y \in table \cap names
        BY <1>1, <2>1, <2>4, <3>4
      <4>2. Chain(y, names)' = Chain(y, names)
        BY <3>1, <3>2, <4>1 DEF Chain
      <4>3. QED
        BY <2>4, <4>1, <4>2 DEF ChainInv, FirstWatched
    <3>5. QED
      BY <3>3, <3>4
  <2>5. QED
    BY <2>2, <2>3, <2>4
<1>4. QED
  BY <1>2, <1>3 DEF ChainInv

LEMMA NextChain == ChainInv /\ [Next]_vars => ChainInv'
<1>1. SUFFICES ASSUME ChainInv, [Next]_vars
               PROVE  ChainInv'
  OBVIOUS
<1>2. ASSUME NEW f \in Filesystems, XlFsAdd(f)
      PROVE  ChainInv'
  BY <1>1, <1>2, AddKeepsChain DEF XlFsAdd
<1>3. ASSUME NEW c \in Clusters, XlClusAdd(c)
      PROVE  ChainInv'
  <2>1. Filesystems # Clusters
    BY <1>3, NamesAssumption
  <2>2. QED
    BY <1>1, <1>3, <2>1, AddKeepsChain DEF XlClusAdd
<1>4. ASSUME XlFsInitDone \/ XlClusInitDone \/ StartFails
      PROVE  ChainInv'
  <2>1. UNCHANGED <<table, watched>>
    BY <1>4 DEF XlFsInitDone, XlClusInitDone, StartFails
  <2>2. FirstWatched'
    BY <1>1, <2>1 DEF ChainInv, FirstWatched, Chain
  <2>3. AddedInOrder'
    <3>1. CASE XlFsInitDone
      BY <1>1, <2>1, <3>1, NamesAssumption DEF ChainInv, AddedInOrder, XlFsInitDone
    <3>2. CASE XlClusInitDone
      BY <1>1, <2>1, <3>2 DEF ChainInv, AddedInOrder, XlClusInitDone
    <3>3. CASE StartFails
      BY <1>1, <2>1, <3>3 DEF ChainInv, AddedInOrder, StartFails
    <3>4. QED
      BY <1>4, <3>1, <3>2, <3>3
  <2>4. QED
    BY <2>2, <2>3 DEF ChainInv
<1>5. ASSUME UNCHANGED startup
      PROVE  ChainInv'
  BY <1>1, <1>5 DEF startup, ChainInv, AddedInOrder, FirstWatched, Chain
<1>6. QED
  BY <1>1, <1>2, <1>3, <1>4, <1>5 DEF Next, HostMoves, ServReports, XlFsCb, XlClusCb, vars

(* At every moment of the start and ever after exactly one of the names    *)
(* added to a hash chain is polled, and it stays the same one: the first,  *)
(* which was alone.  xl_fs_add and xl_clus_add put each later name in      *)
(* front of it, take it for one they had before and start no watcher.      *)
THEOREM OneAlwaysWatchedPerChain ==
  Spec => []OneWatchedPerChain /\ [][watched \subseteq watched']_vars
<1>1. ChainInv => OneWatchedPerChain
  <2>1. SUFFICES ASSUME ChainInv, NEW names \in {Filesystems, Clusters}, NEW x \in names \cap table
                 PROVE  Cardinality(Chain(x, names)) = 1
    BY DEF OneWatchedPerChain, Chain, ChainInv, AddedInOrder
  <2>2. PICK w \in names : Chain(x, names) = {w}
    BY <2>1 DEF ChainInv, FirstWatched
  <2>3. QED
    BY <2>2, FS_Singleton
<1>2. [Next]_vars => watched \subseteq watched'
  <2>1. SUFFICES ASSUME [Next]_vars
                 PROVE  watched \subseteq watched'
    OBVIOUS
  <2>2. CASE (\E f \in Filesystems : XlFsAdd(f)) \/ (\E c \in Clusters : XlClusAdd(c))
    BY <2>2 DEF XlFsAdd, XlClusAdd, AddsEntry
  <2>3. CASE XlFsInitDone \/ XlClusInitDone \/ StartFails
    BY <2>3 DEF XlFsInitDone, XlClusInitDone, StartFails
  <2>4. CASE UNCHANGED startup
    BY <2>4 DEF startup
  <2>5. QED
    BY <2>1, <2>2, <2>3, <2>4 DEF Next, HostMoves, ServReports, XlFsCb, XlClusCb, vars
<1>3. QED
  BY <1>1, <1>2, InitChain, NextChain, PTL DEF Spec

-----------------------------------------------------------------------------
(* Jobs. *)

(* A reply lists hosts in jobs of the cluster it is about.                 *)
ListsOf(c) == {l \in Hosts \X Jobs : ClusOf[l[2]] = c}

(* The jobs there are, are those of the last replies. *)
ListsAgree ==
  /\ jobAt \in [Hosts -> Jobs \cup {NoJob}] /\ hJob \in [Hosts -> Jobs \cup {NoJob}]
  /\ last \in [Clusters -> SUBSET (Hosts \X Jobs)]
  /\ jobList \in [Clusters -> SUBSET Jobs]
  /\ \A c \in Clusters : last[c] \subseteq ListsOf(c) /\ jobList[c] = JobsOf(last[c])

(* h_job is freed only if the last reply of its cluster did not have the   *)
(* host, and is otherwise in the list of that cluster.                     *)
PointsToListed ==
  \A h \in Hosts : hJob[h] # NoJob =>
    IF h \in dangling
    THEN \A j \in Jobs : <<h, j>> \notin last[ClusOf[hJob[h]]]
    ELSE hJob[h] \in jobList[ClusOf[hJob[h]]]

NoneDangles == \A h \in Hosts : hJob[h] = NoJob => h \notin dangling

CacheInv == ListsAgree /\ PointsToListed /\ NoneDangles

(* A GET of a cluster answers with its jobs and with the job of each host, *)
(* or with nothing.                                                        *)
LEMMA RepliesList ==
  ASSUME ListsAgree, NEW c \in Clusters, NEW reply \in Replies(ClusGet(c))
  PROVE  /\ reply \subseteq ListsOf(c) /\ JobsOf(reply) \subseteq {j \in Jobs : ClusOf[j] = c}
         /\ \A h \in Hosts : h \in HostsOf(reply) =>
              jobAt[h] \in Jobs /\ ClusOf[jobAt[h]] = c /\ jobAt[h] \in JobsOf(reply)
         /\ \A h \in Hosts, j \in Jobs : <<h, j>> \in reply => h \in HostsOf(reply)
<1>1. \A l \in reply : /\ l = <<l[1], jobAt[l[1]]>>
                       /\ l[1] \in Hosts /\ jobAt[l[1]] \in Jobs /\ ClusOf[jobAt[l[1]]] = c
  <2>1. SUFFICES ASSUME NEW l \in ClusGet(c)
                 PROVE  /\ l = <<l[1], jobAt[l[1]]>>
                        /\ l[1] \in Hosts /\ jobAt[l[1]] \in Jobs /\ ClusOf[jobAt[l[1]]] = c
    BY DEF Replies
  <2>2. PICK h \in Hosts : l = <<h, jobAt[h]>> /\ jobAt[h] # NoJob /\ ClusOf[jobAt[h]] = c
    BY DEF ClusGet
  <2>3. QED
    BY <2>2 DEF ListsAgree
<1>2. reply \subseteq ListsOf(c)
  BY <1>1 DEF ListsOf
<1>3. JobsOf(reply) \subseteq {j \in Jobs : ClusOf[j] = c}
  BY <1>1 DEF JobsOf
<1>4. ASSUME NEW h \in Hosts, h \in HostsOf(reply)
      PROVE  jobAt[h] \in Jobs /\ ClusOf[jobAt[h]] = c /\ jobAt[h] \in JobsOf(reply)
  <2>1. PICK l \in reply : h = l[1]
    BY <1>4 DEF HostsOf
  <2>2. l[2] = jobAt[h]
    BY <1>1, <2>1
  <2>3. QED
    BY <1>1, <2>1, <2>2 DEF JobsOf
<1>5. ASSUME NEW h \in Hosts, NEW j \in Jobs, <<h, j>> \in reply
      PROVE  h \in HostsOf(reply)
  BY <1>5 DEF HostsOf
<1>6. QED
  BY <1>2, <1>3, <1>4, <1>5

LEMMA InitCache == Init => CacheInv
BY DEF Init, CacheInv, ListsAgree, PointsToListed, NoneDangles, JobsOf

(* A poll of c sets the h_job of all hosts of the reply before it frees    *)
(* the jobs that are not in it, and frees none of another cluster.         *)
LEMMA ClusCbKeepsCache ==
  ASSUME CacheInv, NEW c \in Clusters, XlClusCb(c)
  PROVE  CacheInv'
<1> USE DEF CacheInv
<1>1. PICK reply \in Replies(ClusGet(c)) :
        JobsUpdated(c, reply, HostsOf(reply), JobsOf(reply))
  BY DEF XlClusCb
<1>2. /\ jobList' = [jobList EXCEPT ![c] = JobsOf(reply)]
      /\ hJob' = [h \in Hosts |-> IF h \in HostsOf(reply) THEN jobAt[h] ELSE hJob[h]]
      /\ dangling' = (dangling \ HostsOf(reply))
                       \cup {h \in Hosts : hJob'[h] \in jobList[c] \ JobsOf(reply)}
      /\ last' = [last EXCEPT ![c] = reply]
      /\ jobAt' = jobAt
  BY <1>1 DEF JobsUpdated, XlClusCb, master
<1>3. /\ reply \subseteq ListsOf(c) /\ JobsOf(reply) \subseteq {j \in Jobs : ClusOf[j] = c}
      /\ \A h \in Hosts : h \in HostsOf(reply) =>
           jobAt[h] \in Jobs /\ ClusOf[jobAt[h]] = c /\ jobAt[h] \in JobsOf(reply)
      /\ \A h \in Hosts, j \in Jobs : <<h, j>> \in reply => h \in HostsOf(reply)
  BY RepliesList
<1>4. ListsAgree'
  <2>1. /\ jobAt' \in [Hosts -> Jobs \cup {NoJob}] /\ hJob' \in [Hosts -> Jobs \cup {NoJob}]
        /\ last' \in [Clusters -> SUBSET (Hosts \X Jobs)]
        /\ jobList' \in [Clusters -> SUBSET Jobs]
    BY <1>2, <1>3 DEF ListsAgree, ListsOf
  <2>2. ASSUME NEW d \in Clusters
        PROVE  last'[d] \subseteq ListsOf(d) /\ jobList'[d] = JobsOf(last'[d])
    <3>1. CASE d = c
      BY <1>2, <1>3, <3>1 DEF ListsAgree
    <3>2. CASE d # c
      BY <1>2, <3>2 DEF ListsAgree
    <3>3. QED
      BY <3>1, <3>2
  <2>3. QED
    BY <2>1, <2>2 DEF ListsAgree, ListsOf, JobsOf
<1>5. \A j \in jobList[c] : j \in Jobs /\ ClusOf[j] = c
  BY DEF ListsAgree, ListsOf, JobsOf
<1>6. ASSUME NEW h \in Hosts, h \in HostsOf(reply)
      PROVE  /\ hJob'[h] # NoJob /\ h \notin dangling'
             /\ hJob'[h] \in jobList'[ClusOf[hJob'[h]]]
  BY <1>2, <1>3, <1>6, NamesAssumption DEF ListsAgree
<1>7. ASSUME NEW h \in Hosts, h \notin HostsOf(reply), hJob'[h] # NoJob
      PROVE  IF h \in dangling'
             THEN \A j \in Jobs : <<h, j>> \notin last'[ClusOf[hJob'[h]]]
             ELSE hJob'[h] \in jobList'[ClusOf[hJob'[h]]]
  <2>1. hJob'[h] = hJob[h] /\ hJob[h] \in Jobs /\ ClusOf[hJob[h]] \in Clusters
    BY <1>2, <1>7, NamesAssumption DEF ListsAgree
  <2>2. h \in dangling' <=> h \in dangling \/ hJob[h] \in jobList[c] \ JobsOf(reply)
    BY <1>2, <1>7, <2>1
  <2>3. CASE ClusOf[hJob[h]] = c
    <3>1. last'[c] = reply /\ jobList'[c] = JobsOf(reply)
      BY <1>2 DEF ListsAgree
    <3>2. \A j \in Jobs : <<h, j>> \notin reply
      BY <1>3, <1>7
    <3>3. h \in dangling \/ hJob[h] \in jobList[c]
      BY <2>1, <2>3, <1>7 DEF PointsToListed
    <3>4. QED
      BY <2>1, <2>2, <2>3, <3>1, <3>2, <3>3
  <2>4. CASE ClusOf[hJob[h]] # c
    <3>1. /\ last'[ClusOf[hJob[h]]] = last[ClusOf[hJob[h]]]
          /\ jobList'[ClusOf[hJob[h]]] = jobList[ClusOf[hJob[h]]]
      BY <1>2, <2>1, <2>4 DEF ListsAgree
    <3>2. h \in dangling' <=> h \in dangling
      BY <1>5, <2>2, <2>4
    <3>3. QED
      BY <1>7, <2>1, <3>1, <3>2 DEF PointsToListed
  <2>5. QED
    BY <2>3, <2>4
<1>8. PointsToListed'
  BY <1>6, <1>7 DEF PointsToListed
<1>9. NoneDangles'
  <2>1. SUFFICES ASSUME NEW h \in Hosts, hJob'[h] = NoJob
                 PROVE  h \notin dangling'
    BY DEF NoneDangles
  <2>2. h \notin HostsOf(reply) /\ hJob[h] = NoJob
    BY <1>2, <1>6, <2>1
  <2>3. QED
    BY <1>2, <1>5, <2>1, <2>2, NamesAssumption DEF NoneDangles
<1>10. QED
  BY <1>4, <1>8, <1>9

(* The master's own steps and those of filesystems leave the jobs alone.   *)
LEMMA NextCache == CacheInv /\ [Next]_vars => CacheInv'
<1>1. SUFFICES ASSUME CacheInv, [Next]_vars
               PROVE  CacheInv'
  OBVIOUS
<1>2. ASSUME NEW c \in Clusters, XlClusCb(c)
      PROVE  CacheInv'
  BY <1>1, <1>2, ClusCbKeepsCache
<1>3. ASSUME UNCHANGED jobs, jobAt' \in [Hosts -> Jobs \cup {NoJob}]
      PROVE  CacheInv'
  BY <1>1, <1>3
  DEF jobs, CacheInv, ListsAgree, PointsToListed, NoneDangles, ListsOf, JobsOf
<1>4. ASSUME NEW h \in Hosts, NEW j \in Jobs, HostMoves(h, j)
      PROVE  CacheInv'
  BY <1>1, <1>3, <1>4 DEF HostMoves, CacheInv, ListsAgree
<1>5. ASSUME UNCHANGED <<jobAt, jobs>>
      PROVE  CacheInv'
  BY <1>1, <1>3, <1>5 DEF CacheInv, ListsAgree
<1>6. QED
  BY <1>1, <1>2, <1>4, <1>5
  DEF Next, ServReports, XlFsAdd, XlFsCb, XlClusAdd, AddsEntry, XlFsInitDone, XlClusInitDone,
      StartFails, master, vars

(* CacheInv holds whatever the master does between the polls. *)
LEMMA CacheInvAlways == Spec => []CacheInv
BY InitCache, NextCache, PTL DEF Spec

(* A row can be shown with a freed job only for a host that the last reply *)
(* of the job's cluster left out.                                          *)
THEOREM FreedAlwaysUnlisted == Spec => []FreedOnlyIfUnlisted
<1>1. CacheInv => FreedOnlyIfUnlisted
  <2>1. SUFFICES ASSUME CacheInv, NEW h \in Hosts, KGetJob(h) = Freed, NEW j \in Jobs
                 PROVE  <<h, j>> \notin last[ClusOf[hJob[h]]]
    BY DEF FreedOnlyIfUnlisted
  <2>2. h \in dangling
    BY <2>1, NamesAssumption DEF KGetJob, CacheInv, ListsAgree
  <2>3. QED
    BY <2>1, <2>2 DEF CacheInv, PointsToListed, NoneDangles
<1>2. QED
  BY <1>1, CacheInvAlways, PTL

(* The client keeps the jobs of the last replies and no others, and a host *)
(* has one of these or none unless it has a freed one.                     *)
THEOREM ListedJobsAlwaysKept == Spec => []KeepsListedJobs
<1>1. CacheInv => KeepsListedJobs
  <2>1. SUFFICES ASSUME CacheInv
                 PROVE  KeepsListedJobs
    OBVIOUS
  <2>2. ASSUME NEW j \in Jobs
        PROVE  KGetJob(j) = j <=> j \in jobList[ClusOf[j]]
    <3>1. j \notin Hosts /\ j # NoJob /\ ClusOf[j] \in Clusters
      BY NamesAssumption
    <3>2. KGetJob(j) = j <=> \E c \in Clusters : j \in jobList[c]
      BY <3>1 DEF KGetJob
    <3>3. \A c \in Clusters : j \in jobList[c] => ClusOf[j] = c
      BY <2>1 DEF CacheInv, ListsAgree, ListsOf, JobsOf
    <3>4. QED
      BY <3>1, <3>2, <3>3
  <2>3. ASSUME NEW j \in Jobs
        PROVE  j \in jobList[ClusOf[j]] <=> \E h \in Hosts : <<h, j>> \in last[ClusOf[j]]
    <3>1. ClusOf[j] \in Clusters
      BY NamesAssumption
    <3>2. jobList[ClusOf[j]] = JobsOf(last[ClusOf[j]]) /\ last[ClusOf[j]] \subseteq Hosts \X Jobs
      BY <2>1, <3>1 DEF CacheInv, ListsAgree
    <3>3. ASSUME j \in JobsOf(last[ClusOf[j]])
          PROVE  \E h \in Hosts : <<h, j>> \in last[ClusOf[j]]
      <4>1. PICK l \in last[ClusOf[j]] : j = l[2]
        BY <3>3 DEF JobsOf
      <4>2. l = <<l[1], j>> /\ l[1] \in Hosts
        BY <3>2, <4>1
      <4>3. QED
        BY <4>1, <4>2
    <3>4. ASSUME NEW h \in Hosts, <<h, j>> \in last[ClusOf[j]]
          PROVE  j \in JobsOf(last[ClusOf[j]])
      BY <3>4 DEF JobsOf
    <3>5. QED
      BY <3>2, <3>3, <3>4
  <2>4. ASSUME NEW h \in Hosts
        PROVE  KGetJob(h) \in {NoJob, Freed} \/ KGetJob(KGetJob(h)) = KGetJob(h)
    <3>1. CASE h \in dangling
      BY <3>1 DEF KGetJob
    <3>2. CASE h \notin dangling
      <4>1. KGetJob(h) = hJob[h] /\ hJob[h] \in Jobs \cup {NoJob}
        BY <2>1, <3>2 DEF KGetJob, CacheInv, ListsAgree
      <4>2. hJob[h] # NoJob => hJob[h] \in jobList[ClusOf[hJob[h]]]
        BY <2>1, <3>2 DEF CacheInv, PointsToListed
      <4>3. QED
        BY <4>1, <4>2, <2>2
    <3>3. QED
      BY <3>1, <3>2
  <2>5. QED
    BY <2>2, <2>3, <2>4 DEF KeepsListedJobs
<1>2. QED
  BY <1>1, CacheInvAlways, PTL


-----------------------------------------------------------------------------
(* Folds.  FoldSet and MapThenSumSet take one element after the other out  *)
(* of a set, as CHOOSE says; what they compute is a function of the        *)
(* subsets that is defined by its own values.                              *)
One(s) == CHOOSE x \in s : TRUE

Rest(s) == s \ {One(s)}

LEMMA RestIs ==
  ASSUME NEW S, IsFiniteSet(S), NEW s \in SUBSET S
  PROVE  /\ IsFiniteSet(s) /\ Cardinality(s) \in Nat
         /\ Cardinality(s) <= 0 => s = {}
         /\ s # {} => /\ One(s) \in s /\ Rest(s) \in SUBSET S
                      /\ s = Rest(s) \cup {One(s)} /\ One(s) \notin Rest(s)
                      /\ Cardinality(Rest(s)) = Cardinality(s) - 1
<1>1. IsFiniteSet(s)
  BY FS_Subset
<1>2. Cardinality(s) \in Nat
  BY <1>1, FS_CardinalityType
<1>3. Cardinality(s) = 0 <=> s = {}
  BY <1>1, FS_EmptySet
<1>4. ASSUME s # {}
      PROVE  One(s) \in s /\ Cardinality(Rest(s)) = Cardinality(s) - 1
  <2>1. One(s) \in s
    BY <1>4 DEF One
  <2>2. QED
    BY <1>1, <2>1, FS_RemoveElement DEF Rest
<1>5. QED
  BY <1>1, <1>2, <1>3, <1>4 DEF Rest

(* Induction for a set of numbers: there is no least one outside of it.    *)
LEMMA AllNumbers ==
  ASSUME NEW S, 0 \in S, \A n \in Nat : n \in S => n + 1 \in S
  PROVE  Nat \subseteq S
<1> DEFINE Outside == Nat \ S
<1>1. SUFFICES ASSUME Outside # {}
               PROVE  FALSE
  OBVIOUS
<1>2. PICK n \in Outside : \A l \in Outside : ~(<<l, n>> \in OpToRel(<, Nat))
  BY <1>1, NatLessThanWellFounded, WFMin
<1>3. n \in Nat /\ n - 1 \in Nat /\ n - 1 < n
  OBVIOUS
<1>4. <<n - 1, n>> \in OpToRel(<, Nat)
  BY <1>3, Zenon DEF OpToRel
<1>5. n - 1 \in S
  BY <1>2, <1>3, <1>4
<1>6. QED
  BY <1>3, <1>5

(* Induction over the subsets of a finite set in the order of the folds.   *)
LEMMA AllSubsets ==
  ASSUME NEW S, IsFiniteSet(S), NEW P, {} \in P,
         \A s \in SUBSET S : s # {} /\ Rest(s) \in P => s \in P
  PROVE  S \in P /\ \A s \in SUBSET S : s \in P
<1> DEFINE N == {n \in Nat : \A s \in SUBSET S : Cardinality(s) <= n => s \in P}
<1>1. 0 \in N
  BY RestIs
<1>2. ASSUME NEW n \in Nat, n \in N
      PROVE  n + 1 \in N
  <2>1. ASSUME NEW s \in SUBSET S, Cardinality(s) <= n + 1, s # {}
        PROVE  Rest(s) \in P
    <3>1. Rest(s) \in SUBSET S /\ Cardinality(Rest(s)) <= n
      BY <2>1, RestIs
    <3>2. QED
      BY <1>2, <3>1
  <2>2. \A s \in SUBSET S : Cardinality(s) <= n + 1 => s \in P
    BY <2>1
  <2>3. QED
    BY <2>2
<1>3. Nat \subseteq N
  <2> HIDE DEF N
  <2>1. QED
    BY <1>1, <1>2, AllNumbers
<1>4. ASSUME NEW s \in SUBSET S
      PROVE  s \in P
  <2>1. Cardinality(s) \in N
    BY <1>3, RestIs
  <2>2. QED
    BY <2>1, RestIs
<1>5. QED
  BY <1>4

Term(step, base, g, s) == IF s = {} THEN base ELSE step[<<One(s), g[Rest(s)]>>]

IsFold(step, base, S, g) == g = [s \in SUBSET S |-> Term(step, base, g, s)]

LEMMA FoldExists ==
  ASSUME NEW S, IsFiniteSet(S), NEW step, NEW base
  PROVE  \E g : IsFold(step, base, S, g)
<1> DEFINE Good(n, g) ==
             \A s \in SUBSET S : Cardinality(s) <= n => g[s] = Term(step, base, g, s)
           N == {n \in Nat : \E g : Good(n, g)}
<1>1. 0 \in N
  <2> DEFINE g == [s \in SUBSET S |-> base]
  <2>1. \A s \in SUBSET S : Cardinality(s) <= 0 => s = {}
    BY RestIs
  <2>2. Good(0, g)
    BY <2>1 DEF Term
  <2> HIDE DEF g
  <2>3. QED
    BY <2>2
<1>2. ASSUME NEW n \in Nat, n \in N
      PROVE  n + 1 \in N
  <2>1. PICK g : Good(n, g)
    BY <1>2
  <2> DEFINE h == [s \in SUBSET S |-> Term(step, base, g, s)]
  <2>2. ASSUME NEW s \in SUBSET S, Cardinality(s) <= n + 1
        PROVE  h[s] = Term(step, base, h, s)
    <3>1. CASE s = {}
      BY <3>1 DEF Term
    <3>2. CASE s # {}
      <4>1. Rest(s) \in SUBSET S /\ Cardinality(Rest(s)) <= n
        BY <2>2, <3>2, RestIs
      <4>2. g[Rest(s)] = h[Rest(s)]
        BY <2>1, <4>1
      <4>3. QED
        BY <3>2, <4>2 DEF Term
    <3>3. QED
      BY <3>1, <3>2
  <2> HIDE DEF h
  <2>3. Good(n + 1, h)
    BY <2>2
  <2>4. QED
    BY <2>3
<1>3. \E g : Good(Cardinality(S), g)
  <2>1. Nat \subseteq N
    <3> HIDE DEF N
    <3>1. QED
      BY <1>1, <1>2, AllNumbers
  <2>2. Cardinality(S) \in Nat
    BY RestIs
  <2>3. QED
    BY <2>1, <2>2
<1>4. PICK g : Good(Cardinality(S), g)
  BY <1>3
<1> DEFINE h == [s \in SUBSET S |-> g[s]]
<1>5. ASSUME NEW s \in SUBSET S
      PROVE  g[s] = Term(step, base, h, s)
  <2>1. Cardinality(s) <= Cardinality(S)
    BY FS_Subset
  <2>2. s # {} => Rest(s) \in SUBSET S
    BY DEF Rest
  <2>3. g[s] = Term(step, base, g, s)
    BY <1>4, <2>1
  <2>4. QED
    BY <2>2, <2>3 DEF Term
<1>6. h = [s \in SUBSET S |-> Term(step, base, h, s)]
  BY <1>5
<1> HIDE DEF h
<1>7. QED
  BY <1>6 DEF IsFold

-----------------------------------------------------------------------------
(* The line of a filesystem. *)

Lines == Servs \X Status

XlFs == [nr_mds : Nat, nr_mdt : Nat, mds_load : Nat, max_mds_task : Nat,
         nr_oss : Nat, nr_ost : Nat, oss_load : Nat, max_oss_task : Nat, nr_nid : Nat]

(* Three fields are set and the others keep what they were. *)
WithTargets(t, a, b, c) == [t EXCEPT !.nr_mdt = a, !.nr_ost = b, !.nr_nid = c]

LEMMA SetsTargets ==
  ASSUME NEW t \in XlFs, NEW a \in Nat, NEW b \in Nat, NEW c \in Nat
  PROVE  LET g == WithTargets(t, a, b, c)
         IN /\ g \in XlFs /\ g.nr_mdt = a /\ g.nr_ost = b /\ g.nr_nid = c
            /\ g.nr_mds = t.nr_mds /\ g.nr_oss = t.nr_oss
            /\ g.mds_load = t.mds_load /\ g.oss_load = t.oss_load
            /\ g.max_mds_task = t.max_mds_task /\ g.max_oss_task = t.max_oss_task
BY DEF XlFs, WithTargets

WithMds(t, a, b, c) == [t EXCEPT !.nr_mds = a, !.mds_load = b, !.max_mds_task = c]

LEMMA SetsMds ==
  ASSUME NEW t \in XlFs, NEW a \in Nat, NEW b \in Nat, NEW c \in Nat
  PROVE  LET g == WithMds(t, a, b, c)
         IN /\ g \in XlFs /\ g.nr_mds = a /\ g.mds_load = b /\ g.max_mds_task = c
            /\ g.nr_mdt = t.nr_mdt /\ g.nr_ost = t.nr_ost /\ g.nr_nid = t.nr_nid
            /\ g.nr_oss = t.nr_oss /\ g.oss_load = t.oss_load
            /\ g.max_oss_task = t.max_oss_task
BY DEF XlFs, WithMds

WithOss(t, a, b, c) == [t EXCEPT !.nr_oss = a, !.oss_load = b, !.max_oss_task = c]

LEMMA SetsOss ==
  ASSUME NEW t \in XlFs, NEW a \in Nat, NEW b \in Nat, NEW c \in Nat
  PROVE  LET g == WithOss(t, a, b, c)
         IN /\ g \in XlFs /\ g.nr_oss = a /\ g.oss_load = b /\ g.max_oss_task = c
            /\ g.nr_mdt = t.nr_mdt /\ g.nr_ost = t.nr_ost /\ g.nr_nid = t.nr_nid
            /\ g.nr_mds = t.nr_mds /\ g.mds_load = t.mds_load
            /\ g.max_mds_task = t.max_mds_task
BY DEF XlFs, WithOss

(* What the callback makes of each field. *)
LEMMA MsgCbIs ==
  ASSUME NEW t \in XlFs, NEW ss \in Status
  PROVE  LET u == XlFsMsgCb(t, ss)
             mds == ss.mdt > 0
             oss == ss.mdt = 0 /\ ss.ost > 0
         IN /\ u \in XlFs
            /\ u.nr_mdt = t.nr_mdt + ss.mdt /\ u.nr_ost = t.nr_ost + ss.ost
            /\ u.nr_nid = Greater(t.nr_nid, ss.nid)
            /\ u.nr_mds = IF mds THEN t.nr_mds + 1 ELSE t.nr_mds
            /\ u.nr_oss = IF oss THEN t.nr_oss + 1 ELSE t.nr_oss
            /\ u.mds_load = IF mds THEN Greater(t.mds_load, ss.load) ELSE t.mds_load
            /\ u.oss_load = IF oss THEN Greater(t.oss_load, ss.load) ELSE t.oss_load
            /\ u.max_mds_task = IF mds THEN Greater(t.max_mds_task, ss.task)
                                ELSE t.max_mds_task
            /\ u.max_oss_task = IF oss THEN Greater(t.max_oss_task, ss.task)
                                ELSE t.max_oss_task
<1> DEFINE a == t.nr_mdt + ss.mdt
           b == t.nr_ost + ss.ost
           c == Greater(t.nr_nid, ss.nid)
           g == WithTargets(t, a, b, c)
           m == g.nr_mds + 1
           ml == Greater(g.mds_load, ss.load)
           mt == Greater(g.max_mds_task, ss.task)
           o == g.nr_oss + 1
           ol == Greater(g.oss_load, ss.load)
           ot == Greater(g.max_oss_task, ss.task)
           u == XlFsMsgCb(t, ss)
<1>1. /\ ss.mdt \in Nat /\ ss.ost \in Nat /\ ss.nid \in Nat /\ ss.load \in Nat
      /\ ss.task \in Nat
  BY DEF Status
<1>3. t.nr_mdt \in Nat /\ t.nr_ost \in Nat /\ t.nr_nid \in Nat
  BY DEF XlFs
<1>4. a \in Nat /\ b \in Nat /\ c \in Nat
  BY <1>1, <1>3 DEF Greater
<1>5. u = IF ss.mdt > 0
          THEN WithMds(g, m, ml, mt)
          ELSE IF ss.ost > 0
          THEN WithOss(g, o, ol, ot)
          ELSE g
  BY DEF XlFsMsgCb, WithTargets, WithMds, WithOss
<1>6. /\ g \in XlFs /\ g.nr_mdt = a /\ g.nr_ost = b /\ g.nr_nid = c
      /\ g.nr_mds = t.nr_mds /\ g.nr_oss = t.nr_oss
      /\ g.mds_load = t.mds_load /\ g.oss_load = t.oss_load
      /\ g.max_mds_task = t.max_mds_task /\ g.max_oss_task = t.max_oss_task
  <2> HIDE DEF a, b, c
  <2>1. QED
    BY <1>4, SetsTargets
<1> HIDE DEF g
<1>7. /\ m \in Nat /\ ml \in Nat /\ mt \in Nat /\ o \in Nat /\ ol \in Nat /\ ot \in Nat
  <2>1. /\ g.nr_mds \in Nat /\ g.nr_oss \in Nat /\ g.mds_load \in Nat /\ g.oss_load \in Nat
        /\ g.max_mds_task \in Nat /\ g.max_oss_task \in Nat
    BY <1>6 DEF XlFs
  <2>2. QED
    BY <1>1, <2>1 DEF Greater
<1>8. CASE ss.mdt > 0
  <2>1. u = WithMds(g, m, ml, mt)
    BY <1>5, <1>8
  <2> HIDE DEF u, m, ml, mt, o, ol, ot, a, b, c
  <2>2. /\ u \in XlFs /\ u.nr_mds = m /\ u.mds_load = ml /\ u.max_mds_task = mt
        /\ u.nr_mdt = g.nr_mdt /\ u.nr_ost = g.nr_ost /\ u.nr_nid = g.nr_nid
        /\ u.nr_oss = g.nr_oss /\ u.oss_load = g.oss_load
        /\ u.max_oss_task = g.max_oss_task
    <3>1. m \in Nat /\ ml \in Nat /\ mt \in Nat /\ g \in XlFs
      BY <1>6, <1>7
    <3> DEFINE w == WithMds(g, m, ml, mt)
    <3>2. /\ w \in XlFs /\ w.nr_mds = m /\ w.mds_load = ml /\ w.max_mds_task = mt
          /\ w.nr_mdt = g.nr_mdt /\ w.nr_ost = g.nr_ost /\ w.nr_nid = g.nr_nid
          /\ w.nr_oss = g.nr_oss /\ w.oss_load = g.oss_load
          /\ w.max_oss_task = g.max_oss_task
      BY <3>1, SetsMds
    <3>3. QED
      BY <2>1, <3>2
  <2>3. ~(ss.mdt = 0)
    BY <1>1, <1>8
  <2>4. QED
    BY <1>6, <1>8, <2>2, <2>3 DEF u, m, ml, mt, a, b, c
<1>9. CASE ~(ss.mdt > 0) /\ ss.ost > 0
  <2>1. u = WithOss(g, o, ol, ot)
    BY <1>5, <1>9
  <2> HIDE DEF u, m, ml, mt, o, ol, ot, a, b, c
  <2>2. /\ u \in XlFs /\ u.nr_oss = o /\ u.oss_load = ol /\ u.max_oss_task = ot
        /\ u.nr_mdt = g.nr_mdt /\ u.nr_ost = g.nr_ost /\ u.nr_nid = g.nr_nid
        /\ u.nr_mds = g.nr_mds /\ u.mds_load = g.mds_load
        /\ u.max_mds_task = g.max_mds_task
    <3>1. o \in Nat /\ ol \in Nat /\ ot \in Nat /\ g \in XlFs
      BY <1>6, <1>7
    <3> DEFINE w == WithOss(g, o, ol, ot)
    <3>2. /\ w \in XlFs /\ w.nr_oss = o /\ w.oss_load = ol /\ w.max_oss_task = ot
          /\ w.nr_mdt = g.nr_mdt /\ w.nr_ost = g.nr_ost /\ w.nr_nid = g.nr_nid
          /\ w.nr_mds = g.nr_mds /\ w.mds_load = g.mds_load
          /\ w.max_mds_task = g.max_mds_task
      BY <3>1, SetsOss
    <3>3. QED
      BY <2>1, <3>2
  <2>3. ss.mdt = 0
    BY <1>1, <1>9
  <2>4. QED
    BY <1>6, <1>9, <2>2, <2>3 DEF u, o, ol, ot, a, b, c
<1>10. CASE ~(ss.mdt > 0) /\ ~(ss.ost > 0)
  <2>1. u = g
    BY <1>5, <1>10
  <2> HIDE DEF u
  <2>2. QED
    BY <1>6, <1>10, <2>1 DEF u
<1>11. QED
  BY <1>8, <1>9, <1>10

(* What each of the three folds is computed by. *)
Total(g, s) == IF s = {} THEN XlFsZero ELSE XlFsMsgCb(g[Rest(s)], One(s)[2])

Mdts(g, s) == IF s = {} THEN 0 ELSE One(s)[2].mdt + g[Rest(s)]

Osts(g, s) == IF s = {} THEN 0 ELSE One(s)[2].ost + g[Rest(s)]

FsTotal(reply) == FoldSet(LAMBDA l, t : XlFsMsgCb(t, l[2]), XlFsZero, reply)

LEMMA TotalExists ==
  ASSUME NEW reply \in SUBSET Lines, IsFiniteSet(reply)
  PROVE  \E g : /\ g = [s \in SUBSET reply |-> Total(g, s)]
                /\ g \in [SUBSET reply -> XlFs]
                /\ FsTotal(reply) = g[reply]
<1> DEFINE step == [p \in Lines \X XlFs |-> XlFsMsgCb(p[2], p[1][2])]
           Is(g) == g = [s \in SUBSET reply |-> Total(g, s)]
<1>1. PICK g : g = [s \in SUBSET reply |-> Term(step, XlFsZero, g, s)]
  <2> DEFINE base == XlFsZero
  <2> HIDE DEF step, base
  <2>1. \E g : IsFold(step, base, reply, g)
    BY FoldExists
  <2>2. QED
    BY <2>1 DEF base, IsFold
<1>2. \A l \in Lines, t \in XlFs : step[<<l, t>>] = XlFsMsgCb(t, l[2])
  OBVIOUS
<1> HIDE DEF step
<1>3. ASSUME NEW e, e = [s \in SUBSET reply |-> Term(step, XlFsZero, e, s)] \/ Is(e)
      PROVE  e \in [SUBSET reply -> XlFs]
  <2> DEFINE P == {s \in SUBSET reply : e[s] \in XlFs}
  <2>1. XlFsZero \in XlFs
    BY DEF XlFsZero, XlFs
  <2>2. {} \in P
    BY <1>3, <2>1 DEF Term, Total
  <2>3. ASSUME NEW s \in SUBSET reply, s # {}, Rest(s) \in P
        PROVE  s \in P
    <3>1. One(s) \in Lines /\ One(s)[2] \in Status /\ e[Rest(s)] \in XlFs
      BY <2>3, RestIs DEF Lines
    <3>2. e[s] = XlFsMsgCb(e[Rest(s)], One(s)[2])
      BY <1>2, <1>3, <2>3, <3>1 DEF Term, Total
    <3>3. QED
      BY <3>1, <3>2, MsgCbIs
  <2> HIDE DEF P
  <2>4. \A s \in SUBSET reply : s \in P
    BY <2>2, <2>3, AllSubsets
  <2>5. QED
    BY <1>3, <2>4 DEF P
<1>4. Is(g)
  <2>1. ASSUME NEW s \in SUBSET reply
        PROVE  Term(step, XlFsZero, g, s) = Total(g, s)
    <3>1. CASE s = {}
      BY <3>1 DEF Term, Total
    <3>2. CASE s # {}
      <4>1. One(s) \in s /\ Rest(s) \in SUBSET reply
        BY <3>2, RestIs
      <4>2. g \in [SUBSET reply -> XlFs]
        BY <1>1, <1>3
      <4>3. One(s) \in Lines /\ g[Rest(s)] \in XlFs
        BY <4>1, <4>2
      <4>4. QED
        BY <1>2, <3>2, <4>3 DEF Term, Total
    <3>3. QED
      BY <3>1, <3>2
  <2>2. QED
    BY <1>1, <2>1
<1>5. FsTotal(reply) = (CHOOSE e : Is(e))[reply]
  BY DEF FsTotal, FoldSet, MapThenFoldSet, Total, Rest, One
<1>6. Is(CHOOSE e : Is(e))
  BY <1>4
<1> HIDE DEF Is
<1>7. QED
  BY <1>3, <1>5, <1>6 DEF Is

IsTotal(reply, g) ==
  /\ g \in [SUBSET reply -> XlFs]
  /\ \A s \in SUBSET reply : g[s] = Total(g, s)

(* What the last line taken adds to the total of the others. *)
LEMMA TotalGrows ==
  ASSUME NEW reply \in SUBSET Lines, IsFiniteSet(reply), NEW g, IsTotal(reply, g),
         NEW s \in SUBSET reply, s # {},
         NEW x, x = One(s), NEW r, r = Rest(s)
  PROVE  LET ss == x[2]
             mds == ss.mdt > 0
             oss == ss.mdt = 0 /\ ss.ost > 0
             t == g[r]
             u == g[s]
         IN /\ x \in s /\ x \in Lines /\ r \in SUBSET reply /\ s = r \cup {x} /\ x \notin r
            /\ ss \in Status /\ t \in XlFs /\ u \in XlFs
            /\ u.nr_mdt = t.nr_mdt + ss.mdt /\ u.nr_ost = t.nr_ost + ss.ost
            /\ u.nr_nid = Greater(t.nr_nid, ss.nid)
            /\ u.nr_mds = IF mds THEN t.nr_mds + 1 ELSE t.nr_mds
            /\ u.nr_oss = IF oss THEN t.nr_oss + 1 ELSE t.nr_oss
            /\ u.mds_load = IF mds THEN Greater(t.mds_load, ss.load) ELSE t.mds_load
            /\ u.oss_load = IF oss THEN Greater(t.oss_load, ss.load) ELSE t.oss_load
            /\ u.max_mds_task = IF mds THEN Greater(t.max_mds_task, ss.task)
                                ELSE t.max_mds_task
            /\ u.max_oss_task = IF oss THEN Greater(t.max_oss_task, ss.task)
                                ELSE t.max_oss_task
<1>1. x \in s /\ r \in SUBSET reply /\ s = r \cup {x} /\ x \notin r
  BY RestIs
<1>2. x \in Lines /\ x[2] \in Status
  BY <1>1 DEF Lines
<1>3. g[r] \in XlFs /\ g[s] \in XlFs
  BY <1>1 DEF IsTotal
<1>4. g[s] = XlFsMsgCb(g[r], x[2])
  BY DEF IsTotal, Total
<1> DEFINE t == g[r]
           ss == x[2]
<1> HIDE DEF t, ss
<1>5. t \in XlFs /\ ss \in Status /\ g[s] = XlFsMsgCb(t, ss)
  BY <1>2, <1>3, <1>4 DEF t, ss
<1>6. LET u == g[s]
          mds == ss.mdt > 0
          oss == ss.mdt = 0 /\ ss.ost > 0
      IN /\ u.nr_mdt = t.nr_mdt + ss.mdt /\ u.nr_ost = t.nr_ost + ss.ost
         /\ u.nr_nid = Greater(t.nr_nid, ss.nid)
         /\ u.nr_mds = IF mds THEN t.nr_mds + 1 ELSE t.nr_mds
         /\ u.nr_oss = IF oss THEN t.nr_oss + 1 ELSE t.nr_oss
         /\ u.mds_load = IF mds THEN Greater(t.mds_load, ss.load) ELSE t.mds_load
         /\ u.oss_load = IF oss THEN Greater(t.oss_load, ss.load) ELSE t.oss_load
         /\ u.max_mds_task = IF mds THEN Greater(t.max_mds_task, ss.task)
                             ELSE t.max_mds_task
         /\ u.max_oss_task = IF oss THEN Greater(t.max_oss_task, ss.task)
                             ELSE t.max_oss_task
  <2> DEFINE v == XlFsMsgCb(t, ss)
  <2>1. LET mds == ss.mdt > 0
            oss == ss.mdt = 0 /\ ss.ost > 0
        IN /\ v.nr_mdt = t.nr_mdt + ss.mdt /\ v.nr_ost = t.nr_ost + ss.ost
           /\ v.nr_nid = Greater(t.nr_nid, ss.nid)
           /\ v.nr_mds = IF mds THEN t.nr_mds + 1 ELSE t.nr_mds
           /\ v.nr_oss = IF oss THEN t.nr_oss + 1 ELSE t.nr_oss
           /\ v.mds_load = IF mds THEN Greater(t.mds_load, ss.load) ELSE t.mds_load
           /\ v.oss_load = IF oss THEN Greater(t.oss_load, ss.load) ELSE t.oss_load
           /\ v.max_mds_task = IF mds THEN Greater(t.max_mds_task, ss.task)
                               ELSE t.max_mds_task
           /\ v.max_oss_task = IF oss THEN Greater(t.max_oss_task, ss.task)
                               ELSE t.max_oss_task
    BY <1>5, MsgCbIs
  <2> HIDE DEF v
  <2>2. g[s] = v
    BY <1>5 DEF v
  <2>3. QED
    BY <2>1, <2>2
<1>7. QED
  BY <1>1, <1>2, <1>3, <1>6 DEF t, ss

MdsOf(s) == {l \in s : l[2].mdt > 0}

OssOf(s) == {l \in s : l[2].mdt = 0 /\ l[2].ost > 0}

LEMMA ServersCount ==
  ASSUME NEW reply \in SUBSET Lines, IsFiniteSet(reply), NEW g, IsTotal(reply, g)
  PROVE  /\ g[reply].nr_mds = Cardinality(MdsOf(reply))
         /\ g[reply].nr_oss = Cardinality(OssOf(reply))
<1> DEFINE P == {s \in SUBSET reply : /\ g[s].nr_mds = Cardinality(MdsOf(s))
                                      /\ g[s].nr_oss = Cardinality(OssOf(s))}
<1>1. {} \in P
  <2>1. g[{}] = XlFsZero /\ MdsOf({}) = {} /\ OssOf({}) = {}
    BY DEF IsTotal, Total, MdsOf, OssOf
  <2>2. QED
    BY <2>1, FS_EmptySet DEF XlFsZero
<1>2. ASSUME NEW s \in SUBSET reply, s # {}, Rest(s) \in P
      PROVE  s \in P
  <2> DEFINE x == One(s)
             r == Rest(s)
             mds == x[2].mdt > 0
             oss == x[2].mdt = 0 /\ x[2].ost > 0
  <2>1. /\ s = r \cup {x} /\ x \notin r /\ r \in SUBSET reply
        /\ g[s].nr_mds = IF mds THEN g[r].nr_mds + 1 ELSE g[r].nr_mds
        /\ g[s].nr_oss = IF oss THEN g[r].nr_oss + 1 ELSE g[r].nr_oss
    BY <1>2, TotalGrows
  <2>2. g[r].nr_mds = Cardinality(MdsOf(r)) /\ g[r].nr_oss = Cardinality(OssOf(r))
    BY <1>2
  <2> HIDE DEF x, r
  <2>3. IsFiniteSet(MdsOf(r)) /\ IsFiniteSet(OssOf(r))
    BY <2>1, FS_Subset DEF MdsOf, OssOf
  <2>4. MdsOf(s) = (IF mds THEN MdsOf(r) \cup {x} ELSE MdsOf(r)) /\ x \notin MdsOf(r)
    BY <2>1 DEF MdsOf
  <2>5. OssOf(s) = (IF oss THEN OssOf(r) \cup {x} ELSE OssOf(r)) /\ x \notin OssOf(r)
    BY <2>1 DEF OssOf
  <2>6. Cardinality(MdsOf(r) \cup {x}) = Cardinality(MdsOf(r)) + 1
    BY <2>3, <2>4, FS_AddElement
  <2>7. Cardinality(OssOf(r) \cup {x}) = Cardinality(OssOf(r)) + 1
    BY <2>3, <2>5, FS_AddElement
  <2> HIDE DEF mds, oss
  <2>8. QED
    BY <2>1, <2>2, <2>4, <2>5, <2>6, <2>7
<1> HIDE DEF P
<1>3. reply \in P
  BY <1>1, <1>2, AllSubsets
<1>4. QED
  BY <1>3 DEF P

MdtSum(reply) == MapThenSumSet(LAMBDA l : l[2].mdt, reply)

OstSum(reply) == MapThenSumSet(LAMBDA l : l[2].ost, reply)

LEMMA TargetsSum ==
  ASSUME NEW reply \in SUBSET Lines, IsFiniteSet(reply), NEW g, IsTotal(reply, g)
  PROVE  g[reply].nr_mdt = MdtSum(reply) /\ g[reply].nr_ost = OstSum(reply)
<1> DEFINE IsM(e) == e = [s \in SUBSET reply |-> Mdts(e, s)]
           IsO(e) == e = [s \in SUBSET reply |-> Osts(e, s)]
           m == [s \in SUBSET reply |-> g[s].nr_mdt]
           o == [s \in SUBSET reply |-> g[s].nr_ost]
<1>1. g[{}] = XlFsZero
  BY DEF IsTotal, Total
<1>2. ASSUME NEW s \in SUBSET reply, s # {}
      PROVE  /\ Rest(s) \in SUBSET reply
             /\ g[s].nr_mdt = One(s)[2].mdt + g[Rest(s)].nr_mdt
             /\ g[s].nr_ost = One(s)[2].ost + g[Rest(s)].nr_ost
  <2> DEFINE x == One(s)
             r == Rest(s)
  <2>1. /\ r \in SUBSET reply /\ x[2] \in Status /\ g[r] \in XlFs
        /\ g[s].nr_mdt = g[r].nr_mdt + x[2].mdt /\ g[s].nr_ost = g[r].nr_ost + x[2].ost
    BY <1>2, TotalGrows
  <2>2. x[2].mdt \in Nat /\ x[2].ost \in Nat /\ g[r].nr_mdt \in Nat /\ g[r].nr_ost \in Nat
    BY <2>1 DEF Status, XlFs
  <2>3. QED
    BY <2>1, <2>2
<1>3. IsM(m)
  <2>1. ASSUME NEW s \in SUBSET reply
        PROVE  g[s].nr_mdt = Mdts(m, s)
    <3>1. CASE s = {}
      BY <1>1, <3>1 DEF Mdts, XlFsZero
    <3>2. CASE s # {}
      BY <1>2, <3>2 DEF Mdts
    <3>3. QED
      BY <3>1, <3>2
  <2> HIDE DEF m
  <2>2. QED
    BY <2>1 DEF m
<1>4. IsO(o)
  <2>1. ASSUME NEW s \in SUBSET reply
        PROVE  g[s].nr_ost = Osts(o, s)
    <3>1. CASE s = {}
      BY <1>1, <3>1 DEF Osts, XlFsZero
    <3>2. CASE s # {}
      BY <1>2, <3>2 DEF Osts
    <3>3. QED
      BY <3>1, <3>2
  <2> HIDE DEF o
  <2>2. QED
    BY <2>1 DEF o
<1> DEFINE a == CHOOSE e : IsM(e)
           b == CHOOSE e : IsO(e)
           P == {s \in SUBSET reply : g[s].nr_mdt = a[s] /\ g[s].nr_ost = b[s]}
<1> HIDE DEF m, o
<1>5. MdtSum(reply) = a[reply]
  BY DEF MdtSum, MapThenSumSet, MapThenFoldSet, Mdts, Rest, One
<1>6. OstSum(reply) = b[reply]
  BY DEF OstSum, MapThenSumSet, MapThenFoldSet, Osts, Rest, One
<1>7. IsM(a)
  <2> HIDE DEF IsM
  <2>1. QED
    BY <1>3
<1>8. IsO(b)
  <2> HIDE DEF IsO
  <2>1. QED
    BY <1>4
<1> HIDE DEF a, b
<1>9. \A s \in SUBSET reply : a[s] = Mdts(a, s) /\ b[s] = Osts(b, s)
  BY <1>7, <1>8
<1>10. {} \in P
  BY <1>1, <1>9 DEF Mdts, Osts, XlFsZero
<1>11. ASSUME NEW s \in SUBSET reply, s # {}, Rest(s) \in P
       PROVE  s \in P
  BY <1>2, <1>9, <1>11 DEF Mdts, Osts
<1> HIDE DEF P
<1>12. reply \in P
  BY <1>10, <1>11, AllSubsets
<1>13. QED
  BY <1>5, <1>6, <1>12 DEF P

IsGreatest(m, A) == /\ A \subseteq Nat
                    /\ IF A = {} THEN m = 0 ELSE m \in A /\ \A n \in A : m >= n

LEMMA GreatestIs ==
  ASSUME NEW m, NEW A, IsGreatest(m, A)
  PROVE  m = Greatest(A)
<1>1. CASE A = {}
  BY <1>1 DEF IsGreatest, Greatest
<1>2. CASE A # {}
  <2>1. m \in A /\ \A n \in A : m >= n
    BY <1>2 DEF IsGreatest
  <2>2. Max(A) \in A /\ \A n \in A : Max(A) >= n
    BY <2>1 DEF Max
  <2>3. A \subseteq Nat
    BY DEF IsGreatest
  <2> DEFINE n == Max(A)
  <2>4. m \in Nat /\ n \in Nat /\ m >= n /\ n >= m
    BY <2>1, <2>2, <2>3
  <2> HIDE DEF n
  <2>5. m = n
    BY <2>4
  <2>6. QED
    BY <1>2, <2>5 DEF Greatest, n
<1>3. QED
  BY <1>1, <1>2

LEMMA GreatestGrows ==
  ASSUME NEW m, NEW A, IsGreatest(m, A), NEW n \in Nat
  PROVE  IsGreatest(Greater(m, n), A \cup {n})
<1>1. CASE A = {}
  BY <1>1 DEF IsGreatest, Greater
<1>2. CASE A # {}
  <2>1. m \in A /\ m \in Nat /\ \A k \in A : m >= k /\ k \in Nat
    BY <1>2 DEF IsGreatest
  <2>2. CASE m > n
    BY <2>1, <2>2 DEF IsGreatest, Greater
  <2>3. CASE ~(m > n)
    BY <2>1, <2>3 DEF IsGreatest, Greater
  <2>4. QED
    BY <2>2, <2>3
<1>3. QED
  BY <1>1, <1>2

Loads(A) == {l[2].load : l \in A}
Tasks(A) == {l[2].task : l \in A}
NidCounts(A) == {l[2].nid : l \in A}

LEMMA GreatestOfServers ==
  ASSUME NEW reply \in SUBSET Lines, IsFiniteSet(reply), NEW g, IsTotal(reply, g)
  PROVE  LET t == g[reply]
         IN /\ IsGreatest(t.mds_load, Loads(MdsOf(reply)))
            /\ IsGreatest(t.oss_load, Loads(OssOf(reply)))
            /\ IsGreatest(t.max_mds_task, Tasks(MdsOf(reply)))
            /\ IsGreatest(t.max_oss_task, Tasks(OssOf(reply)))
            /\ IsGreatest(t.nr_nid, NidCounts(reply))
<1> DEFINE Good(s) == /\ IsGreatest(g[s].mds_load, Loads(MdsOf(s)))
                      /\ IsGreatest(g[s].oss_load, Loads(OssOf(s)))
                      /\ IsGreatest(g[s].max_mds_task, Tasks(MdsOf(s)))
                      /\ IsGreatest(g[s].max_oss_task, Tasks(OssOf(s)))
                      /\ IsGreatest(g[s].nr_nid, NidCounts(s))
           P == {s \in SUBSET reply : Good(s)}
<1>1. {} \in P
  <2>1. /\ g[{}] = XlFsZero /\ Loads(MdsOf({})) = {} /\ Loads(OssOf({})) = {}
        /\ Tasks(MdsOf({})) = {} /\ Tasks(OssOf({})) = {} /\ NidCounts({}) = {}
    BY DEF IsTotal, Total, MdsOf, OssOf, Loads, Tasks, NidCounts
  <2>2. QED
    BY <2>1 DEF XlFsZero, IsGreatest
<1>2. ASSUME NEW s \in SUBSET reply, s # {}, Rest(s) \in P
      PROVE  s \in P
  <2> DEFINE x == One(s)
             r == Rest(s)
             ss == x[2]
             mds == ss.mdt > 0
             oss == ss.mdt = 0 /\ ss.ost > 0
             t == g[r]
             u == g[s]
  <2>1. Good(r)
    BY <1>2
  <2> HIDE DEF Good
  <2>2. /\ s = r \cup {x} /\ ss \in Status
        /\ u.nr_nid = Greater(t.nr_nid, ss.nid)
        /\ u.mds_load = IF mds THEN Greater(t.mds_load, ss.load) ELSE t.mds_load
        /\ u.oss_load = IF oss THEN Greater(t.oss_load, ss.load) ELSE t.oss_load
        /\ u.max_mds_task = IF mds THEN Greater(t.max_mds_task, ss.task)
                            ELSE t.max_mds_task
        /\ u.max_oss_task = IF oss THEN Greater(t.max_oss_task, ss.task)
                            ELSE t.max_oss_task
    BY <1>2, TotalGrows
  <2>3. ss.nid \in Nat /\ ss.load \in Nat /\ ss.task \in Nat
    BY <2>2 DEF Status
  <2>4. /\ MdsOf(s) = IF mds THEN MdsOf(r) \cup {x} ELSE MdsOf(r)
        /\ OssOf(s) = IF oss THEN OssOf(r) \cup {x} ELSE OssOf(r)
    <3> HIDE DEF x, r
    <3>1. QED
      BY <2>2 DEF MdsOf, OssOf
  <2>5. \A A : /\ Loads(A \cup {x}) = Loads(A) \cup {ss.load}
               /\ Tasks(A \cup {x}) = Tasks(A) \cup {ss.task}
               /\ NidCounts(A \cup {x}) = NidCounts(A) \cup {ss.nid}
    <3> HIDE DEF x
    <3>1. QED
      BY Zenon DEF Loads, Tasks, NidCounts
  <2> HIDE DEF x, r, ss, mds, oss, t, u
  <2>6. /\ IsGreatest(t.mds_load, Loads(MdsOf(r))) /\ IsGreatest(t.oss_load, Loads(OssOf(r)))
        /\ IsGreatest(t.max_mds_task, Tasks(MdsOf(r)))
        /\ IsGreatest(t.max_oss_task, Tasks(OssOf(r)))
        /\ IsGreatest(t.nr_nid, NidCounts(r))
    BY <2>1 DEF Good, t
  <2>7. IsGreatest(u.mds_load, Loads(MdsOf(s))) /\ IsGreatest(u.max_mds_task, Tasks(MdsOf(s)))
    <3>1. CASE mds
      <4>1. /\ IsGreatest(Greater(t.mds_load, ss.load), Loads(MdsOf(r)) \cup {ss.load})
            /\ IsGreatest(Greater(t.max_mds_task, ss.task), Tasks(MdsOf(r)) \cup {ss.task})
        BY <2>3, <2>6, GreatestGrows
      <4>2. /\ Loads(MdsOf(s)) = Loads(MdsOf(r)) \cup {ss.load}
            /\ Tasks(MdsOf(s)) = Tasks(MdsOf(r)) \cup {ss.task}
        BY <2>4, <2>5, <3>1
      <4>3. QED
        BY <2>2, <3>1, <4>1, <4>2
    <3>2. CASE ~mds
      BY <2>2, <2>4, <2>6, <3>2
    <3>3. QED
      BY <3>1, <3>2
  <2>8. IsGreatest(u.oss_load, Loads(OssOf(s))) /\ IsGreatest(u.max_oss_task, Tasks(OssOf(s)))
    <3>1. CASE oss
      <4>1. /\ IsGreatest(Greater(t.oss_load, ss.load), Loads(OssOf(r)) \cup {ss.load})
            /\ IsGreatest(Greater(t.max_oss_task, ss.task), Tasks(OssOf(r)) \cup {ss.task})
        BY <2>3, <2>6, GreatestGrows
      <4>2. /\ Loads(OssOf(s)) = Loads(OssOf(r)) \cup {ss.load}
            /\ Tasks(OssOf(s)) = Tasks(OssOf(r)) \cup {ss.task}
        BY <2>4, <2>5, <3>1
      <4>3. QED
        BY <2>2, <3>1, <4>1, <4>2
    <3>2. CASE ~oss
      BY <2>2, <2>4, <2>6, <3>2
    <3>3. QED
      BY <3>1, <3>2
  <2>9. IsGreatest(u.nr_nid, NidCounts(s))
    BY <2>2, <2>3, <2>5, <2>6, GreatestGrows
  <2>10. Good(s)
    BY <2>7, <2>8, <2>9 DEF Good, u
  <2>11. QED
    BY <2>10
<1> HIDE DEF P
<1>3. reply \in P
  BY <1>1, <1>2, AllSubsets
<1>4. QED
  BY <1>3 DEF P

(* The fields are the fold of the last reply, which is a set of lines.     *)
TotalsInv ==
  /\ status \in [Servs -> Status]
  /\ totals \in [Filesystems -> XlFs]
  /\ \A f \in Filesystems :
       fsLast[f] \in SUBSET Lines /\ IsFiniteSet(fsLast[f]) /\ totals[f] = FsTotal(fsLast[f])
  /\ DOMAIN fsLast = Filesystems

LEMMA TotalsShow ==
  ASSUME TotalsInv
  PROVE  FsShowsLastReply
<1> SUFFICES ASSUME NEW f \in Filesystems
             PROVE  LET mds == MdsOf(fsLast[f])
                        oss == OssOf(fsLast[f])
                    IN /\ totals[f].nr_mds = Cardinality(mds)
                       /\ totals[f].nr_oss = Cardinality(oss)
                       /\ totals[f].nr_mdt = MdtSum(fsLast[f])
                       /\ totals[f].nr_ost = OstSum(fsLast[f])
                       /\ totals[f].mds_load = Greatest(Loads(mds))
                       /\ totals[f].oss_load = Greatest(Loads(oss))
                       /\ totals[f].max_mds_task = Greatest(Tasks(mds))
                       /\ totals[f].max_oss_task = Greatest(Tasks(oss))
                       /\ totals[f].nr_nid = Greatest(NidCounts(fsLast[f]))
  BY DEF FsShowsLastReply, MdsOf, OssOf, MdtSum, OstSum, Loads, Tasks, NidCounts
<1> DEFINE reply == fsLast[f]
<1>1. reply \in SUBSET Lines /\ IsFiniteSet(reply) /\ totals[f] = FsTotal(reply)
  BY DEF TotalsInv
<1> HIDE DEF reply
<1>2. PICK g : IsTotal(reply, g) /\ totals[f] = g[reply]
  <2>1. PICK g : /\ g = [s \in SUBSET reply |-> Total(g, s)]
                 /\ g \in [SUBSET reply -> XlFs]
                 /\ FsTotal(reply) = g[reply]
    BY <1>1, TotalExists
  <2>2. \A s \in SUBSET reply : g[s] = Total(g, s)
    BY <2>1
  <2>3. QED
    BY <1>1, <2>1, <2>2 DEF IsTotal
<1>3. /\ totals[f].nr_mds = Cardinality(MdsOf(reply))
      /\ totals[f].nr_oss = Cardinality(OssOf(reply))
  BY <1>1, <1>2, ServersCount
<1>4. totals[f].nr_mdt = MdtSum(reply) /\ totals[f].nr_ost = OstSum(reply)
  BY <1>1, <1>2, TargetsSum
<1>5. /\ IsGreatest(totals[f].mds_load, Loads(MdsOf(reply)))
      /\ IsGreatest(totals[f].oss_load, Loads(OssOf(reply)))
      /\ IsGreatest(totals[f].max_mds_task, Tasks(MdsOf(reply)))
      /\ IsGreatest(totals[f].max_oss_task, Tasks(OssOf(reply)))
      /\ IsGreatest(totals[f].nr_nid, NidCounts(reply))
  BY <1>1, <1>2, GreatestOfServers
<1>6. QED
  BY <1>3, <1>4, <1>5, GreatestIs DEF reply

LEMMA FsTotalIs ==
  ASSUME NEW reply \in SUBSET Lines, IsFiniteSet(reply)
  PROVE  FsTotal(reply) \in XlFs /\ (reply = {} => FsTotal(reply) = XlFsZero)
<1>1. PICK g : /\ g = [s \in SUBSET reply |-> Total(g, s)]
               /\ g \in [SUBSET reply -> XlFs]
               /\ FsTotal(reply) = g[reply]
  BY TotalExists
<1>2. g[reply] = Total(g, reply)
  BY <1>1
<1>3. QED
  BY <1>1, <1>2 DEF Total

LEMMA InitTotals == Init => TotalsInv
<1> SUFFICES ASSUME Init PROVE TotalsInv
  OBVIOUS
<1>1. XlFsZero \in XlFs /\ Silent \in Status
  BY DEF XlFsZero, XlFs, Silent, Status
<1>2. IsFiniteSet({}) /\ {} \in SUBSET Lines
  BY FS_EmptySet
<1>3. FsTotal({}) = XlFsZero
  BY <1>2, FsTotalIs
<1>4. QED
  BY <1>1, <1>2, <1>3 DEF Init, TotalsInv

LEMMA StatusReplies ==
  ASSUME TotalsInv, NEW f \in Filesystems, NEW reply \in Replies(FsStatusGet(f))
  PROVE  reply \in SUBSET Lines /\ IsFiniteSet(reply)
<1> DEFINE line == [s \in Servs |-> <<s, status[s]>>]
           lines == {line[s] : s \in Servs}
<1>1. line \in Surjection(Servs, lines)
  <2>1. line \in [Servs -> lines] /\ \A l \in lines : \E s \in Servs : line[s] = l
    BY Zenon
  <2>2. QED
    BY <2>1 DEF Surjection
<1>2. IsFiniteSet(lines)
  <2> HIDE DEF line, lines
  <2>1. QED
    BY <1>1, NamesAssumption, FS_Surjection
<1>3. reply \subseteq lines
  BY DEF Replies, FsStatusGet
<1>4. lines \subseteq Lines
  BY DEF Lines, TotalsInv
<1> HIDE DEF lines
<1>5. QED
  BY <1>2, <1>3, <1>4, FS_Subset

LEMMA NextTotals == TotalsInv /\ [Next]_vars => TotalsInv'
<1> SUFFICES ASSUME TotalsInv, [Next]_vars PROVE TotalsInv'
  OBVIOUS
<1>1. ASSUME UNCHANGED <<totals, fsLast>>, status' \in [Servs -> Status]
      PROVE  TotalsInv'
  <2>1. \A f \in Filesystems : FsTotal(fsLast[f])' = FsTotal(fsLast'[f])
    BY DEF FsTotal, FoldSet, MapThenFoldSet
  <2>2. QED
    BY <1>1, <2>1 DEF TotalsInv, Lines
<1>2. ASSUME NEW f \in Filesystems, XlFsCb(f)
      PROVE  TotalsInv'
  <2>1. PICK reply \in Replies(FsStatusGet(f)) :
          /\ totals' = [totals EXCEPT ![f] = FsTotal(reply)]
          /\ fsLast' = [fsLast EXCEPT ![f] = reply]
    BY <1>2 DEF XlFsCb, FsTotal
  <2>2. reply \in SUBSET Lines /\ IsFiniteSet(reply) /\ FsTotal(reply) \in XlFs
    BY StatusReplies, FsTotalIs
  <2>3. status' = status
    BY <1>2 DEF XlFsCb, master
  <2>4. totals' \in [Filesystems -> XlFs] /\ DOMAIN fsLast' = Filesystems
    BY <2>1, <2>2 DEF TotalsInv
  <2>5. ASSUME NEW e \in Filesystems
        PROVE  /\ fsLast'[e] \in SUBSET Lines /\ IsFiniteSet(fsLast'[e])
               /\ totals'[e] = FsTotal(fsLast'[e])
    BY <2>1, <2>2 DEF TotalsInv
  <2>6. \A e \in Filesystems : FsTotal(fsLast[e])' = FsTotal(fsLast'[e])
    BY DEF FsTotal, FoldSet, MapThenFoldSet
  <2>7. QED
    BY <2>3, <2>4, <2>5, <2>6 DEF TotalsInv, Lines
<1>3. ASSUME NEW s \in Servs, NEW st \in Statuses, ServReports(s, st)
      PROVE  TotalsInv'
  BY <1>1, <1>3, NamesAssumption DEF ServReports, filesystems, TotalsInv
<1>4. ASSUME UNCHANGED <<status, totals, fsLast>>
      PROVE  TotalsInv'
  BY <1>1, <1>4 DEF TotalsInv
<1>5. QED
  BY <1>2, <1>3, <1>4
  DEF Next, HostMoves, XlFsAdd, XlClusAdd, AddsEntry, XlClusCb, XlFsInitDone, XlClusInitDone,
      StartFails, master, filesystems, vars

(* The line of a filesystem shows what its last reply says, for any        *)
(* servers and whatever they report: xl_fs_cb leaves nothing of the reply  *)
(* before and the order of the lines does not matter.                      *)
THEOREM FsAlwaysShowsLastReply == Spec => []FsShowsLastReply
BY InitTotals, NextTotals, TotalsShow, PTL DEF Spec
=============================================================================
