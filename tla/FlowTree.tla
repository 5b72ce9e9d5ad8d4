------------------------------ MODULE FlowTree ------------------------------
(***************************************************************************)
(* The flow tree of xltop-master: the consumers (hosts, jobs, clusters and *)
(* the universe U), the providers (servers, filesystems and the universe   *)
(* V), and the table of k_nodes that counts the traffic of each pair.      *)
(*                                                                         *)
(* master.c is one thread around a libev loop, so each handler is one      *)
(* step.  The two PUT handlers run one body line after the other; a PUT of *)
(* one line is a legal request, so a step here is one line of a body.      *)
(*                                                                         *)
(* A k_node is abstracted to one component of its k_sum; its rate, its     *)
(* pending counter and its clock are the subject of module KNode.          *)
(* Subscriptions (sub.c) are left out: nothing calls sub_init, so every    *)
(* x_sub_list and k_sub_list is empty.                                     *)
(***************************************************************************)
EXTENDS Integers, FiniteSets, Functions

CONSTANTS
  Hosts,        \* host names that may occur in a message or an lnet file
  Jobs,         \* job names, those of the idle jobs included
  Clusters,     \* clusters made by the configuration, NONE included
  U, V,         \* x_all[0] and x_all[1]
  NoNode,       \* the null pointer
  Servs, Filesystems,
  FsOf,         \* the filesystem a server was configured under
  IdleJob,      \* c_idle_job of each cluster
  ClusOf,       \* clus_lookup_for_host of each host name
  Lnets, Nids,
  LnetOf,       \* s_lnet of each server
  LnetFile,     \* what lnet_read found: a host or NoNode for each nid
  NidName,      \* the host named by the text of a nid
  Deltas,       \* values a server reports
  MaxSum,       \* bound on the traffic counted at <<U, V>>
  AllocMayFail  \* whether malloc may return NULL after the configuration

X0 == Hosts \cup Jobs \cup Clusters \cup {U}
X1 == Servs \cup Filesystems \cup {V}
IdleJobs == {IdleJob[c] : c \in Clusters}

(* Names of different types live in different tables, so they are distinct *)
(* nodes; the rest says which functions the configuration builds.          *)
ASSUME NodesAssumption ==
  /\ Hosts \cap Jobs = {} /\ Hosts \cap Clusters = {} /\ Jobs \cap Clusters = {}
  /\ U \notin Hosts \cup Jobs \cup Clusters
  /\ Servs \cap Filesystems = {} /\ V \notin Servs \cup Filesystems
  /\ NoNode \notin X0
  /\ IsFiniteSet(X0) /\ IsFiniteSet(X1)

ASSUME ConfigAssumption ==
  /\ FsOf \in [Servs -> Filesystems]
  /\ IdleJob \in [Clusters -> Jobs]
  /\ \A c, d \in Clusters : IdleJob[c] = IdleJob[d] => c = d
  /\ ClusOf \in [Hosts -> Clusters]
  /\ LnetOf \in [Servs -> Lnets]
  /\ LnetFile \in [Lnets -> [Nids -> Hosts \cup {NoNode}]]
  /\ NidName \in [Nids -> Hosts]
  /\ Deltas \subseteq Int
  /\ MaxSum \in Nat
  /\ AllocMayFail \in BOOLEAN

VARIABLES
  tree,    \* the x_nodes of the consumers: which are hashed, x_parent,
           \* x_child_list (as a set) and x_nr_child
  fake,    \* j_fake of each job
  zombie,  \* jobs whose j_zombie_w timer is active
  nidHost, \* l_hash_table of each lnet
  ksum     \* k_hash_table: a function on the pairs that have a k_node

vars == <<tree, fake, zombie, nidHost, ksum>>

TreeType ==
  [live: SUBSET X0, parent: [X0 -> X0 \cup {NoNode}],
   children: [X0 -> SUBSET X0], nrChild: [X0 -> Nat]]

AllocOutcomes == IF AllocMayFail THEN BOOLEAN ELSE {TRUE}

-----------------------------------------------------------------------------
(* x_node.c *)

XInit(t, x, p) ==
  [live |-> t.live \cup {x},
   parent |-> [t.parent EXCEPT ![x] = p],
   children |-> [t.children EXCEPT ![p] = @ \cup {x}],
   nrChild |-> [t.nrChild EXCEPT ![p] = @ + 1]]

XSetParentNoDecrement(t, x, p) ==
  LET q == t.parent[x] IN
  [live |-> t.live,
   parent |-> [t.parent EXCEPT ![x] = p],
   children |-> [t.children EXCEPT ![q] = @ \ {x}, ![p] = @ \cup {x}],
   nrChild |-> [t.nrChild EXCEPT ![p] = @ + 1]]

(* Moves x, a live node other than U, under p; the caller has checked      *)
(* that p is not its parent already.                                       *)
XSetParent(t, x, p) ==
  LET q == t.parent[x] IN
  [live |-> t.live,
   parent |-> [t.parent EXCEPT ![x] = p],
   children |-> [t.children EXCEPT ![q] = @ \ {x}, ![p] = @ \cup {x}],
   nrChild |-> [t.nrChild EXCEPT ![q] = @ - 1, ![p] = @ + 1]]

(* Unlinks x, hands its children to the universe and unhashes it. *)
XDestroy(t, x) ==
  LET kids == t.children[x] IN
  [live |-> t.live \ {x},
   parent |-> [n \in X0 |-> IF n = x THEN NoNode
                            ELSE IF n \in kids THEN U ELSE t.parent[n]],
   children |-> [n \in X0 |-> IF n = x THEN {}
                              ELSE IF n = U THEN (t.children[n] \ {x}) \cup kids
                              ELSE t.children[n] \ {x}],
   nrChild |-> [n \in X0 |-> IF n = x THEN 0
                             ELSE t.nrChild[n]
                                  - (IF n = t.parent[x] THEN 1 ELSE 0)
                                  + (IF n = U THEN Cardinality(kids) ELSE 0)]]

Up(t, n) == IF n = NoNode THEN NoNode ELSE t.parent[n]

(* The nodes the outer loop of x_update visits for host h; no node is more *)
(* than three links below U.                                               *)
Path0(t, h) ==
  LET a == Up(t, h)
      b == Up(t, a)
  IN {h, a, b, Up(t, b)} \ {NoNode}

(* The nodes its inner loop visits; the provider side never changes. *)
Path1(y) ==
  CASE y \in Servs -> {y, FsOf[y], V}
    [] y \in Filesystems -> {y, V}
    [] OTHER -> {V}

(* The pairs both loops visit. *)
Pairs(t, h, s) == Path0(t, h) \X Path1(s)

KUpdateLeafOnly(k, t, h, s, d, lost) ==
  LET pairs == Path0(t, h) \X {s, V} IN
  [q \in DOMAIN k \cup (pairs \ lost) |->
     (IF q \in DOMAIN k THEN k[q] ELSE 0) + (IF q \in pairs THEN d ELSE 0)]

(* x_update: every pair of an ancestor of h and an ancestor of s gets a    *)
(* k_node and counts d; "lost" are those whose malloc failed.              *)
KUpdate(k, t, h, s, d, lost) ==
  [q \in DOMAIN k \cup (Pairs(t, h, s) \ lost) |->
     (IF q \in DOMAIN k THEN k[q] ELSE 0) + (IF q \in Pairs(t, h, s) THEN d ELSE 0)]

KDestroyRootOnly(k, x) == [q \in DOMAIN k \ {<<x, V>>} |-> k[q]]

(* k_destroy(x, V, 0): the recursion starts at <<x, V>> and goes down to a *)
(* filesystem or a server only through pairs that have a k_node.           *)
KDestroy(k, x) ==
  LET gone == {<<x, y>> : y \in {z \in X1 : \A b \in Path1(z) : <<x, b>> \in DOMAIN k}}
  IN [q \in DOMAIN k \ gone |-> k[q]]

-----------------------------------------------------------------------------
(* job.c, host.c, lnet.c *)

JobLookupReparent(t, c, j) ==
  IF j \notin t.live THEN XInit(t, j, c)
  ELSE IF t.parent[j] = c THEN t ELSE XSetParent(t, j, c)

(* job_lookup: the name alone is looked up; only a new job goes under c. *)
JobLookup(t, c, j) == IF j \in t.live THEN t ELSE XInit(t, j, c)

(* The malloc of a new job_node is not cleared and job_lookup leaves       *)
(* j_fake alone: any value.  Only clus_lookup sets it, for idle jobs.      *)
FakeAfterLookup(j) ==
  IF j \in tree.live THEN fake' = fake
                     ELSE \E b \in BOOLEAN : fake' = [fake EXCEPT ![j] = b]

(* x_host_lookup with no parent given. *)
HostLookup(t, h) ==
  IF h \in t.live THEN t ELSE XInit(t, h, IdleJob[ClusOf[h]])

JobEndOffByOne(z, t, f, p) ==
  IF p \in Jobs /\ t.nrChild[p] = 1 /\ ~f[p] THEN z \cup {p} ELSE z

(* What clus_msg_cb does with the job p that h was taken from: job_end if  *)
(* that was its last host.  Starting an active timer changes nothing.      *)
JobEnd(z, t, f, p) ==
  IF p \in Jobs /\ t.nrChild[p] = 0 /\ ~f[p] THEN z \cup {p} ELSE z

-----------------------------------------------------------------------------
(* The state after main has read the configuration: the clusters with      *)
(* their idle jobs, and the hosts of the lnet files under the idle job of  *)
(* the cluster their domain belongs to.                                    *)
FileHosts == {LnetFile[l][n] : l \in Lnets, n \in Nids} \ {NoNode}

InitParent ==
  [n \in X0 |-> IF n \in FileHosts THEN IdleJob[ClusOf[n]]
                ELSE IF n \in IdleJobs THEN CHOOSE c \in Clusters : IdleJob[c] = n
                ELSE IF n \in Clusters THEN U ELSE NoNode]

InitChildren == [n \in X0 |-> {m \in X0 : InitParent[m] = n}]

Init ==
  /\ tree = [live |-> FileHosts \cup IdleJobs \cup Clusters \cup {U},
             parent |-> InitParent,
             children |-> InitChildren,
             nrChild |-> [n \in X0 |-> Cardinality(InitChildren[n])]]
  /\ fake = [j \in Jobs |-> j \in IdleJobs]
  /\ zombie = {}
  /\ nidHost = LnetFile
  /\ ksum = [q \in {} |-> 0]

(* A line "h j ..." of a PUT to cluster c whose host is new.  If x_lookup  *)
(* cannot allocate it, the job that job_lookup has just made stays.        *)
ClusMsgNewHost(c, h, j) ==
  /\ h \notin tree.live
  /\ LET t == JobLookup(tree, c, j) IN
     \E ok \in AllocOutcomes : tree' = IF ok THEN XInit(t, h, j) ELSE t
  /\ FakeAfterLookup(j)
  /\ UNCHANGED <<zombie, nidHost, ksum>>

(* The same for a known host of another job; a host that is in job j       *)
(* already is left alone.  A failed malloc of the job changes nothing.     *)
ClusMsgMoveHost(c, h, j) ==
  /\ h \in tree.live
  /\ tree.parent[h] # j
  /\ tree' = XSetParent(JobLookup(tree, c, j), h, j)
  /\ FakeAfterLookup(j)
  /\ zombie' = JobEnd(zombie, tree', fake', tree.parent[h])
  /\ UNCHANGED <<nidHost, ksum>>

ClusMsg(c, h, j) == ClusMsgNewHost(c, h, j) \/ ClusMsgMoveHost(c, h, j)

(* The host lnet_lookup_nid returns for nid n at server s. *)
NidLookup(s, n) ==
  IF nidHost[LnetOf[s]][n] # NoNode THEN nidHost[LnetOf[s]][n] ELSE NidName[n]

(* The host and the nid are entered before the line's numbers are read. *)
ServMsgNid(s, n) ==
  /\ tree' = HostLookup(tree, NidLookup(s, n))
  /\ nidHost' = [nidHost EXCEPT ![LnetOf[s]][n] = NidLookup(s, n)]
  /\ UNCHANGED <<fake, zombie>>

(* A line of a PUT to server s for nid n with a well-formed report d. *)
ServMsg(s, n, d) ==
  /\ ServMsgNid(s, n)
  /\ \E lost \in IF AllocMayFail
                THEN SUBSET (Pairs(tree', NidLookup(s, n), s) \ DOMAIN ksum) ELSE {{}} :
       ksum' = KUpdate(ksum, tree', NidLookup(s, n), s, d, lost)
  /\ <<U, V>> \in DOMAIN ksum' => ksum'[<<U, V>>] \in -MaxSum..MaxSum

(* The same when sscanf does not find every number. *)
ServMsgMalformed(s, n) ==
  /\ ServMsgNid(s, n)
  /\ UNCHANGED ksum

ZombieFiresAlways(j) ==
  /\ j \in zombie
  /\ zombie' = zombie \ {j}
  /\ tree' = XDestroy(tree, j) /\ ksum' = KDestroy(ksum, j)
  /\ UNCHANGED <<fake, nidHost>>

(* job_zombie_cb.  The timer is one-shot; with hosts in the job again, the *)
(* callback starts it again and changes nothing else.                      *)
ZombieFires(j) ==
  /\ j \in zombie
  /\ zombie' = IF fake[j] \/ tree.nrChild[j] = 0 THEN zombie \ {j} ELSE zombie
  /\ IF ~fake[j] /\ tree.nrChild[j] = 0
     THEN tree' = XDestroy(tree, j) /\ ksum' = KDestroy(ksum, j)
     ELSE UNCHANGED <<tree, ksum>>
  /\ UNCHANGED <<fake, nidHost>>

Next ==
  \/ \E c \in Clusters, h \in Hosts, j \in Jobs : ClusMsg(c, h, j)
  \/ \E s \in Servs, n \in Nids, d \in Deltas : ServMsg(s, n, d)
  \/ \E s \in Servs, n \in Nids : ServMsgMalformed(s, n)
  \/ \E j \in Jobs : ZombieFires(j)

Spec == Init /\ [][Next]_vars

(* An active timer fires: the loop runs until the process ends. *)
FairSpec == Spec /\ \A j \in Jobs : WF_vars(ZombieFires(j))

-----------------------------------------------------------------------------
(* Every variable has its type; k_nodes exist for some pairs only.         *)
TypeOK ==
  /\ tree \in TreeType
  /\ fake \in [Jobs -> BOOLEAN]
  /\ zombie \subseteq Jobs
  /\ nidHost \in [Lnets -> [Nids -> Hosts \cup {NoNode}]]
  /\ DOMAIN ksum \subseteq X0 \X X1
  /\ ksum \in [DOMAIN ksum -> Int]

(* The three representations of an edge agree. *)
LinksAgree(t) ==
  /\ U \in t.live /\ t.parent[U] = NoNode
  /\ \A x \in X0 \ {U} : x \in t.live <=> t.parent[x] # NoNode
  /\ \A p \in X0 : t.children[p] = {x \in X0 : t.parent[x] = p}
  /\ \A p \in X0 : t.nrChild[p] = Cardinality(t.children[p])

(* Hosts are in jobs, jobs in clusters, clusters under U. *)
LevelsAgree(t) ==
  /\ Clusters \cup IdleJobs \subseteq t.live
  /\ \A x \in t.live \cap Hosts : t.parent[x] \in t.live \cap Jobs
  /\ \A x \in t.live \cap Jobs : t.parent[x] \in Clusters
  /\ \A x \in Clusters : t.parent[x] = U

(* x_set_parent, x_init and x_destroy keep x_parent, x_child_list and      *)
(* x_nr_child of all nodes in agreement, and job_zombie_cb, which trusts   *)
(* x_nr_child, never frees a job that a host still points to.              *)
TreeConsistent == LinksAgree(tree) /\ LevelsAgree(tree)

(* A job that has lost its last host is on its way out: its timer is       *)
(* active, or nothing would ever free it.  Jobs whose j_fake is set are    *)
(* exempt, those that read as fake by accident (job.c:46) included: they   *)
(* are never freed, nor is a timer of theirs ever active.                  *)
NoJobForgotten ==
  /\ \A j \in Jobs \cap tree.live :
       ~fake[j] /\ tree.nrChild[j] = 0 => j \in zombie
  /\ \A j \in zombie : j \in tree.live /\ ~fake[j]

(* No k_node outlives its x_nodes, and the nids point to hashed hosts:     *)
(* x_destroy leaves no dangling pointer behind.                            *)
NothingDangles ==
  /\ \A q \in DOMAIN ksum : q[1] \in tree.live
  /\ \A l \in Lnets, n \in Nids : nidHost[l][n] \in tree.live \cup {NoNode}

(* k_destroy and the pruned walks of serv_get_r and k_heap_top find a      *)
(* k_node only below another: upwards on the provider side, and below U    *)
(* on the consumer side, no k_node is missing.                             *)
KReachable ==
  \A q \in DOMAIN ksum :
    /\ \A b \in Path1(q[2]) : <<q[1], b>> \in DOMAIN ksum
    /\ <<U, q[2]>> \in DOMAIN ksum

(* serv_get_r(x_all[0], s): the hosts a GET of server s lists.  The walk    *)
(* stops at a consumer without a k_node.                                   *)
Listed(s) ==
  {h \in tree.live \cap Hosts : \A a \in Path0(tree, h) : <<a, s>> \in DOMAIN ksum}

(* A host that a server's listing shows stays there until a message moves  *)
(* it: freeing some other job or reading other reports never hides it.     *)
ListedStays ==
  [][\A s \in Servs : \A h \in Listed(s) :
        tree'.parent[h] = tree.parent[h] => h \in Listed(s)']_vars

(* A job whose last host has left is freed by job_zombie_cb in the end,    *)
(* unless a host comes back or j_fake is set, by job_lookup's uncleared    *)
(* memory too.                                                             *)
EmptyJobReclaimed ==
  \A j \in Jobs :
    j \in tree.live /\ ~fake[j] /\ tree.nrChild[j] = 0
      ~> j \notin tree.live \/ tree.nrChild[j] > 0

(* The traffic counted for a pair; a pair without a k_node has none. *)
Get(q) == IF q \in DOMAIN ksum THEN ksum[q] ELSE 0

(* Moving hosts between jobs and freeing jobs loses no traffic and counts  *)
(* none twice: at every consumer but a freed job the servers of a          *)
(* filesystem add up to the filesystem and the filesystems to V, and at    *)
(* every provider the hosts, and the clusters, add up to U (x_update).     *)
TrafficConserved ==
  /\ \A x \in X0 :
       /\ \A f \in Filesystems :
            Get(<<x, f>>) = SumFunctionOnSet([s \in Servs |-> Get(<<x, s>>)],
                                             {s \in Servs : FsOf[s] = f})
       /\ Get(<<x, V>>) = SumFunction([f \in Filesystems |-> Get(<<x, f>>)])
  /\ \A y \in X1 :
       /\ Get(<<U, y>>) = SumFunction([h \in Hosts |-> Get(<<h, y>>)])
       /\ Get(<<U, y>>) = SumFunction([c \in Clusters |-> Get(<<c, y>>)])

(* The refinement mapping: what FlowLedger's variables stand for here. *)
JobOf == [h \in Hosts |-> tree.parent[h]]
ClusOfJob == [j \in Jobs |-> tree.parent[j]]
Total == [q \in X0 \X X1 |-> Get(q)]

Ledger == INSTANCE FlowLedger WITH jobOf <- JobOf, clusOf <- ClusOfJob, total <- Total

(* The tree, its timers and its lazily made k_nodes keep the ledger: every *)
(* report is charged once, to the job and cluster that own the host at     *)
(* that moment, and freeing a job changes no total but the job's own.      *)
ImplementsLedger == Ledger!Spec
=============================================================================
