--------------------------- MODULE FlowTreeProofs ---------------------------
(***************************************************************************)
(* Theorems about the flow tree of xltop-master and the walks of GET /top, *)
(* for any sets of hosts, jobs, clusters, servers and nids.                *)
(***************************************************************************)
EXTENDS TopWalk, FiniteSetTheorems, TLAPS

-----------------------------------------------------------------------------
(* The three ways a handler changes the tree keep its representations in   *)
(* agreement.                                                              *)

(* x_child_list of a node is a finite set, so x_nr_child can count it. *)
LEMMA ChildrenFinite ==
  ASSUME NEW t \in TreeType, NEW p \in X0
  PROVE  IsFiniteSet(t.children[p])
<1>1. t.children[p] \subseteq X0
  BY DEF TreeType
<1>2. QED
  BY <1>1, FS_Subset, NodesAssumption

(* x_init of a node that was not hashed, below a hashed one. *)
LEMMA XInitLinks ==
  ASSUME NEW t \in TreeType, LinksAgree(t),
         NEW x \in X0, x \notin t.live, NEW p \in t.live
  PROVE  XInit(t, x, p) \in TreeType /\ LinksAgree(XInit(t, x, p))
<1> DEFINE u == XInit(t, x, p)
<1>1. p \in X0 /\ x # U /\ p # x
  BY DEF TreeType, LinksAgree
<1>2. /\ u.live = t.live \cup {x}
      /\ u.parent = [t.parent EXCEPT ![x] = p]
      /\ u.children = [t.children EXCEPT ![p] = t.children[p] \cup {x}]
      /\ u.nrChild = [t.nrChild EXCEPT ![p] = t.nrChild[p] + 1]
  BY DEF XInit
<1>3. u \in TreeType
  BY <1>1 DEF XInit, TreeType
<1>4. t.parent[x] = NoNode /\ p # NoNode
  BY <1>1, NodesAssumption DEF LinksAgree
<1>5. U \in u.live /\ u.parent[U] = NoNode
  BY <1>1, <1>2, NodesAssumption DEF LinksAgree, TreeType, X0
<1>6. \A y \in X0 \ {U} : y \in u.live <=> u.parent[y] # NoNode
  BY <1>1, <1>2, <1>4 DEF LinksAgree, TreeType
<1>7. \A q \in X0 : u.children[q] = {y \in X0 : u.parent[y] = q}
  <2>1. SUFFICES ASSUME NEW q \in X0
                 PROVE  u.children[q] = {y \in X0 : u.parent[y] = q}
    OBVIOUS
  <2>2. t.children[q] = {y \in X0 : t.parent[y] = q}
    BY DEF LinksAgree
  <2>3. q # NoNode
    BY NodesAssumption
  <2>4. u.children[q] = IF q = p THEN t.children[q] \cup {x} ELSE t.children[q]
    BY <1>2 DEF TreeType
  <2>5. \A y \in X0 : u.parent[y] = IF y = x THEN p ELSE t.parent[y]
    BY <1>2 DEF TreeType
  <2>6. QED
    BY <1>1, <1>4, <2>2, <2>3, <2>4, <2>5
<1>8. \A q \in X0 : u.nrChild[q] = Cardinality(u.children[q])
  <2>1. SUFFICES ASSUME NEW q \in X0
                 PROVE  u.nrChild[q] = Cardinality(u.children[q])
    OBVIOUS
  <2>2. t.nrChild[q] = Cardinality(t.children[q])
    BY DEF LinksAgree
  <2>3. CASE q = p
    <3>1. x \notin t.children[p]
      BY <1>1, <1>4 , NodesAssumption DEF LinksAgree
    <3>2. Cardinality(t.children[p] \cup {x}) = Cardinality(t.children[p]) + 1
      BY <1>1, <3>1, ChildrenFinite, FS_AddElement
    <3>3. QED
      BY <1>1, <1>2, <2>2, <2>3, <3>2 DEF TreeType
  <2>4. CASE q # p
    BY <1>2, <2>2, <2>4 DEF TreeType
  <2>5. QED
    BY <2>3, <2>4
<1>9. QED
  BY <1>3, <1>5, <1>6, <1>7, <1>8 DEF LinksAgree

(* x_init gives x a parent of the right level. *)
LEMMA XInitLevels ==
  ASSUME NEW t \in TreeType, LevelsAgree(t),
         NEW x \in X0, x \notin t.live, NEW p \in t.live,
         (x \in Hosts /\ p \in Jobs) \/ (x \in Jobs /\ p \in Clusters)
  PROVE  LevelsAgree(XInit(t, x, p))
BY NodesAssumption DEF XInit, LevelsAgree, TreeType, X0, IdleJobs

(* x_set_parent of a live node that is not U. *)
LEMMA XSetParentLinks ==
  ASSUME NEW t \in TreeType, LinksAgree(t),
         NEW x \in t.live, x # U, NEW p \in t.live, t.parent[x] # p
  PROVE  XSetParent(t, x, p) \in TreeType /\ LinksAgree(XSetParent(t, x, p))
<1> DEFINE q == t.parent[x]
           u == XSetParent(t, x, p)
<1>1. x \in X0 /\ p \in X0 /\ q \in X0 /\ q # p /\ NoNode \notin X0
  BY NodesAssumption DEF TreeType, LinksAgree
<1>2. /\ u.live = t.live
      /\ u.parent = [t.parent EXCEPT ![x] = p]
      /\ \A n \in X0 : u.children[n] = IF n = p THEN t.children[n] \cup {x}
                                      ELSE IF n = q THEN t.children[n] \ {x}
                                      ELSE t.children[n]
      /\ \A n \in X0 : u.nrChild[n] = IF n = p THEN t.nrChild[n] + 1
                                     ELSE IF n = q THEN t.nrChild[n] - 1
                                     ELSE t.nrChild[n]
  BY <1>1 DEF XSetParent, TreeType
<1>3. \A n \in X0 : /\ t.children[n] = {y \in X0 : t.parent[y] = n}
                    /\ t.nrChild[n] = Cardinality(t.children[n])
  BY DEF LinksAgree
<1>4. /\ x \in t.children[q] /\ x \notin t.children[p]
      /\ Cardinality(t.children[q] \ {x}) = Cardinality(t.children[q]) - 1
      /\ Cardinality(t.children[p] \cup {x}) = Cardinality(t.children[p]) + 1
  BY <1>1, <1>3, ChildrenFinite, FS_AddElement, FS_RemoveElement, ZenonT(30)
<1>5. \A n \in X0 : u.nrChild[n] = Cardinality(u.children[n])
  BY <1>1, <1>2, <1>3, <1>4
<1>6. \A n \in X0 : u.children[n] = {y \in X0 : u.parent[y] = n}
  <2>1. SUFFICES ASSUME NEW n \in X0
                 PROVE  u.children[n] = {y \in X0 : u.parent[y] = n}
    OBVIOUS
  <2>2. \A y \in X0 : u.parent[y] = IF y = x THEN p ELSE t.parent[y]
    BY <1>2 DEF TreeType
  <2>3. t.children[n] = {y \in X0 : t.parent[y] = n}
    BY <1>3
  <2>4. CASE n = p
    <3>1. u.children[n] = t.children[n] \cup {x}
      BY <1>2, <2>4
    <3>2. QED
      BY <1>1, <2>2, <2>3, <2>4, <3>1
  <2>5. CASE n = q
    <3>1. u.children[n] = t.children[n] \ {x}
      BY <1>1, <1>2, <2>5
    <3>2. QED
      BY <1>1, <2>2, <2>3, <2>5, <3>1
  <2>6. CASE n # p /\ n # q
    <3>1. u.children[n] = t.children[n]
      BY <1>2, <2>6
    <3>2. QED
      BY <1>1, <2>2, <2>3, <2>6, <3>1
  <2>7. QED
    BY <2>4, <2>5, <2>6
<1>7. u \in TreeType
  <2>1. \A n \in X0 : u.nrChild[n] \in Nat
    <3>1. SUFFICES ASSUME NEW n \in X0 PROVE u.nrChild[n] \in Nat
      OBVIOUS
    <3>2. u.children[n] \subseteq X0
      BY <1>6
    <3>3. IsFiniteSet(u.children[n])
      BY <3>2, FS_Subset, NodesAssumption
    <3>4. QED
      BY <1>5, <3>3, FS_CardinalityType
  <2>2. u.nrChild \in [X0 -> Nat]
    BY <2>1 DEF XSetParent, TreeType
  <2>3. u.children \in [X0 -> SUBSET X0]
    BY <1>1 DEF XSetParent, TreeType
  <2>4. u.parent \in [X0 -> X0 \cup {NoNode}]
    BY <1>1 DEF XSetParent, TreeType
  <2>5. u.live \in SUBSET X0
    BY DEF XSetParent, TreeType
  <2>6. QED
    BY <2>2, <2>3, <2>4, <2>5 DEF XSetParent, TreeType
<1>8. U \in u.live /\ u.parent[U] = NoNode
  BY <1>1, <1>2 DEF LinksAgree, TreeType, X0
<1>9. \A y \in X0 \ {U} : y \in u.live <=> u.parent[y] # NoNode
  BY <1>1, <1>2 DEF LinksAgree, TreeType
<1>10. QED
  BY <1>5, <1>6, <1>7, <1>8, <1>9 DEF LinksAgree

(* Moving a host to a live job keeps the levels. *)
LEMMA XSetParentLevels ==
  ASSUME NEW t \in TreeType, LevelsAgree(t),
         NEW h \in Hosts, h \in t.live, NEW j \in Jobs, j \in t.live
  PROVE  LevelsAgree(XSetParent(t, h, j))
BY NodesAssumption DEF XSetParent, LevelsAgree, TreeType, X0

(* x_destroy of a childless node below another one. *)
LEMMA XDestroyLinks ==
  ASSUME NEW t \in TreeType, LinksAgree(t),
         NEW x \in t.live, x # U, t.nrChild[x] = 0
  PROVE  XDestroy(t, x) \in TreeType /\ LinksAgree(XDestroy(t, x))
<1> DEFINE q == t.parent[x]
           u == XDestroy(t, x)
<1>1. x \in X0 /\ q \in X0 /\ NoNode \notin X0 /\ U \in X0
  BY NodesAssumption DEF TreeType, LinksAgree, X0
<1>2. \A n \in X0 : /\ t.children[n] = {y \in X0 : t.parent[y] = n}
                    /\ t.nrChild[n] = Cardinality(t.children[n])
  BY DEF LinksAgree
<1>3. t.children[x] = {}
  BY <1>1, <1>2, ChildrenFinite, FS_EmptySet
<1>4. q # x
  BY <1>1, <1>2, <1>3
<1>5. /\ u.live = t.live \ {x}
      /\ u.parent = [n \in X0 |-> IF n = x THEN NoNode ELSE t.parent[n]]
      /\ u.children = [n \in X0 |-> t.children[n] \ {x}]
      /\ u.nrChild = [n \in X0 |-> IF n = q THEN t.nrChild[n] - 1 ELSE t.nrChild[n]]
  <2>1. u.live = t.live \ {x}
    BY DEF XDestroy
  <2>2. u.parent = [n \in X0 |-> IF n = x THEN NoNode ELSE t.parent[n]]
    BY <1>3 DEF XDestroy
  <2>3. u.children = [n \in X0 |-> t.children[n] \ {x}]
    BY <1>3 DEF XDestroy
  <2>4. Cardinality(t.children[x]) = 0 /\ \A n \in X0 : t.nrChild[n] \in Nat
    BY <1>3, FS_EmptySet DEF TreeType
  <2>5. u.nrChild = [n \in X0 |-> IF n = x THEN 0
                     ELSE t.nrChild[n] - (IF n = q THEN 1 ELSE 0)
                          + (IF n = U THEN Cardinality(t.children[x]) ELSE 0)]
    BY DEF XDestroy
  <2>6. QED
    BY <1>1, <1>4, <2>1, <2>2, <2>3, <2>4, <2>5
<1>6. \A n \in X0 : u.children[n] = {y \in X0 : u.parent[y] = n}
  <2>1. SUFFICES ASSUME NEW n \in X0
                 PROVE  u.children[n] = {y \in X0 : u.parent[y] = n}
    OBVIOUS
  <2>2. n # NoNode
    BY <1>1
  <2>3. QED
    BY <1>1, <1>2, <1>5, <2>2
<1>7. \A n \in X0 : u.nrChild[n] = Cardinality(u.children[n])
  <2>1. SUFFICES ASSUME NEW n \in X0
                 PROVE  u.nrChild[n] = Cardinality(u.children[n])
    OBVIOUS
  <2>2. CASE n = q
    <3>1. x \in t.children[q]
      BY <1>1, <1>2
    <3>2. Cardinality(t.children[q] \ {x}) = Cardinality(t.children[q]) - 1
      BY <1>1, <3>1, ChildrenFinite, FS_RemoveElement
    <3>3. QED
      BY <1>1, <1>2, <1>5, <2>2, <3>2
  <2>3. CASE n # q
    <3>1. t.children[n] \ {x} = t.children[n]
      BY <1>1, <1>2, <2>3
    <3>2. QED
      BY <1>2, <1>5, <2>3, <3>1
  <2>4. QED
    BY <2>2, <2>3
<1>8. u \in TreeType
  <2>1. \A n \in X0 : u.nrChild[n] \in Nat
    <3>1. SUFFICES ASSUME NEW n \in X0 PROVE u.nrChild[n] \in Nat
      OBVIOUS
    <3>2. u.children[n] \subseteq X0
      BY <1>6
    <3>3. QED
      BY <1>7, <3>2, FS_Subset, FS_CardinalityType, NodesAssumption
  <2>2. /\ u.nrChild \in [X0 -> Nat]
        /\ u.children \in [X0 -> SUBSET X0]
        /\ u.parent \in [X0 -> X0 \cup {NoNode}]
        /\ u.live \in SUBSET X0
    BY <1>5, <2>1 DEF TreeType
  <2>3. QED
    BY <2>2 DEF XDestroy, TreeType
<1>9. U \in u.live /\ u.parent[U] = NoNode
  BY <1>1, <1>5 DEF LinksAgree
<1>10. \A y \in X0 \ {U} : y \in u.live <=> u.parent[y] # NoNode
  BY <1>1, <1>5 DEF LinksAgree
<1>11. QED
  BY <1>6, <1>7, <1>8, <1>9, <1>10 DEF LinksAgree

(* Destroying a job without hosts that is not an idle job keeps the levels. *)
LEMMA XDestroyLevels ==
  ASSUME NEW t \in TreeType, LinksAgree(t), LevelsAgree(t),
         NEW j \in Jobs, j \in t.live, j \notin IdleJobs, t.nrChild[j] = 0
  PROVE  LevelsAgree(XDestroy(t, j))
<1>1. t.children[j] = {}
  BY ChildrenFinite, FS_EmptySet DEF LinksAgree, X0
<1>2. \A y \in X0 : t.parent[y] # j
  BY <1>1 DEF LinksAgree, X0
<1>3. QED
  BY <1>1, <1>2, NodesAssumption DEF XDestroy, LevelsAgree, TreeType, X0

-----------------------------------------------------------------------------
(* The tree invariant. *)

GoodTree(t) == t \in TreeType /\ LinksAgree(t) /\ LevelsAgree(t)

(* job_lookup makes the job if it is new and leaves the other nodes alone. *)
LEMMA JobLookupGood ==
  ASSUME NEW t, GoodTree(t), NEW c \in Clusters, NEW j \in Jobs
  PROVE  LET u == JobLookup(t, c, j) IN
         /\ GoodTree(u)
         /\ u.live = t.live \cup {j}
         /\ \A x \in X0 : x # j \/ j \in t.live => u.parent[x] = t.parent[x]
<1>1. CASE j \in t.live
  BY <1>1 DEF JobLookup, GoodTree, TreeType
<1>2. CASE j \notin t.live
  <2>1. /\ t \in TreeType /\ LinksAgree(t) /\ LevelsAgree(t)
        /\ j \in X0 /\ c \in t.live /\ JobLookup(t, c, j) = XInit(t, j, c)
    BY <1>2 DEF GoodTree, LevelsAgree, X0, JobLookup
  <2>2. GoodTree(XInit(t, j, c))
    BY <1>2, <2>1, XInitLinks, XInitLevels DEF GoodTree
  <2>3. QED
    BY <1>2, <2>1, <2>2 DEF XInit, TreeType
<1>3. QED
  BY <1>1, <1>2

(* x_host_lookup likewise; a new host goes into an idle job. *)
LEMMA HostLookupGood ==
  ASSUME NEW t, GoodTree(t), NEW h \in Hosts
  PROVE  LET u == HostLookup(t, h) IN
         /\ GoodTree(u)
         /\ u.live = t.live \cup {h}
         /\ \A x \in X0 : x # h \/ h \in t.live => u.parent[x] = t.parent[x]
         /\ h \notin t.live => u.parent[h] = IdleJob[ClusOf[h]]
<1>1. CASE h \in t.live
  BY <1>1 DEF HostLookup, GoodTree, TreeType
<1>2. CASE h \notin t.live
  <2> DEFINE i == IdleJob[ClusOf[h]]
  <2>1. /\ t \in TreeType /\ LinksAgree(t) /\ LevelsAgree(t)
        /\ h \in X0 /\ i \in Jobs /\ i \in t.live /\ HostLookup(t, h) = XInit(t, h, i)
    BY <1>2, ConfigAssumption DEF GoodTree, LevelsAgree, X0, HostLookup, IdleJobs
  <2>2. GoodTree(XInit(t, h, i))
    BY <1>2, <2>1, XInitLinks, XInitLevels DEF GoodTree
  <2>3. QED
    BY <1>2, <2>1, <2>2 DEF XInit, TreeType
<1>3. QED
  BY <1>1, <1>2

LEMMA NewHostGood ==
  ASSUME NEW t, GoodTree(t), NEW h \in Hosts, h \notin t.live,
         NEW j \in Jobs, j \in t.live
  PROVE  GoodTree(XInit(t, h, j))
BY XInitLinks, XInitLevels DEF GoodTree, X0

LEMMA MoveHostGood ==
  ASSUME NEW t, GoodTree(t), NEW h \in Hosts, h \in t.live,
         NEW j \in Jobs, j \in t.live, t.parent[h] # j
  PROVE  GoodTree(XSetParent(t, h, j))
BY XSetParentLinks, XSetParentLevels, NodesAssumption DEF GoodTree

LEMMA DestroyJobGood ==
  ASSUME NEW t, GoodTree(t), NEW j \in Jobs, j \in t.live,
         j \notin IdleJobs, t.nrChild[j] = 0
  PROVE  GoodTree(XDestroy(t, j))
BY XDestroyLinks, XDestroyLevels, NodesAssumption DEF GoodTree

(* TypeOK and TreeConsistent are not inductive on their own: that a timer  *)
(* never frees an idle job needs j_fake of the idle jobs, and that a timer *)
(* is never active for a freed or a fake job.                              *)
TreeInv ==
  /\ TypeOK
  /\ GoodTree(tree)
  /\ \A i \in IdleJobs : fake[i]
  /\ \A j \in zombie : j \in tree.live /\ ~fake[j]

LEMMA InitTreeInv == Init => TreeInv
<1> SUFFICES ASSUME Init PROVE TreeInv
  OBVIOUS
<1>1. /\ FileHosts \subseteq Hosts /\ IdleJobs \subseteq Jobs
      /\ \A h \in Hosts : IdleJob[ClusOf[h]] \in IdleJobs
  BY ConfigAssumption DEF FileHosts, IdleJobs
<1>2. \A i \in IdleJobs : \E c \in Clusters : IdleJob[c] = i
  BY DEF IdleJobs
<1>3. \A i \in IdleJobs : (CHOOSE c \in Clusters : IdleJob[c] = i) \in Clusters
  BY <1>2
<1>4. /\ InitParent \in [X0 -> X0 \cup {NoNode}]
      /\ \A x \in FileHosts : InitParent[x] = IdleJob[ClusOf[x]]
      /\ \A x \in IdleJobs : InitParent[x] \in Clusters
      /\ \A x \in Clusters : InitParent[x] = U
      /\ \A x \in X0 : x \notin FileHosts \cup IdleJobs \cup Clusters => InitParent[x] = NoNode
  BY <1>1, <1>3, NodesAssumption DEF InitParent, X0
<1>5. InitChildren \in [X0 -> SUBSET X0]
      /\ \A p \in X0 : IsFiniteSet(InitChildren[p])
                      /\ InitChildren[p] = {y \in X0 : InitParent[y] = p}
  <2>1. \A p \in X0 : InitChildren[p] = {y \in X0 : InitParent[y] = p}
    BY DEF InitChildren
  <2>2. \A p \in X0 : InitChildren[p] \subseteq X0
    BY <2>1
  <2>3. QED
    BY <2>1, <2>2, FS_Subset, NodesAssumption DEF InitChildren
<1>6. /\ tree.live = FileHosts \cup IdleJobs \cup Clusters \cup {U}
      /\ tree.parent = InitParent
      /\ tree.children = InitChildren
      /\ tree.nrChild = [n \in X0 |-> Cardinality(InitChildren[n])]
  BY DEF Init
<1>7. tree \in TreeType
  <2>1. [n \in X0 |-> Cardinality(InitChildren[n])] \in [X0 -> Nat]
    BY <1>5, FS_CardinalityType
  <2>2. FileHosts \cup IdleJobs \cup Clusters \cup {U} \in SUBSET X0
    BY <1>1 DEF X0
  <2>3. QED
    BY <1>4, <1>5, <2>1, <2>2 DEF Init, TreeType
<1>8. LinksAgree(tree)
  <2>1. U \in tree.live /\ tree.parent[U] = NoNode
    BY <1>1, <1>4, <1>6, NodesAssumption DEF X0
  <2>2. \A x \in X0 \ {U} : x \in tree.live <=> tree.parent[x] # NoNode
    BY <1>1, <1>4, <1>6, NodesAssumption DEF X0
  <2>3. QED
    BY <1>5, <1>6, <2>1, <2>2 DEF LinksAgree
<1>9. LevelsAgree(tree)
  BY <1>1, <1>4, <1>6, NodesAssumption DEF LevelsAgree, X0
<1>10. TypeOK
  BY <1>7, ConfigAssumption DEF Init, TypeOK
<1>11. QED
  BY <1>1, <1>7, <1>8, <1>9, <1>10 DEF Init, TreeInv, GoodTree

(* x_update walks from a host to its job, its cluster and U, and from a    *)
(* server to its filesystem and V.                                         *)
LEMMA Path0Is ==
  ASSUME NEW t, GoodTree(t), NEW h \in Hosts, h \in t.live
  PROVE  LET j == t.parent[h]
             c == t.parent[j]
         IN /\ Path0(t, h) = {h, j, c, U}
            /\ j \in Jobs \cap t.live /\ c \in Clusters /\ t.parent[c] = U
            /\ Path0(t, h) \subseteq t.live
<1> DEFINE j == t.parent[h]
           c == t.parent[j]
<1>1. h \in X0 /\ j \in Jobs \cap t.live /\ c \in Clusters /\ t.parent[c] = U
  BY DEF GoodTree, LevelsAgree, X0
<1>2. NoNode \notin {h, j, c, U}
  BY <1>1, NodesAssumption DEF X0
<1>3. Path0(t, h) = {h, j, c, U}
  BY <1>1, <1>2 DEF Path0, Up
<1>4. {h, j, c, U} \subseteq t.live
  BY <1>1 DEF GoodTree, LevelsAgree, LinksAgree
<1>5. QED
  BY <1>1, <1>3, <1>4

LEMMA Path1Is ==
  /\ \A s \in Servs : Path1(s) = {s, FsOf[s], V}
  /\ \A f \in Filesystems : Path1(f) = {f, V}
  /\ Path1(V) = {V}
  /\ \A y \in X1 : Path1(y) \subseteq X1 /\ y \in Path1(y) /\ V \in Path1(y)
<1>1. /\ \A s \in Servs : Path1(s) = {s, FsOf[s], V} /\ FsOf[s] \in Filesystems
      /\ \A f \in Filesystems : Path1(f) = {f, V}
      /\ Path1(V) = {V}
  BY NodesAssumption, ConfigAssumption DEF Path1
<1>2. QED
  BY <1>1 DEF X1

(* x_update only adds k_nodes, for pairs of live nodes. *)
LEMMA KUpdateType ==
  ASSUME NEW t, GoodTree(t), NEW h \in Hosts, h \in t.live,
         NEW s \in Servs, NEW d \in Deltas, NEW k, NEW lost,
         k \in [DOMAIN k -> Int]
  PROVE  /\ KUpdate(k, t, h, s, d, lost) \in
              [DOMAIN k \cup (Pairs(t, h, s) \ lost) -> Int]
         /\ Pairs(t, h, s) \subseteq X0 \X X1
<1> DEFINE u == KUpdate(k, t, h, s, d, lost)
<1>1. Path0(t, h) \subseteq X0 /\ Path1(s) \subseteq X1
  BY Path0Is, Path1Is DEF GoodTree, TreeType, X1
<1>2. Pairs(t, h, s) \subseteq X0 \X X1
  BY <1>1 DEF Pairs
<1>3. d \in Int
  BY ConfigAssumption
<1>4. u \in [DOMAIN k \cup (Pairs(t, h, s) \ lost) -> Int]
  BY <1>3 DEF KUpdate
<1>5. QED
  BY <1>2, <1>4

(* The host of a report: the one entered for its nid, or one named by it. *)
LEMMA NidLookupType ==
  ASSUME TypeOK, NEW s \in Servs, NEW n \in Nids
  PROVE  NidLookup(s, n) \in Hosts
BY ConfigAssumption DEF TypeOK, NidLookup

LEMMA ServMsgNidTree ==
  ASSUME TreeInv, NEW s \in Servs, NEW n \in Nids, ServMsgNid(s, n)
  PROVE  /\ GoodTree(tree')
         /\ NidLookup(s, n) \in Hosts /\ NidLookup(s, n) \in tree'.live
         /\ tree.live \subseteq tree'.live
         /\ tree'.live = tree.live \cup {NidLookup(s, n)}
         /\ nidHost' \in [Lnets -> [Nids -> Hosts \cup {NoNode}]]
BY NidLookupType, HostLookupGood, ConfigAssumption DEF TreeInv, ServMsgNid, TypeOK

LEMMA NextTreeInv == TreeInv /\ [Next]_vars => TreeInv'
<1> SUFFICES ASSUME TreeInv, [Next]_vars PROVE TreeInv'
  OBVIOUS
<1> USE DEF TreeInv
<1>1. ASSUME NEW c \in Clusters, NEW h \in Hosts, NEW j \in Jobs, ClusMsgNewHost(c, h, j)
      PROVE  TreeInv'
  <2> DEFINE u == JobLookup(tree, c, j)
  <2>1. /\ GoodTree(u) /\ u.live = tree.live \cup {j}
        /\ h \notin u.live
    BY <1>1, JobLookupGood, NodesAssumption DEF ClusMsgNewHost
  <2>2. GoodTree(tree') /\ tree.live \subseteq tree'.live
    BY <1>1, <2>1, NewHostGood, SMTT(20) DEF ClusMsgNewHost, XInit
  <2>3. /\ fake' \in [Jobs -> BOOLEAN]
        /\ \A i \in Jobs \cap tree.live : fake'[i] = fake[i]
    BY <1>1 DEF ClusMsgNewHost, FakeAfterLookup, TypeOK
  <2>4. IdleJobs \subseteq Jobs \cap tree.live
    BY ConfigAssumption DEF GoodTree, LevelsAgree, IdleJobs
  <2>5. QED
    BY <1>1, <2>2, <2>3, <2>4 DEF ClusMsgNewHost, TypeOK, GoodTree
<1>2. ASSUME NEW c \in Clusters, NEW h \in Hosts, NEW j \in Jobs, ClusMsgMoveHost(c, h, j)
      PROVE  TreeInv'
  <2> DEFINE u == JobLookup(tree, c, j)
             p == tree.parent[h]
  <2>1. /\ GoodTree(u) /\ u.live = tree.live \cup {j}
        /\ h \in u.live /\ u.parent[h] = p /\ p # j /\ p \in Jobs \cap tree.live
    BY <1>2, JobLookupGood, NodesAssumption DEF ClusMsgMoveHost, GoodTree, LevelsAgree, X0
  <2>2. GoodTree(tree') /\ tree.live \subseteq tree'.live
    BY <1>2, <2>1, MoveHostGood DEF ClusMsgMoveHost, XSetParent
  <2>3. /\ fake' \in [Jobs -> BOOLEAN]
        /\ \A i \in Jobs \cap tree.live : fake'[i] = fake[i]
    BY <1>2 DEF ClusMsgMoveHost, FakeAfterLookup, TypeOK
  <2>4. IdleJobs \subseteq Jobs \cap tree.live
    BY ConfigAssumption DEF GoodTree, LevelsAgree, IdleJobs
  <2>5. zombie' = zombie \/ (zombie' = zombie \cup {p} /\ ~fake'[p])
    BY <1>2 DEF ClusMsgMoveHost, JobEnd
  <2>6. QED
    BY <1>2, <2>1, <2>2, <2>3, <2>4, <2>5 DEF ClusMsgMoveHost, TypeOK, GoodTree
<1>3. ASSUME NEW s \in Servs, NEW n \in Nids, NEW d \in Deltas, ServMsg(s, n, d)
      PROVE  TreeInv'
  <2>1. ServMsgNid(s, n)
    BY <1>3 DEF ServMsg
  <2>2. PICK lost : ksum' = KUpdate(ksum, tree', NidLookup(s, n), s, d, lost)
    BY <1>3 DEF ServMsg
  <2>3. DOMAIN ksum' \subseteq X0 \X X1 /\ ksum' \in [DOMAIN ksum' -> Int]
    <3> DEFINE h == NidLookup(s, n)
               D == DOMAIN ksum \cup (Pairs(tree', h, s) \ lost)
    <3>1. ksum \in [DOMAIN ksum -> Int] /\ DOMAIN ksum \subseteq X0 \X X1
      BY DEF TypeOK
    <3>2. GoodTree(tree') /\ h \in Hosts /\ h \in tree'.live
      BY <2>1, ServMsgNidTree
    <3>3. /\ KUpdate(ksum, tree', h, s, d, lost) \in [D -> Int]
          /\ Pairs(tree', h, s) \subseteq X0 \X X1
      BY <3>1, <3>2, KUpdateType
    <3>4. QED
      BY <2>2, <3>1, <3>3
  <2>4. QED
    BY <2>1, <2>3, ServMsgNidTree DEF TypeOK, GoodTree, ServMsgNid
<1>4. ASSUME NEW s \in Servs, NEW n \in Nids, ServMsgMalformed(s, n)
      PROVE  TreeInv'
  BY <1>4, ServMsgNidTree DEF ServMsgMalformed, TypeOK, GoodTree, ServMsgNid
<1>5. ASSUME NEW j \in Jobs, ZombieFires(j)
      PROVE  TreeInv'
  <2>1. j \in tree.live /\ ~fake[j] /\ j \notin IdleJobs
    BY <1>5 DEF ZombieFires
  <2>2. CASE tree.nrChild[j] = 0
    <3>1. tree' = XDestroy(tree, j) /\ ksum' = KDestroy(ksum, j) /\ zombie' = zombie \ {j}
      BY <1>5, <2>1, <2>2 DEF ZombieFires
    <3>2. GoodTree(tree')
      BY <2>1, <2>2, <3>1, DestroyJobGood
    <3>3. tree'.live = tree.live \ {j}
      BY <3>1 DEF XDestroy
    <3>4. DOMAIN ksum' \subseteq DOMAIN ksum /\ ksum' \in [DOMAIN ksum' -> Int]
      BY <3>1 DEF KDestroy, TypeOK
    <3>5. QED
      BY <1>5, <3>1, <3>2, <3>3, <3>4 DEF ZombieFires, TypeOK, GoodTree
  <2>3. CASE tree.nrChild[j] # 0
    <3>1. UNCHANGED vars
      BY <1>5, <2>1, <2>3 DEF ZombieFires, vars
    <3>2. QED
      BY <3>1 DEF vars, TypeOK, GoodTree
  <2>4. QED
    BY <2>2, <2>3
<1>6. CASE UNCHANGED vars
  BY <1>6 DEF vars, TypeOK, GoodTree
<1>7. QED
  BY <1>1, <1>2, <1>3, <1>4, <1>5, <1>6 DEF Next, ClusMsg

LEMMA TreeInvAlways == Spec => []TreeInv
BY InitTreeInv, NextTreeInv, PTL DEF Spec

(* Every variable keeps its type: no count of children becomes negative,   *)
(* every k_node is of a consumer and a provider.                           *)
THEOREM TypeCorrect == Spec => []TypeOK
<1>1. TreeInv => TypeOK
  BY DEF TreeInv
<1>2. QED
  BY <1>1, TreeInvAlways, PTL

(* The parent pointers, the child lists and the child counts agree after   *)
(* every handler, whatever allocation fails, and no host is ever left in a *)
(* freed job.                                                              *)
THEOREM TreeAlwaysConsistent == Spec => []TreeConsistent
<1>1. TreeInv => TreeConsistent
  BY DEF TreeInv, GoodTree, TreeConsistent
<1>2. QED
  BY <1>1, TreeInvAlways, PTL

-----------------------------------------------------------------------------
(* The table of k_nodes.  From here on malloc does not fail: a k_node that *)
(* x_update could not make breaks the chain k_destroy follows.             *)

(* The providers above a provider above s are above s. *)
LEMMA Path1Transitive ==
  ASSUME NEW s \in X1, NEW y \in Path1(s)
  PROVE  y \in X1 /\ Path1(y) \subseteq Path1(s)
<1>1. CASE s \in Servs
  BY <1>1, Path1Is, ConfigAssumption DEF X1
<1>2. CASE s \in Filesystems
  BY <1>2, Path1Is DEF X1
<1>3. CASE s = V
  BY <1>3, Path1Is DEF X1
<1>4. QED
  BY <1>1, <1>2, <1>3 DEF X1

(* Neither half is inductive alone: k_destroy removes every k_node of a    *)
(* job only because none is cut off from <<job, V>>.                       *)
KInv == NothingDangles /\ KReachable

(* What a report does to the table. *)
LEMMA ServMsgTable ==
  ASSUME ~AllocMayFail, TreeInv,
         NEW s \in Servs, NEW n \in Nids, NEW d \in Deltas, ServMsg(s, n, d)
  PROVE  DOMAIN ksum' = DOMAIN ksum \cup Pairs(tree', NidLookup(s, n), s)
<1>1. ksum' = KUpdate(ksum, tree', NidLookup(s, n), s, d, {})
  BY DEF ServMsg
<1>2. QED
  BY <1>1 DEF KUpdate

(* What freeing a job does to the table. *)
LEMMA KDestroyTable ==
  ASSUME TreeInv, KReachable, NEW j \in Jobs
  PROVE  /\ DOMAIN KDestroy(ksum, j) = {q \in DOMAIN ksum : q[1] # j}
         /\ \A q \in DOMAIN KDestroy(ksum, j) : KDestroy(ksum, j)[q] = ksum[q]
<1> DEFINE gone == {<<j, y>> : y \in {z \in X1 : \A b \in Path1(z) : <<j, b>> \in DOMAIN ksum}}
<1>1. DOMAIN ksum \subseteq X0 \X X1
  BY DEF TreeInv, TypeOK
<1>2. ASSUME NEW q \in DOMAIN ksum, q[1] = j
      PROVE  q \in gone
  <2>1. q = <<j, q[2]>> /\ q[2] \in X1
    BY <1>1, <1>2
  <2>2. \A b \in Path1(q[2]) : <<j, b>> \in DOMAIN ksum
    BY <1>2 DEF KReachable
  <2>3. QED
    BY <2>1, <2>2
<1>3. \A q \in gone : q[1] = j
  OBVIOUS
<1>4. DOMAIN ksum \ gone = {q \in DOMAIN ksum : q[1] # j}
  BY <1>2, <1>3
<1>5. QED
  BY <1>4 DEF KDestroy

LEMMA NextKInv ==
  ASSUME ~AllocMayFail, TreeInv, KInv, [Next]_vars
  PROVE  KInv'
<1> USE DEF KInv
<1>1. ASSUME tree.live \subseteq tree'.live, UNCHANGED <<nidHost, ksum>>
      PROVE  KInv'
  BY <1>1 DEF NothingDangles, KReachable
<1>2. ASSUME NEW c \in Clusters, NEW h \in Hosts, NEW j \in Jobs, ClusMsg(c, h, j)
      PROVE  KInv'
  <2>1. tree.live \subseteq tree'.live
    BY <1>2, JobLookupGood
    DEF ClusMsg, ClusMsgNewHost, ClusMsgMoveHost, XInit, XSetParent, TreeInv
  <2>2. QED
    BY <1>1, <1>2, <2>1 DEF ClusMsg, ClusMsgNewHost, ClusMsgMoveHost
<1>3. ASSUME NEW s \in Servs, NEW n \in Nids, ServMsgNid(s, n)
      PROVE  (\A l \in Lnets, m \in Nids : nidHost[l][m] \in tree.live \cup {NoNode})'
  <2>1. /\ NidLookup(s, n) \in tree'.live
        /\ tree.live \subseteq tree'.live
    BY <1>3, ServMsgNidTree
  <2>2. \A l \in Lnets, m \in Nids :
          nidHost'[l][m] \in {nidHost[l][m], NidLookup(s, n)}
    BY <1>3 DEF ServMsgNid, TreeInv, TypeOK
  <2>3. QED
    BY <2>1, <2>2 DEF NothingDangles
<1>4. ASSUME NEW s \in Servs, NEW n \in Nids, NEW d \in Deltas, ServMsg(s, n, d)
      PROVE  KInv'
  <2> DEFINE h == NidLookup(s, n)
             P == Pairs(tree', h, s)
  <2>1. ServMsgNid(s, n)
    BY <1>4 DEF ServMsg
  <2>2. DOMAIN ksum' = DOMAIN ksum \cup P
    BY <1>4, ServMsgTable
  <2>3. /\ GoodTree(tree') /\ h \in Hosts /\ h \in tree'.live
        /\ tree.live \subseteq tree'.live
    BY <2>1, ServMsgNidTree
  <2>4. Path0(tree', h) \subseteq tree'.live /\ U \in Path0(tree', h)
    BY <2>3, Path0Is
  <2>5. \A q \in P : q = <<q[1], q[2]>> /\ q[1] \in Path0(tree', h) /\ q[2] \in Path1(s)
    BY DEF Pairs
  <2>6. \A q \in DOMAIN ksum' : q[1] \in tree'.live
    BY <2>2, <2>3, <2>4, <2>5 DEF NothingDangles
  <2>7. ASSUME NEW q \in DOMAIN ksum'
        PROVE  /\ \A b \in Path1(q[2]) : <<q[1], b>> \in DOMAIN ksum'
               /\ <<U, q[2]>> \in DOMAIN ksum'
    <3>1. CASE q \in DOMAIN ksum
      BY <2>2, <3>1 DEF KReachable
    <3>2. CASE q \in P
      <4>1. Path1(q[2]) \subseteq Path1(s)
        BY <2>5, <3>2, Path1Transitive DEF X1
      <4>2. \A b \in Path1(q[2]) : <<q[1], b>> \in P
        BY <2>5, <3>2, <4>1 DEF Pairs
      <4>3. <<U, q[2]>> \in P
        BY <2>4, <2>5, <3>2 DEF Pairs
      <4>4. QED
        BY <2>2, <4>2, <4>3
    <3>3. QED
      BY <2>2, <3>1, <3>2
  <2>8. QED
    BY <1>3, <2>1, <2>6, <2>7 DEF NothingDangles, KReachable
<1>5. ASSUME NEW s \in Servs, NEW n \in Nids, ServMsgMalformed(s, n)
      PROVE  KInv'
  <2>1. ServMsgNid(s, n) /\ ksum' = ksum /\ tree.live \subseteq tree'.live
    BY <1>5, ServMsgNidTree DEF ServMsgMalformed
  <2>2. QED
    BY <1>3, <2>1 DEF NothingDangles, KReachable
<1>6. ASSUME NEW j \in Jobs, ZombieFires(j)
      PROVE  KInv'
  <2>1. CASE ~fake[j] /\ tree.nrChild[j] = 0
    <3>1. tree'.live = tree.live \ {j} /\ ksum' = KDestroy(ksum, j) /\ nidHost' = nidHost
      BY <1>6, <2>1 DEF ZombieFires, XDestroy
    <3>2. DOMAIN ksum' = {q \in DOMAIN ksum : q[1] # j}
      BY <3>1, KDestroyTable
    <3>3. j # U /\ j \notin Hosts /\ U # NoNode
      BY NodesAssumption DEF X0
    <3>4. \A l \in Lnets, n \in Nids : nidHost[l][n] \in Hosts \cup {NoNode}
      BY DEF TreeInv, TypeOK
    <3>5. \A l \in Lnets, n \in Nids : nidHost'[l][n] \in tree'.live \cup {NoNode}
      BY <3>1, <3>3, <3>4 DEF NothingDangles
    <3>6. QED
      BY <3>1, <3>2, <3>3, <3>5 DEF NothingDangles, KReachable
  <2>2. CASE ~(~fake[j] /\ tree.nrChild[j] = 0)
    BY <1>1, <1>6, <2>2 DEF ZombieFires
  <2>3. QED
    BY <2>1, <2>2
<1>7. CASE UNCHANGED vars
  BY <1>1, <1>7 DEF vars
<1>8. QED
  BY <1>2, <1>4, <1>5, <1>6, <1>7 DEF Next

LEMMA InitKInv == Init => KInv
<1> SUFFICES ASSUME Init PROVE KInv
  OBVIOUS
<1>1. DOMAIN ksum = {}
  BY DEF Init
<1>2. \A l \in Lnets, n \in Nids : LnetFile[l][n] \in FileHosts \cup {NoNode}
  BY ConfigAssumption DEF FileHosts
<1>3. QED
  BY <1>1, <1>2 DEF Init, KInv, NothingDangles, KReachable

LEMMA KInvAlways ==
  ASSUME ~AllocMayFail
  PROVE  Spec => []KInv
<1>1. TreeInv /\ KInv /\ [Next]_vars => KInv'
  BY NextKInv
<1>2. QED
  BY <1>1, InitKInv, TreeInvAlways, PTL DEF Spec

(* No counter of a freed job stays in the table and no nid names a node    *)
(* that is not there.                                                      *)
THEOREM NothingEverDangles ==
  ASSUME ~AllocMayFail
  PROVE  Spec => []NothingDangles
<1>1. KInv => NothingDangles
  BY DEF KInv
<1>2. QED
  BY <1>1, KInvAlways, PTL

(* Every counter is below the counters its readers and its destructor      *)
(* start from.                                                             *)
THEOREM CountersStayReachable ==
  ASSUME ~AllocMayFail
  PROVE  Spec => []KReachable
<1>1. KInv => KReachable
  BY DEF KInv
<1>2. QED
  BY <1>1, KInvAlways, PTL

-----------------------------------------------------------------------------
(* The zombie timers. *)

(* Looking up a job or a host changes the child count of no other job. *)
LEMMA JobLookupCounts ==
  ASSUME NEW t, GoodTree(t), NEW c \in Clusters, NEW j \in Jobs, NEW i \in Jobs
  PROVE  JobLookup(t, c, j).nrChild[i] = t.nrChild[i]
<1>1. c # i
  BY NodesAssumption
<1>2. QED
  BY <1>1 DEF JobLookup, XInit, GoodTree, TreeType, X0

LEMMA HostLookupCounts ==
  ASSUME NEW t, GoodTree(t), NEW h \in Hosts, NEW i \in Jobs
  PROVE  HostLookup(t, h).nrChild[i] >= t.nrChild[i]
<1>1. IdleJob[ClusOf[h]] \in X0 /\ t.nrChild \in [X0 -> Nat] /\ i \in X0
  BY ConfigAssumption DEF GoodTree, TreeType, X0
<1>2. QED
  BY <1>1 DEF HostLookup, XInit

LEMMA NextNoJobForgotten ==
  ASSUME ~AllocMayFail, TreeInv, NoJobForgotten, [Next]_vars
  PROVE  NoJobForgotten'
<1>1. TreeInv'
  BY NextTreeInv
<1>2. SUFFICES ASSUME NEW i \in Jobs, i \in tree'.live, ~fake'[i], tree'.nrChild[i] = 0
               PROVE  i \in zombie'
  BY <1>1 DEF TreeInv, NoJobForgotten
<1>3. /\ tree.nrChild \in [X0 -> Nat] /\ Jobs \subseteq X0
      /\ GoodTree(tree) /\ TypeOK
  BY DEF TreeInv, GoodTree, TreeType, X0
<1>4. ASSUME i \in tree.live, fake'[i] = fake[i], tree.nrChild[i] = 0, zombie' = zombie
      PROVE  i \in zombie'
  BY <1>2, <1>4 DEF NoJobForgotten
<1>5. ASSUME NEW c \in Clusters, NEW h \in Hosts, NEW j \in Jobs, ClusMsgNewHost(c, h, j)
      PROVE  i \in zombie'
  <2> DEFINE u == JobLookup(tree, c, j)
  <2>1. GoodTree(u) /\ u.live = tree.live \cup {j} /\ u.nrChild[i] = tree.nrChild[i]
    BY <1>3, JobLookupGood, JobLookupCounts
  <2>2. tree' = XInit(u, h, j)
    BY <1>5 DEF ClusMsgNewHost, AllocOutcomes
  <2>3. u.nrChild \in [X0 -> Nat] /\ j \in X0 /\ i \in X0
    BY <1>3, <2>1 DEF GoodTree, TreeType
  <2>4. i # j /\ tree'.nrChild[i] = u.nrChild[i]
    BY <1>2, <2>2, <2>3 DEF XInit
  <2>5. i \in tree.live
    BY <1>2, <2>1, <2>2, <2>4, NodesAssumption DEF XInit
  <2>6. fake'[i] = fake[i]
    BY <1>3, <1>5, <2>4 DEF ClusMsgNewHost, FakeAfterLookup, TypeOK
  <2>7. QED
    BY <1>2, <1>4, <1>5, <2>1, <2>4, <2>5, <2>6 DEF ClusMsgNewHost
<1>6. ASSUME NEW c \in Clusters, NEW h \in Hosts, NEW j \in Jobs, ClusMsgMoveHost(c, h, j)
      PROVE  i \in zombie'
  <2> DEFINE u == JobLookup(tree, c, j)
             p == tree.parent[h]
  <2>1. GoodTree(u) /\ u.live = tree.live \cup {j} /\ u.nrChild[i] = tree.nrChild[i]
    BY <1>3, JobLookupGood, JobLookupCounts
  <2>2. u.parent[h] = p /\ p # j /\ p \in Jobs
    BY <1>3, <1>6, JobLookupGood, NodesAssumption
    DEF ClusMsgMoveHost, GoodTree, LevelsAgree, X0
  <2>3. tree' = XSetParent(u, h, j) /\ zombie' = JobEnd(zombie, tree', fake', p)
    BY <1>6 DEF ClusMsgMoveHost
  <2>4. u.nrChild \in [X0 -> Nat] /\ j \in X0 /\ i \in X0 /\ p \in X0
    BY <1>3, <2>1, <2>2 DEF GoodTree, TreeType
  <2>5. i # j
    BY <1>2, <2>2, <2>3, <2>4 DEF XSetParent
  <2>6. i \in tree.live
    BY <1>2, <2>1, <2>3, <2>5 DEF XSetParent
  <2>7. CASE i = p
    BY <1>2, <2>2, <2>3, <2>7 DEF JobEnd
  <2>8. CASE i # p
    <3>1. tree'.nrChild[i] = tree.nrChild[i]
      BY <2>1, <2>2, <2>3, <2>4, <2>5, <2>8 DEF XSetParent
    <3>2. fake'[i] = fake[i]
      BY <1>3, <1>6, <2>5 DEF ClusMsgMoveHost, FakeAfterLookup, TypeOK
    <3>3. i \in zombie
      BY <1>2, <2>6, <3>1, <3>2 DEF NoJobForgotten
    <3>4. QED
      BY <2>3, <3>3 DEF JobEnd
  <2>9. QED
    BY <2>7, <2>8
<1>7. ASSUME NEW s \in Servs, NEW n \in Nids, ServMsgNid(s, n)
      PROVE  i \in zombie'
  <2> DEFINE h == NidLookup(s, n)
  <2>1. tree' = HostLookup(tree, h) /\ h \in Hosts /\ fake' = fake /\ zombie' = zombie
    BY <1>3, <1>7, NidLookupType DEF ServMsgNid
  <2>2. tree'.live = tree.live \cup {h} /\ tree'.nrChild[i] >= tree.nrChild[i]
    BY <1>3, <2>1, HostLookupGood, HostLookupCounts
  <2>3. i \in tree.live
    BY <1>2, <2>1, <2>2, NodesAssumption
  <2>4. tree.nrChild[i] = 0
    BY <1>2, <1>3, <2>2
  <2>5. QED
    BY <1>4, <2>1, <2>3, <2>4
<1>8. ASSUME NEW j \in Jobs, ZombieFires(j)
      PROVE  i \in zombie'
  <2>1. j \in tree.live /\ ~fake[j] /\ fake' = fake
    BY <1>8 DEF ZombieFires, TreeInv
  <2>2. CASE tree.nrChild[j] = 0
    <3>1. tree' = XDestroy(tree, j) /\ zombie' = zombie \ {j}
      BY <1>8, <2>1, <2>2 DEF ZombieFires
    <3>2. i # j /\ i \in tree.live
      BY <1>2, <3>1 DEF XDestroy
    <3>3. tree.parent[j] \in Clusters
      BY <1>3, <2>1 DEF GoodTree, LevelsAgree
    <3>4. i # tree.parent[j] /\ i # U
      BY <3>3, NodesAssumption DEF X0
    <3>5. tree'.nrChild[i] = tree.nrChild[i]
      BY <1>3, <3>1, <3>2, <3>4 DEF XDestroy
    <3>6. QED
      BY <1>2, <2>1, <3>1, <3>2, <3>5 DEF NoJobForgotten
  <2>3. CASE tree.nrChild[j] # 0
    BY <1>2, <1>4, <1>8, <2>1, <2>3 DEF ZombieFires
  <2>4. QED
    BY <2>2, <2>3
<1>9. CASE UNCHANGED vars
  BY <1>2, <1>4, <1>9 DEF vars
<1>10. QED
  BY <1>5, <1>6, <1>7, <1>8, <1>9 DEF Next, ClusMsg, ServMsg, ServMsgMalformed

LEMMA InitNoJobForgotten == Init => NoJobForgotten
<1> SUFFICES ASSUME Init PROVE NoJobForgotten
  OBVIOUS
<1>1. \A j \in Jobs \cap tree.live : j \in IdleJobs
  BY ConfigAssumption, NodesAssumption DEF Init, FileHosts, X0
<1>2. QED
  BY <1>1 DEF Init, NoJobForgotten

(* As long as malloc succeeds, a job without hosts that is not marked fake *)
(* has its timer running: none is kept for ever.                           *)
THEOREM NoJobEverForgotten ==
  ASSUME ~AllocMayFail
  PROVE  Spec => []NoJobForgotten
<1>1. TreeInv /\ NoJobForgotten /\ [Next]_vars => NoJobForgotten'
  BY NextNoJobForgotten
<1>2. QED
  BY <1>1, InitNoJobForgotten, TreeInvAlways, PTL DEF Spec

-----------------------------------------------------------------------------
(* What a step may not do. *)

(* A job that exists before and after a step keeps its cluster. *)
LEMMA JobKeepsParent ==
  ASSUME TreeInv, [Next]_vars, NEW j \in Jobs, j \in tree.live, j \in tree'.live
  PROVE  tree'.parent[j] = tree.parent[j]
<1>1. GoodTree(tree) /\ tree \in TreeType /\ j \in X0 /\ j \notin Hosts
  BY NodesAssumption DEF TreeInv, GoodTree, X0
<1>2. ASSUME NEW c \in Clusters, NEW h \in Hosts, NEW i \in Jobs, ClusMsg(c, h, i)
      PROVE  tree'.parent[j] = tree.parent[j]
  <2> DEFINE u == JobLookup(tree, c, i)
  <2>1. u.parent[j] = tree.parent[j] /\ u.parent \in [X0 -> X0 \cup {NoNode}]
    BY <1>1, JobLookupGood DEF GoodTree, TreeType
  <2>2. tree' = u \/ tree'.parent = [u.parent EXCEPT ![h] = i]
    <3>1. tree' = u \/ tree' = XInit(u, h, i) \/ tree' = XSetParent(u, h, i)
      BY <1>2 DEF ClusMsg, ClusMsgNewHost, ClusMsgMoveHost
    <3>2. /\ XInit(u, h, i).parent = [u.parent EXCEPT ![h] = i]
          /\ XSetParent(u, h, i).parent = [u.parent EXCEPT ![h] = i]
      BY DEF XInit, XSetParent
    <3>3. QED
      BY <3>1, <3>2
  <2>3. QED
    BY <1>1, <2>1, <2>2
<1>3. ASSUME NEW s \in Servs, NEW n \in Nids, ServMsgNid(s, n)
      PROVE  tree'.parent[j] = tree.parent[j]
  BY <1>1, <1>3, HostLookupGood, NidLookupType DEF ServMsgNid, TreeInv
<1>4. ASSUME NEW i \in Jobs, ZombieFires(i)
      PROVE  tree'.parent[j] = tree.parent[j]
  <2>1. CASE tree' = tree
    BY <2>1
  <2>2. CASE tree' = XDestroy(tree, i) /\ tree.nrChild[i] = 0
    <3>1. i \in X0 /\ i # j
      BY <2>2 DEF X0, XDestroy
    <3>2. tree.children[i] = {}
      BY <1>1, <2>2, <3>1, ChildrenFinite, FS_EmptySet DEF GoodTree, LinksAgree
    <3>3. QED
      BY <1>1, <2>2, <3>1, <3>2 DEF XDestroy
  <2>3. QED
    BY <1>4, <2>1, <2>2 DEF ZombieFires
<1>5. CASE UNCHANGED vars
  BY <1>5 DEF vars
<1>6. QED
  BY <1>2, <1>3, <1>4, <1>5 DEF Next, ServMsg, ServMsgMalformed

(* A k_node is only ever removed together with the consumer it counts. *)
LEMMA KeepsCounters ==
  ASSUME TreeInv, [Next]_vars, NEW q \in DOMAIN ksum, q[1] \in tree'.live
  PROVE  q \in DOMAIN ksum'
<1>1. ASSUME NEW j \in Jobs, ZombieFires(j)
      PROVE  q \in DOMAIN ksum'
  <2>1. CASE ksum' = ksum
    BY <2>1
  <2>2. CASE tree' = XDestroy(tree, j) /\ ksum' = KDestroy(ksum, j)
    <3>1. q[1] # j
      BY <2>2 DEF XDestroy
    <3>2. \A y : q # <<j, y>>
      BY <3>1
    <3>3. QED
      BY <2>2, <3>2 DEF KDestroy
  <2>3. QED
    BY <1>1, <2>1, <2>2 DEF ZombieFires
<1>2. ASSUME NEW s \in Servs, NEW n \in Nids, NEW d \in Deltas, ServMsg(s, n, d)
      PROVE  q \in DOMAIN ksum'
  BY <1>2 DEF ServMsg, KUpdate
<1>3. CASE ksum' = ksum
  BY <1>3
<1>4. QED
  BY <1>1, <1>2, <1>3
  DEF Next, vars, ClusMsg, ClusMsgNewHost, ClusMsgMoveHost, ServMsgMalformed

(* A host a server's listing shows is shown until a message moves it. *)
THEOREM ListedAlwaysStays == Spec => ListedStays
<1> DEFINE Stays == \A s \in Servs : \A h \in Listed(s) :
                      tree'.parent[h] = tree.parent[h] => h \in Listed(s)'
<1>1. TreeInv /\ [Next]_vars => [Stays]_vars
  <2> SUFFICES ASSUME TreeInv, [Next]_vars,
                      NEW s \in Servs, NEW h \in Listed(s),
                      tree'.parent[h] = tree.parent[h]
               PROVE  h \in Listed(s)'
    OBVIOUS
  <2> DEFINE j == tree.parent[h]
             c == tree.parent[j]
  <2>1. TreeInv' /\ GoodTree(tree) /\ GoodTree(tree')
    BY NextTreeInv DEF TreeInv
  <2>2. /\ h \in Hosts /\ h \in tree.live
        /\ \A a \in Path0(tree, h) : <<a, s>> \in DOMAIN ksum
    BY DEF Listed
  <2>3. Path0(tree, h) = {h, j, c, U} /\ j \in Jobs /\ j \in tree.live
    BY <2>1, <2>2, Path0Is
  <2>4. h \in tree'.live
    <3>1. j # NoNode /\ h \in X0 \ {U}
      BY <2>2, <2>3, NodesAssumption DEF X0
    <3>2. QED
      BY <2>1, <3>1 DEF GoodTree, LinksAgree
  <2>5. j \in tree'.live
    BY <2>1, <2>2, <2>4 DEF GoodTree, LevelsAgree
  <2>6. tree'.parent[j] = c
    BY <2>3, <2>5, JobKeepsParent
  <2>7. Path0(tree', h) = {h, j, c, U} /\ Path0(tree', h) \subseteq tree'.live
    BY <2>1, <2>2, <2>4, <2>6, Path0Is
  <2>8. \A a \in {h, j, c, U} : <<a, s>> \in DOMAIN ksum'
    BY <2>2, <2>3, <2>7, KeepsCounters
  <2>9. QED
    BY <2>2, <2>4, <2>7, <2>8 DEF Listed
<1>2. QED
  BY <1>1, TreeInvAlways, PTL DEF Spec, ListedStays

-----------------------------------------------------------------------------
(* The flow tree implements the ledger: every step of FlowTree is a step   *)
(* of FlowLedger, or changes nothing a client of the ledger can see.       *)


LEMMA LedgerInit == Init => Ledger!Init
<1> SUFFICES ASSUME Init PROVE Ledger!Init
  OBVIOUS
<1>1. TreeInv
  BY InitTreeInv
<1>2. GoodTree(tree) /\ tree.parent \in [X0 -> X0 \cup {NoNode}]
  BY <1>1 DEF TreeInv, GoodTree, TreeType
<1>3. \A h \in Hosts : tree.parent[h] \in (Jobs \cap tree.live) \cup {NoNode}
  BY <1>2, NodesAssumption DEF GoodTree, LinksAgree, LevelsAgree, X0
<1>4. \A j \in Jobs : j \in tree.live => tree.parent[j] # NoNode
  BY <1>2, NodesAssumption DEF GoodTree, LinksAgree, LevelsAgree, X0
<1>5. Total = [q \in Ledger!X0 \X Ledger!X1 |-> 0]
  BY DEF Init, Total, Get, X0, X1, Ledger!X0, Ledger!X1
<1>6. JobOf \in [Hosts -> Jobs \cup {NoNode}]
  BY <1>3 DEF JobOf
<1>7. ClusOfJob \in [Jobs -> Clusters \cup {NoNode}]
  <2>1. \A j \in Jobs : tree.parent[j] \in Clusters \cup {NoNode}
    <3>1. ASSUME NEW j \in Jobs, j \in tree.live PROVE tree.parent[j] \in Clusters
      BY <1>2, <3>1 DEF GoodTree, LevelsAgree
    <3>2. ASSUME NEW j \in Jobs, j \notin tree.live PROVE tree.parent[j] = NoNode
      BY <1>2, <3>2, NodesAssumption DEF GoodTree, LinksAgree, X0
    <3>3. QED
      BY <3>1, <3>2
  <2>2. QED
    BY <2>1 DEF ClusOfJob
<1>8. \A h \in Hosts : JobOf[h] # NoNode => ClusOfJob[JobOf[h]] # NoNode
  BY <1>3, <1>4 DEF JobOf, ClusOfJob
<1>9. QED
  BY <1>5, <1>6, <1>7, <1>8 DEF Ledger!Init

(* A message of the cluster, and a host heard of for the first time, place *)
(* a host in a job.                                                        *)
LEMMA ClusMsgPlaces ==
  ASSUME ~AllocMayFail, TreeInv, TreeInv',
         NEW c \in Clusters, NEW h \in Hosts, NEW j \in Jobs, ClusMsg(c, h, j)
  PROVE  Ledger!Place(h, j) /\ UNCHANGED Total
<1> DEFINE u == JobLookup(tree, c, j)
<1>1. GoodTree(tree) /\ GoodTree(tree') /\ c \in X0 /\ c # NoNode /\ h # j
  BY NodesAssumption DEF TreeInv, X0
<1>2. /\ GoodTree(u)
      /\ \A x \in X0 : x # j \/ j \in tree.live => u.parent[x] = tree.parent[x]
  BY <1>1, JobLookupGood
<1>3. tree' = XInit(u, h, j) \/ tree' = XSetParent(u, h, j)
  BY DEF ClusMsg, ClusMsgNewHost, ClusMsgMoveHost, AllocOutcomes
<1>4. tree'.parent = [u.parent EXCEPT ![h] = j]
  BY <1>3 DEF XInit, XSetParent
<1>5. u.parent \in [X0 -> X0 \cup {NoNode}] /\ tree.parent \in [X0 -> X0 \cup {NoNode}]
      /\ Hosts \subseteq X0 /\ Jobs \subseteq X0 /\ Hosts \cap Jobs = {}
  BY <1>1, <1>2, NodesAssumption DEF GoodTree, TreeType, X0
<1>6. JobOf' = [JobOf EXCEPT ![h] = j]
  <2>1. \A g \in Hosts : JobOf'[g] = IF g = h THEN j ELSE JobOf[g]
    BY <1>2, <1>4, <1>5 DEF JobOf
  <2>2. QED
    BY <2>1 DEF JobOf
<1>7. CASE j \in tree.live
  <2>1. \A i \in Jobs : tree'.parent[i] = tree.parent[i]
    BY <1>2, <1>4, <1>5, <1>7
  <2>2. ClusOfJob' = ClusOfJob
    BY <2>1 DEF ClusOfJob
  <2>3. ClusOfJob'[j] # NoNode
    BY <1>1, <1>7, <2>2, NodesAssumption DEF ClusOfJob, GoodTree, LevelsAgree, X0
  <2>4. UNCHANGED Total
    BY DEF ClusMsg, ClusMsgNewHost, ClusMsgMoveHost, Total, Get
  <2>5. QED
    BY <1>6, <2>2, <2>3, <2>4 DEF Ledger!Place
<1>8. CASE j \notin tree.live
  <2>1. u.parent = [tree.parent EXCEPT ![j] = c]
    BY <1>8 DEF JobLookup, XInit
  <2>2. \A i \in Jobs : tree'.parent[i] = IF i = j THEN c ELSE tree.parent[i]
    BY <1>4, <1>5, <2>1
  <2>3. ClusOfJob' = [ClusOfJob EXCEPT ![j] = c]
    BY <2>2 DEF ClusOfJob
  <2>4. ClusOfJob[j] = NoNode
    BY <1>1, <1>5, <1>8, NodesAssumption DEF ClusOfJob, GoodTree, LinksAgree, X0
  <2>5. ClusOfJob'[j] # NoNode
    BY <1>1, <2>2 DEF ClusOfJob
  <2>6. UNCHANGED Total
    BY DEF ClusMsg, ClusMsgNewHost, ClusMsgMoveHost, Total, Get
  <2>7. QED
    BY <1>6, <2>3, <2>4, <2>5, <2>6 DEF Ledger!Place
<1>9. QED
  BY <1>7, <1>8

LEMMA ServMsgPlaces ==
  ASSUME TreeInv, NEW s \in Servs, NEW n \in Nids, ServMsgNid(s, n)
  PROVE  LET h == NidLookup(s, n) IN
         IF JobOf[h] = NoNode THEN \E j \in Jobs : Ledger!Place(h, j)
                              ELSE UNCHANGED <<JobOf, ClusOfJob>>
<1> DEFINE h == NidLookup(s, n)
<1>1. GoodTree(tree) /\ h \in Hosts /\ tree' = HostLookup(tree, h)
  BY NidLookupType DEF TreeInv, ServMsgNid
<1>2. /\ tree.parent \in [X0 -> X0 \cup {NoNode}]
      /\ h \in X0 \ {U} /\ Jobs \subseteq X0 /\ Hosts \subseteq X0 /\ Hosts \cap Jobs = {}
  BY <1>1, NodesAssumption DEF GoodTree, TreeType, X0
<1>3. JobOf[h] = tree.parent[h] /\ (JobOf[h] = NoNode <=> h \notin tree.live)
  BY <1>1, <1>2 DEF JobOf, GoodTree, LinksAgree
<1>4. CASE h \in tree.live
  <2>1. tree' = tree
    BY <1>1, <1>4 DEF HostLookup
  <2>2. UNCHANGED <<JobOf, ClusOfJob>>
    BY <2>1 DEF JobOf, ClusOfJob
  <2>3. QED
    BY <1>3, <1>4, <2>2
<1>5. CASE h \notin tree.live
  <2> DEFINE i == IdleJob[ClusOf[h]]
  <2>1. i \in Jobs /\ i \in tree.live
    BY <1>1, ConfigAssumption DEF GoodTree, LevelsAgree, IdleJobs
  <2>2. tree'.parent = [tree.parent EXCEPT ![h] = i]
    BY <1>1, <1>5 DEF HostLookup, XInit
  <2>3. JobOf' = [JobOf EXCEPT ![h] = i]
    BY <1>2, <2>2 DEF JobOf
  <2>4. ClusOfJob' = ClusOfJob
    BY <1>1, <1>2, <2>2 DEF ClusOfJob
  <2>5. ClusOfJob'[i] # NoNode
    BY <1>1, <2>1, <2>4, NodesAssumption DEF ClusOfJob, GoodTree, LevelsAgree, X0
  <2>6. Ledger!Place(h, i)
    BY <2>3, <2>4, <2>5 DEF Ledger!Place
  <2>7. QED
    BY <1>3, <1>5, <2>1, <2>6
<1>6. QED
  BY <1>4, <1>5

LEMMA ServMsgReports ==
  ASSUME ~AllocMayFail, TreeInv,
         NEW s \in Servs, NEW n \in Nids, NEW d \in Deltas, ServMsg(s, n, d)
  PROVE  Ledger!Report(NidLookup(s, n), s, d)
<1> DEFINE h == NidLookup(s, n)
<1>1. ServMsgNid(s, n) /\ ksum' = KUpdate(ksum, tree', h, s, d, {})
  BY DEF ServMsg
<1>2. GoodTree(tree') /\ h \in Hosts /\ h \in tree'.live
  BY <1>1, ServMsgNidTree
<1>3. Path0(tree', h) = Ledger!Charged(JobOf', ClusOfJob', h)
  <2>1. tree'.parent[h] \in Jobs /\ Path0(tree', h) = {h, tree'.parent[h], tree'.parent[tree'.parent[h]], U}
    BY <1>2, Path0Is
  <2>2. JobOf'[h] = tree'.parent[h]
    BY <1>2 DEF JobOf
  <2>3. ClusOfJob'[JobOf'[h]] = tree'.parent[tree'.parent[h]]
    BY <2>1, <2>2 DEF ClusOfJob
  <2>4. QED
    BY <2>1, <2>2, <2>3 DEF Ledger!Charged
<1>4. Path1(s) = Ledger!Informed(s)
  BY Path1Is DEF Ledger!Informed
<1>5. Pairs(tree', h, s) = Ledger!Charged(JobOf', ClusOfJob', h) \X Ledger!Informed(s)
  BY <1>3, <1>4 DEF Pairs
<1>6. ASSUME NEW q \in X0 \X X1
      PROVE  Total'[q] = Total[q] + (IF q \in Pairs(tree', h, s) THEN d ELSE 0)
  <2>1. DOMAIN ksum' = DOMAIN ksum \cup Pairs(tree', h, s)
    BY <1>1 DEF KUpdate
  <2>2. Total'[q] = IF q \in DOMAIN ksum' THEN ksum'[q] ELSE 0
    BY DEF Total, Get
  <2>3. Total[q] = IF q \in DOMAIN ksum THEN ksum[q] ELSE 0
    BY DEF Total, Get
  <2>4. q \in DOMAIN ksum' =>
          ksum'[q] = Total[q] + (IF q \in Pairs(tree', h, s) THEN d ELSE 0)
    BY <1>1, <2>1, <2>3 DEF KUpdate
  <2>5. QED
    BY <2>1, <2>2, <2>3, <2>4
<1>7. Total' = [q \in Ledger!X0 \X Ledger!X1 |->
                  Total[q] + (IF q \in Ledger!Charged(JobOf', ClusOfJob', h) \X Ledger!Informed(s)
                              THEN d ELSE 0)]
  <2>1. Ledger!X0 = X0 /\ Ledger!X1 = X1
    BY DEF Ledger!X0, Ledger!X1, X0, X1
  <2>2. QED
    BY <1>5, <1>6, <2>1 DEF Total
<1>8. IF JobOf[h] = NoNode THEN \E j \in Jobs : Ledger!Place(h, j)
                           ELSE UNCHANGED <<JobOf, ClusOfJob>>
  BY <1>1, ServMsgPlaces
<1>9. QED
  BY <1>7, <1>8 DEF Ledger!Report

LEMMA ZombieRetires ==
  ASSUME TreeInv, TreeInv', KInv, NEW j \in Jobs, ZombieFires(j)
  PROVE  Ledger!Retire(j) \/ UNCHANGED <<JobOf, ClusOfJob, Total>>
<1>1. CASE UNCHANGED <<tree, ksum>>
  BY <1>1 DEF JobOf, ClusOfJob, Total, Get
<1>2. CASE tree.nrChild[j] = 0 /\ tree' = XDestroy(tree, j) /\ ksum' = KDestroy(ksum, j)
  <2>1. GoodTree(tree) /\ GoodTree(tree') /\ j \in X0 /\ j \notin Hosts
    BY NodesAssumption DEF TreeInv, X0
  <2>2. tree.children[j] = {}
    BY <1>2, <2>1, ChildrenFinite, FS_EmptySet DEF GoodTree, LinksAgree
  <2>3. \A x \in X0 : /\ tree.parent[x] # j
                      /\ tree'.parent[x] = IF x = j THEN NoNode ELSE tree.parent[x]
    BY <1>2, <2>1, <2>2 DEF GoodTree, LinksAgree, XDestroy
  <2>4. JobOf' = JobOf /\ \A h \in Hosts : JobOf[h] # j
    BY <2>1, <2>3 DEF JobOf, X0
  <2>5. ClusOfJob' = [ClusOfJob EXCEPT ![j] = NoNode]
    BY <2>3 DEF ClusOfJob, X0
  <2>6. /\ DOMAIN ksum' = {q \in DOMAIN ksum : q[1] # j}
        /\ \A q \in DOMAIN ksum' : ksum'[q] = ksum[q]
    BY <1>2, KDestroyTable DEF KInv
  <2>7. ASSUME NEW q \in X0 \X X1
        PROVE  Total'[q] = IF q[1] = j THEN 0 ELSE Total[q]
    BY <2>6 DEF Total, Get
  <2>8. Total' = [q \in Ledger!X0 \X Ledger!X1 |-> IF q[1] = j THEN 0 ELSE Total[q]]
    <3>1. Ledger!X0 = X0 /\ Ledger!X1 = X1
      BY DEF Ledger!X0, Ledger!X1, X0, X1
    <3>2. QED
      BY <2>7, <3>1 DEF Total
  <2>9. QED
    BY <2>4, <2>5, <2>8 DEF Ledger!Retire
<1>3. QED
  BY <1>1, <1>2 DEF ZombieFires

LEMMA LedgerNext ==
  ASSUME ~AllocMayFail, TreeInv, TreeInv', KInv, [Next]_vars
  PROVE  [Ledger!Next]_(Ledger!vars)
<1>1. ASSUME NEW c \in Clusters, NEW h \in Hosts, NEW j \in Jobs, ClusMsg(c, h, j)
      PROVE  Ledger!Next
  BY <1>1, ClusMsgPlaces DEF Ledger!Next
<1>2. ASSUME NEW s \in Servs, NEW n \in Nids, NEW d \in Deltas, ServMsg(s, n, d)
      PROVE  Ledger!Next
  <2>1. NidLookup(s, n) \in Hosts
    BY NidLookupType DEF TreeInv
  <2>2. QED
    BY <1>2, <2>1, ServMsgReports DEF Ledger!Next
<1>3. ASSUME NEW s \in Servs, NEW n \in Nids, ServMsgMalformed(s, n)
      PROVE  Ledger!Next \/ UNCHANGED Ledger!vars
  <2>1. ServMsgNid(s, n) /\ ksum' = ksum /\ NidLookup(s, n) \in Hosts
    BY <1>3, NidLookupType DEF ServMsgMalformed, TreeInv
  <2>2. UNCHANGED Total
    BY <2>1 DEF Total, Get
  <2>3. (\E j \in Jobs : Ledger!Place(NidLookup(s, n), j)) \/ UNCHANGED <<JobOf, ClusOfJob>>
    BY <2>1, ServMsgPlaces
  <2>4. QED
    BY <2>1, <2>2, <2>3 DEF Ledger!Next, Ledger!vars
<1>4. ASSUME NEW j \in Jobs, ZombieFires(j)
      PROVE  Ledger!Next \/ UNCHANGED Ledger!vars
  BY <1>4, ZombieRetires DEF Ledger!Next, Ledger!vars
<1>5. CASE UNCHANGED vars
  BY <1>5 DEF vars, Ledger!vars, JobOf, ClusOfJob, Total, Get
<1>6. QED
  BY <1>1, <1>2, <1>3, <1>4, <1>5 DEF Next

(* When malloc does not fail, the tree with its timers and lazily made     *)
(* counters is an implementation of the ledger: every report is charged    *)
(* exactly once at every level, to the owners of the host at that moment,  *)
(* and freeing a job changes no total but its own.                         *)
THEOREM FlowTreeImplementsLedger ==
  ASSUME ~AllocMayFail
  PROVE  Spec => ImplementsLedger
<1>1. Init => Ledger!Init
  BY LedgerInit
<1>2. TreeInv /\ TreeInv' /\ KInv /\ [Next]_vars => [Ledger!Next]_(Ledger!vars)
  BY LedgerNext
<1>3. Spec => []KInv
  BY KInvAlways
<1>4. QED
  BY <1>1, <1>2, <1>3, TreeInvAlways, PTL DEF Spec, Ledger!Spec, ImplementsLedger

-----------------------------------------------------------------------------
(* The walk of GET /top. *)

(* The table has a k_node of a job's cluster wherever it has one of the    *)
(* job: x_update makes both and jobs are not moved.                        *)
JobsCharged ==
  \A q \in DOMAIN ksum : q[1] \in Jobs => <<tree.parent[q[1]], q[2]>> \in DOMAIN ksum

LEMMA NextJobsCharged ==
  ASSUME ~AllocMayFail, TreeInv, TreeInv', KInv, KInv', JobsCharged, [Next]_vars
  PROVE  JobsCharged'
<1> SUFFICES ASSUME NEW q \in DOMAIN ksum', q[1] \in Jobs
             PROVE  <<tree'.parent[q[1]], q[2]>> \in DOMAIN ksum'
  BY DEF JobsCharged
<1> DEFINE j == q[1]
<1>1. j \in tree'.live /\ tree'.parent[j] \in Clusters /\ Clusters \subseteq tree'.live
  BY DEF KInv, NothingDangles, TreeInv, GoodTree, LevelsAgree
<1>2. CASE q \in DOMAIN ksum
  <2>1. j \in tree.live
    BY <1>2 DEF KInv, NothingDangles
  <2>2. tree'.parent[j] = tree.parent[j]
    BY <1>1, <2>1, JobKeepsParent
  <2> DEFINE p == <<tree.parent[j], q[2]>>
  <2>3. p \in DOMAIN ksum
    BY <1>2 DEF JobsCharged
  <2>4. p[1] \in tree'.live
    BY <1>1, <2>2
  <2>5. p \in DOMAIN ksum'
    BY <2>3, <2>4, KeepsCounters
  <2>6. QED
    BY <2>2, <2>5
<1>3. CASE q \notin DOMAIN ksum
  <2>1. PICK s \in Servs, n \in Nids, d \in Deltas : ServMsg(s, n, d)
    <3>1. ASSUME NEW i \in Jobs, ZombieFires(i)
          PROVE  DOMAIN ksum' \subseteq DOMAIN ksum
      BY <3>1 DEF ZombieFires, KDestroy
    <3>2. QED
      BY <1>3, <3>1
      DEF Next, vars, ClusMsg, ClusMsgNewHost, ClusMsgMoveHost, ServMsgMalformed
  <2> DEFINE h == NidLookup(s, n)
  <2>2. DOMAIN ksum' = DOMAIN ksum \cup Pairs(tree', h, s)
    BY <2>1, ServMsgTable
  <2>3. GoodTree(tree') /\ h \in Hosts /\ h \in tree'.live
    BY <2>1, ServMsgNidTree DEF ServMsg
  <2> HIDE DEF h
  <2>4. /\ Path0(tree', h) = {h, tree'.parent[h], tree'.parent[tree'.parent[h]], U}
        /\ tree'.parent[tree'.parent[h]] \in Clusters
    BY <2>3, Path0Is
  <2>5. j \in Path0(tree', h) /\ q[2] \in Path1(s)
    BY <1>3, <2>2 DEF Pairs
  <2>6. j = tree'.parent[h]
    BY <2>3, <2>4, <2>5, NodesAssumption
  <2>7. <<tree'.parent[j], q[2]>> \in Pairs(tree', h, s)
    BY <2>4, <2>5, <2>6 DEF Pairs
  <2>8. QED
    BY <2>2, <2>7
<1>4. QED
  BY <1>2, <1>3

-----------------------------------------------------------------------------
(* The levels of the two trees, and the step from a node to its parent.    *)
LEMMA LevelsAre ==
  /\ Level0(U) = 0
  /\ \A c \in Clusters : Level0(c) = 1
  /\ \A j \in Jobs : Level0(j) = 2
  /\ \A h \in Hosts : Level0(h) = 3
  /\ Level1(V) = 0
  /\ \A f \in Filesystems : Level1(f) = 1
  /\ \A s \in Servs : Level1(s) = 2
BY NodesAssumption DEF Level0, Level1

LEMMA ParentIs ==
  ASSUME NEW t, GoodTree(t), NEW x \in t.live, x # U
  PROVE  /\ x \in X0
         /\ t.parent[x] \in t.live
         /\ Level0(x) = Level0(t.parent[x]) + 1
         /\ Path0(t, x) = {x} \cup Path0(t, t.parent[x])
         /\ x \in Hosts => t.parent[x] \in Jobs
         /\ x \in Jobs => t.parent[x] \in Clusters
         /\ x \in Clusters => t.parent[x] = U
<1>1. x \in Hosts \cup Jobs \cup Clusters /\ x \in X0 /\ t.live \subseteq X0
  BY DEF GoodTree, TreeType, X0
<1>2. /\ x \in Hosts => t.parent[x] \in Jobs \cap t.live
      /\ x \in Jobs => t.parent[x] \in Clusters
      /\ x \in Clusters => t.parent[x] = U
      /\ Clusters \subseteq t.live /\ U \in t.live /\ t.parent[U] = NoNode
      /\ \A j \in Jobs \cap t.live : t.parent[j] \in Clusters
      /\ \A c \in Clusters : t.parent[c] = U
  BY DEF GoodTree, LevelsAgree, LinksAgree
<1>3. NoNode \notin X0 /\ X0 = Hosts \cup Jobs \cup Clusters \cup {U}
  BY NodesAssumption DEF X0
<1>4. Path0(t, x) = {x} \cup Path0(t, t.parent[x])
  <2>1. CASE x \in Hosts
    BY <1>1, <1>2, <1>3, <2>1 DEF Path0, Up
  <2>2. CASE x \in Jobs
    BY <1>1, <1>2, <1>3, <2>2 DEF Path0, Up
  <2>3. CASE x \in Clusters
    BY <1>1, <1>2, <1>3, <2>3 DEF Path0, Up
  <2>4. QED
    BY <1>1, <2>1, <2>2, <2>3
<1>5. Level0(x) = Level0(t.parent[x]) + 1
  BY <1>1, <1>2, LevelsAre
<1>6. QED
  BY <1>1, <1>2, <1>4, <1>5

LEMMA RootIs ==
  ASSUME NEW t, GoodTree(t)
  PROVE  Path0(t, U) = {U} /\ U \in t.live
<1>1. U \in t.live /\ t.parent[U] = NoNode
  BY DEF GoodTree, LinksAgree
<1>2. U # NoNode
  BY NodesAssumption DEF X0
<1>3. QED
  BY <1>1, <1>2 DEF Path0, Up

(* A node above another one is at a lower level. *)
LEMMA AboveIsLower ==
  ASSUME NEW t, GoodTree(t), NEW x \in t.live, NEW y \in Path0(t, x)
  PROVE  /\ y \in t.live
         /\ Level0(x) \in 0..3 /\ Level0(y) \in 0..3
         /\ Level0(y) <= Level0(x)
         /\ Level0(y) = Level0(x) => y = x
<1> DEFINE Lower(z) == \A w \in Path0(t, z) :
             /\ w \in t.live
             /\ Level0(w) \in 0..3
             /\ Level0(w) <= Level0(z)
             /\ Level0(w) = Level0(z) => w = z
<1>0. \A z \in X0 : Level0(z) \in 0..3
  BY LevelsAre DEF X0
<1>1. Lower(U)
  BY RootIs, LevelsAre
<1>2. ASSUME NEW z \in t.live, z # U, Lower(t.parent[z])
      PROVE  Lower(z)
  BY <1>0, <1>2, ParentIs DEF GoodTree, TreeType
<1>3. \A c \in Clusters : c \in t.live /\ c # U /\ t.parent[c] = U
  BY NodesAssumption DEF GoodTree, LevelsAgree
<1> HIDE DEF Lower
<1>4. \A c \in Clusters : Lower(c)
  BY <1>1, <1>2, <1>3
<1>5. \A j \in Jobs \cap t.live : Lower(j)
  <2>1. \A j \in Jobs \cap t.live : j # U /\ t.parent[j] \in Clusters
    BY NodesAssumption DEF GoodTree, LevelsAgree
  <2>2. QED
    BY <1>2, <1>4, <2>1
<1>6. \A h \in Hosts \cap t.live : Lower(h)
  <2>1. \A h \in Hosts \cap t.live : h # U /\ t.parent[h] \in Jobs \cap t.live
    BY NodesAssumption DEF GoodTree, LevelsAgree
  <2>2. QED
    BY <1>2, <1>5, <2>1
<1>7. x \in X0
  BY DEF GoodTree, TreeType
<1>8. Lower(x)
  BY <1>1, <1>4, <1>5, <1>6, <1>7 DEF X0
<1>9. QED
  BY <1>0, <1>7, <1>8 DEF Lower

(* The same on the side of the providers. *)
Parent1(y) == IF y \in Servs THEN FsOf[y] ELSE V

LEMMA Parent1Is ==
  ASSUME NEW y \in X1, y # V
  PROVE  /\ Parent1(y) \in X1
         /\ Level1(y) = Level1(Parent1(y)) + 1
         /\ Path1(y) = {y} \cup Path1(Parent1(y))
<1>1. CASE y \in Servs
  BY <1>1, LevelsAre, Path1Is, ConfigAssumption DEF Parent1, X1
<1>2. CASE y \in Filesystems
  BY <1>2, LevelsAre, Path1Is, NodesAssumption DEF Parent1, X1
<1>3. QED
  BY <1>1, <1>2 DEF X1

LEMMA ChildrenOf1 ==
  ASSUME NEW y \in X1
  PROVE  Children1(y) = {z \in X1 \ {V} : Parent1(z) = y}
BY NodesAssumption, ConfigAssumption DEF Children1, Parent1, X1

LEMMA AboveIsLower1 ==
  ASSUME NEW x \in X1, NEW y \in Path1(x)
  PROVE  /\ Level1(x) \in 0..2 /\ Level1(y) \in 0..2
         /\ Level1(y) <= Level1(x)
         /\ Level1(y) = Level1(x) => y = x
<1>1. CASE x \in Servs
  BY <1>1, LevelsAre, Path1Is, ConfigAssumption
<1>2. CASE x \in Filesystems
  BY <1>2, LevelsAre, Path1Is
<1>3. CASE x = V
  BY <1>3, LevelsAre, Path1Is
<1>4. QED
  BY <1>1, <1>2, <1>3 DEF X1

-----------------------------------------------------------------------------
(* The owner filter: what is left of it below a consumer that passed it.   *)
Left(a, x0, o) ==
  IF o = AnyOwner \/ (a \in Jobs \cup Hosts /\ Level0(x0) <= 2) THEN AnyOwner ELSE o

Passes(x, f) == f # AnyOwner => FiltOwner(x, f) >= 0

NextFilt(x, f) == IF f # AnyOwner /\ FiltOwner(x, f) > 0 THEN AnyOwner ELSE f

LEMMA FilterStarts ==
  ASSUME NEW x0 \in X0, NEW x1, NEW o \in Owners \cup {AnyOwner}, GoodTree(tree), x0 \in tree.live
  PROVE  /\ Passes(x0, o) <=> (o # AnyOwner => Owns(<<x0, x1>>, x0, o))
         /\ Passes(x0, o) => NextFilt(x0, o) = Left(x0, x0, o)
<1>1. CASE x0 \in Jobs
  BY <1>1, LevelsAre, NodesAssumption DEF Passes, NextFilt, FiltOwner, Owns, Left
<1>2. CASE x0 \in Hosts
  BY <1>2, LevelsAre, NodesAssumption DEF Passes, NextFilt, FiltOwner, Owns, Left
<1>3. CASE x0 \in Clusters \cup {U}
  BY <1>3, LevelsAre, NodesAssumption DEF Passes, NextFilt, FiltOwner, Owns, Left
<1>4. QED
  BY <1>1, <1>2, <1>3 DEF X0

LEMMA FilterDescends ==
  ASSUME GoodTree(tree), NEW x \in tree.live, x # U, NEW x0 \in Path0(tree, tree.parent[x]),
         NEW x1, NEW o \in Owners \cup {AnyOwner}, NEW a, a = tree.parent[x]
  PROVE  /\ (o # AnyOwner => Owns(<<x, x1>>, x0, o)) <=>
              /\ o # AnyOwner => Owns(<<a, x1>>, x0, o)
              /\ Passes(x, Left(a, x0, o))
         /\ Passes(x, Left(a, x0, o)) => NextFilt(x, Left(a, x0, o)) = Left(x, x0, o)
<1>1. /\ a \in tree.live /\ x \in X0
      /\ x \in Hosts => a \in Jobs
      /\ x \in Jobs => a \in Clusters
      /\ x \in Clusters => a = U
  BY ParentIs
<1>2. Level0(x0) <= Level0(a) /\ Level0(x0) \in 0..3
  BY <1>1, AboveIsLower
<1>3. CASE x \in Hosts
  <2>1. a \in Jobs /\ Level0(x0) <= 2 /\ x \notin Jobs /\ a \notin Hosts
    BY <1>1, <1>2, <1>3, LevelsAre, NodesAssumption
  <2>2. Left(a, x0, o) = AnyOwner /\ Left(x, x0, o) = AnyOwner
    BY <1>3, <2>1 DEF Left
  <2>3. Owns(<<x, x1>>, x0, o) <=> Owns(<<a, x1>>, x0, o)
    BY <1>3, <2>1 DEF Owns
  <2>4. QED
    BY <2>2, <2>3 DEF Passes, NextFilt
<1>4. CASE x \in Jobs
  <2>1. a \in Clusters /\ Level0(x0) <= 1 /\ x \notin Hosts /\ a \notin Hosts \cup Jobs
    BY <1>1, <1>2, <1>4, LevelsAre, NodesAssumption
  <2>2. Left(a, x0, o) = o /\ Left(x, x0, o) = AnyOwner
    BY <1>2, <1>4, <2>1 DEF Left
  <2>3. /\ Owns(<<x, x1>>, x0, o) <=> OwnerOf[x] = o
        /\ Owns(<<a, x1>>, x0, o)
    BY <1>2, <1>4, <2>1 DEF Owns
  <2>4. QED
    BY <1>4, <2>2, <2>3 DEF Passes, NextFilt, FiltOwner
<1>5. CASE x \in Clusters
  <2>1. a = U /\ x \notin Hosts \cup Jobs /\ a \notin Hosts \cup Jobs
    BY <1>1, <1>5, NodesAssumption
  <2>2. Left(a, x0, o) = o /\ Left(x, x0, o) = o
    BY <2>1 DEF Left
  <2>3. Owns(<<x, x1>>, x0, o) /\ Owns(<<a, x1>>, x0, o)
    BY <2>1 DEF Owns
  <2>4. QED
    BY <2>1, <2>2, <2>3 DEF Passes, NextFilt, FiltOwner
<1>6. QED
  BY <1>1, <1>3, <1>4, <1>5 DEF X0

(* Going down from the provider leaves the filter as it is. *)
LEMMA FilterRests ==
  ASSUME GoodTree(tree), NEW x \in tree.live, NEW x0 \in Path0(tree, x),
         NEW o \in Owners \cup {AnyOwner}
  PROVE  /\ Passes(x, Left(x, x0, o))
         /\ NextFilt(x, Left(x, x0, o)) = Left(x, x0, o)
<1>1. x \in X0 /\ Level0(x0) <= Level0(x) /\ Level0(x0) \in 0..3
  BY AboveIsLower DEF GoodTree, TreeType
<1>2. CASE x \in Jobs
  BY <1>1, <1>2, LevelsAre DEF Passes, NextFilt, Left
<1>3. CASE x \notin Jobs
  BY <1>3 DEF Passes, NextFilt, FiltOwner
<1>4. QED
  BY <1>2, <1>3

-----------------------------------------------------------------------------
(* The walk.  After i levels of consumers and k of providers k_heap_top    *)
(* has come to the pairs it may show there, with what is left of the       *)
(* filter.                                                                 *)
Shown(x0, i, x1, k, o) ==
  {q \in Below(x0, i, x1, k) :
     ~Hidden(q, x0, x1) /\ (o # AnyOwner => Owns(q, x0, o))}

Arrived(x0, i, x1, k, o) ==
  {[x0 |-> q[1], x1 |-> q[2], filt |-> Left(q[1], x0, o)] : q \in Shown(x0, i, x1, k, o)}

LEMMA VisitIs ==
  ASSUME NEW calls, NEW d
  PROVE  d \in Visit(calls) <=>
           \E c \in calls :
             /\ <<c.x0, c.x1>> \in DOMAIN ksum /\ Passes(c.x0, c.filt)
             /\ d = [x0 |-> c.x0, x1 |-> c.x1, filt |-> NextFilt(c.x0, c.filt)]
BY DEF Visit, Passes, NextFilt

LEMMA WalkStarts ==
  ASSUME TreeInv, KInv, NEW x0 \in tree.live, NEW x1 \in X1, NEW o \in Owners \cup {AnyOwner}
  PROVE  Visit({[x0 |-> x0, x1 |-> x1, filt |-> o]}) = Arrived(x0, 0, x1, 0, o)
<1> DEFINE p == <<x0, x1>>
<1>1. GoodTree(tree) /\ x0 \in X0 /\ DOMAIN ksum \subseteq X0 \X X1
  BY DEF TreeInv, GoodTree, TreeType, TypeOK
<1>2. x0 \in Path0(tree, x0) /\ x1 \in Path1(x1)
  BY <1>1, ParentIs, RootIs, Path1Is
<1>3. Below(x0, 0, x1, 0) = {q \in DOMAIN ksum : q = p}
  <2>1. Level0(x0) \in Nat /\ Level1(x1) \in Nat
    BY <1>1, <1>2, AboveIsLower, AboveIsLower1
  <2>2. ASSUME NEW q \in DOMAIN ksum
        PROVE  q \in Below(x0, 0, x1, 0) <=> q = p
    <3>1. q = <<q[1], q[2]>> /\ q[1] \in tree.live /\ q[2] \in X1
      BY <1>1 DEF KInv, NothingDangles
    <3>2. /\ Level0(q[1]) = Level0(x0) /\ x0 \in Path0(tree, q[1]) <=> q[1] = x0
          /\ Level1(q[2]) = Level1(x1) /\ x1 \in Path1(q[2]) <=> q[2] = x1
      BY <1>1, <1>2, <3>1, AboveIsLower, AboveIsLower1
    <3>3. q \in Below(x0, 0, x1, 0) <=>
            /\ Level0(q[1]) = Level0(x0) /\ x0 \in Path0(tree, q[1])
            /\ Level1(q[2]) = Level1(x1) /\ x1 \in Path1(q[2])
      BY <2>1 DEF Below
    <3>4. QED
      BY <3>1, <3>2, <3>3
  <2>3. QED
    BY <2>2 DEF Below
<1>4. ~Hidden(p, x0, x1)
  BY DEF Hidden
<1>5. Shown(x0, 0, x1, 0, o) = {q \in DOMAIN ksum : q = p /\ Passes(x0, o)}
  <2>1. Passes(x0, o) <=> (o # AnyOwner => Owns(p, x0, o))
    BY <1>1, FilterStarts
  <2>2. QED
    BY <1>3, <1>4, <2>1 DEF Shown
<1>6. ASSUME NEW d
      PROVE  d \in Visit({[x0 |-> x0, x1 |-> x1, filt |-> o]}) <=>
               /\ p \in DOMAIN ksum /\ Passes(x0, o)
               /\ d = [x0 |-> x0, x1 |-> x1, filt |-> NextFilt(x0, o)]
  <2> DEFINE z == [x0 |-> x0, x1 |-> x1, filt |-> o]
  <2>1. z.x0 = x0 /\ z.x1 = x1 /\ z.filt = o
    OBVIOUS
  <2>2. d \in Visit({z}) <=>
           /\ <<z.x0, z.x1>> \in DOMAIN ksum /\ Passes(z.x0, z.filt)
           /\ d = [x0 |-> z.x0, x1 |-> z.x1, filt |-> NextFilt(z.x0, z.filt)]
    <3> HIDE DEF z
    <3> DEFINE C == {z}
    <3>1. \A e : e \in C <=> e = z
      OBVIOUS
    <3> HIDE DEF C
    <3>2. d \in Visit(C) <=>
               \E e \in C :
             /\ <<e.x0, e.x1>> \in DOMAIN ksum /\ Passes(e.x0, e.filt)
             /\ d = [x0 |-> e.x0, x1 |-> e.x1, filt |-> NextFilt(e.x0, e.filt)]
      BY VisitIs
    <3>3. d \in Visit(C) <=>
             /\ <<z.x0, z.x1>> \in DOMAIN ksum /\ Passes(z.x0, z.filt)
             /\ d = [x0 |-> z.x0, x1 |-> z.x1, filt |-> NextFilt(z.x0, z.filt)]
      BY <3>1, <3>2
    <3>4. QED
      BY <3>3 DEF C
  <2>3. QED
    BY <2>1, <2>2
<1>7. Passes(x0, o) => NextFilt(x0, o) = Left(x0, x0, o)
  BY <1>1, FilterStarts
<1>8. ASSUME NEW d
      PROVE  d \in Arrived(x0, 0, x1, 0, o) <=>
               /\ p \in DOMAIN ksum /\ Passes(x0, o)
               /\ d = [x0 |-> x0, x1 |-> x1, filt |-> Left(x0, x0, o)]
  <2>1. d \in Arrived(x0, 0, x1, 0, o) <=>
          \E q \in Shown(x0, 0, x1, 0, o) :
            d = [x0 |-> q[1], x1 |-> q[2], filt |-> Left(q[1], x0, o)]
    BY DEF Arrived
  <2>2. p[1] = x0 /\ p[2] = x1
    OBVIOUS
  <2>3. QED
    BY <1>5, <2>1, <2>2
<1>9. QED
  BY <1>6, <1>7, <1>8

(* A call of the next level of consumers and a pair shown there. *)
LEMMA ShownDescends0 ==
  ASSUME TreeInv, KInv, NEW x0 \in tree.live, NEW x1 \in X1, NEW o \in Owners \cup {AnyOwner},
         NEW i \in Nat, NEW q \in Shown(x0, i, x1, 0, o), NEW x \in tree.children[q[1]],
         <<x, q[2]>> \in DOMAIN ksum, Passes(x, Left(q[1], x0, o))
  PROVE  /\ <<x, q[2]>> \in Shown(x0, i + 1, x1, 0, o)
         /\ NextFilt(x, Left(q[1], x0, o)) = Left(x, x0, o)
<1> DEFINE r == <<x, q[2]>>
           a == q[1]
<1>1. GoodTree(tree) /\ x0 \in X0 /\ DOMAIN ksum \subseteq X0 \X X1
  BY DEF TreeInv, GoodTree, TreeType, TypeOK
<1>2. /\ q \in DOMAIN ksum /\ q = <<a, q[2]>> /\ a \in tree.live /\ q[2] \in X1
      /\ Level0(a) = Level0(x0) + i /\ x0 \in Path0(tree, a)
      /\ Level1(q[2]) = Level1(x1) /\ x1 \in Path1(q[2])
      /\ ~Hidden(q, x0, x1) /\ (o # AnyOwner => Owns(<<a, q[2]>>, x0, o))
      /\ Level1(x1) \in Nat
  <2>1. Level1(x1) \in Nat
    BY AboveIsLower1, Path1Is
  <2>2. QED
    BY <1>1, <2>1 DEF Shown, Below, KInv, NothingDangles
<1>3. q[2] = x1
  BY <1>2, AboveIsLower1
<1>4. x \in tree.live /\ x # U /\ tree.parent[x] = a
  BY <1>1, <1>2, NodesAssumption DEF GoodTree, LinksAgree, TreeType
<1>5. Level0(x) = Level0(x0) + (i + 1) /\ x0 \in Path0(tree, x)
  <2>1. Level0(x0) \in Nat
    BY <1>1, <1>2, AboveIsLower
  <2>2. QED
    BY <1>1, <1>2, <1>4, <2>1, ParentIs
<1>6. r \in Below(x0, i + 1, x1, 0)
  BY <1>2, <1>5 DEF Below
<1>7. ~Hidden(r, x0, x1)
  BY <1>2, <1>3, <1>4 DEF Hidden
<1>8. /\ o # AnyOwner => Owns(r, x0, o)
      /\ NextFilt(x, Left(a, x0, o)) = Left(x, x0, o)
  <2>1. /\ (o # AnyOwner => Owns(<<x, q[2]>>, x0, o)) <=>
              /\ o # AnyOwner => Owns(<<a, q[2]>>, x0, o)
              /\ Passes(x, Left(a, x0, o))
        /\ Passes(x, Left(a, x0, o)) => NextFilt(x, Left(a, x0, o)) = Left(x, x0, o)
    <3> DEFINE y == q[2]
    <3> HIDE DEF a
    <3>1. GoodTree(tree) /\ x0 \in Path0(tree, tree.parent[x]) /\ a = tree.parent[x]
      BY <1>1, <1>2, <1>4
    <3> HIDE DEF y
    <3>2. /\ (o # AnyOwner => Owns(<<x, y>>, x0, o)) <=>
               /\ o # AnyOwner => Owns(<<a, y>>, x0, o)
               /\ Passes(x, Left(a, x0, o))
          /\ Passes(x, Left(a, x0, o)) => NextFilt(x, Left(a, x0, o)) = Left(x, x0, o)
      BY <1>4, <3>1, FilterDescends
    <3>3. QED
      BY <3>2 DEF y
  <2>2. Passes(x, Left(a, x0, o)) /\ (o # AnyOwner => Owns(<<a, q[2]>>, x0, o))
    BY <1>2
  <2> HIDE DEF a
  <2>3. NextFilt(x, Left(a, x0, o)) = Left(x, x0, o)
    BY <2>1, <2>2
  <2>4. o # AnyOwner => Owns(<<x, q[2]>>, x0, o)
    BY <2>1, <2>2
  <2>5. QED
    BY <2>3, <2>4
<1>9. QED
  BY <1>6, <1>7, <1>8 DEF Shown

LEMMA ShownAscends0 ==
  ASSUME TreeInv, KInv, JobsCharged, NEW x0 \in tree.live, NEW x1 \in X1,
         NEW o \in Owners \cup {AnyOwner},
         NEW i \in Nat, NEW r \in Shown(x0, i + 1, x1, 0, o),
         NEW a, a = tree.parent[r[1]]
  PROVE  /\ <<a, r[2]>> \in Shown(x0, i, x1, 0, o)
         /\ r[1] \in tree.children[a]
         /\ r = <<r[1], r[2]>> /\ r \in DOMAIN ksum
         /\ Passes(r[1], Left(a, x0, o))
<1> DEFINE x == r[1]
           q == <<a, r[2]>>
<1>1. GoodTree(tree) /\ x0 \in X0 /\ DOMAIN ksum \subseteq X0 \X X1
  BY DEF TreeInv, GoodTree, TreeType, TypeOK
<1>2. /\ r \in DOMAIN ksum /\ r = <<x, r[2]>> /\ x \in tree.live /\ r[2] \in X1
      /\ Level0(x) = Level0(x0) + (i + 1) /\ x0 \in Path0(tree, x)
      /\ Level1(r[2]) = Level1(x1) /\ x1 \in Path1(r[2])
      /\ ~Hidden(r, x0, x1) /\ (o # AnyOwner => Owns(<<x, r[2]>>, x0, o))
      /\ Level1(x1) \in Nat
  <2>1. Level1(x1) \in Nat
    BY AboveIsLower1, Path1Is
  <2>2. QED
    BY <1>1, <2>1 DEF Shown, Below, KInv, NothingDangles
<1>3. r[2] = x1
  BY <1>2, AboveIsLower1
<1>4. Level0(x0) \in Nat /\ Level0(x) \in Nat
  BY <1>1, <1>2, AboveIsLower
<1>5. x # U /\ x # x0
  BY <1>2, <1>4, LevelsAre
<1>6. /\ a \in tree.live /\ Level0(x) = Level0(a) + 1 /\ Path0(tree, x) = {x} \cup Path0(tree, a)
      /\ x \in Hosts => a \in Jobs
      /\ x \in Jobs => a \in Clusters
      /\ x \in Clusters => a = U
      /\ x \in X0
  BY <1>1, <1>2, <1>5, ParentIs
<1>7. x0 \in Path0(tree, a) /\ Level0(a) = Level0(x0) + i
  <2>1. Level0(a) \in Nat
    BY <1>1, <1>6, AboveIsLower, RootIs, ParentIs
  <2>2. x0 \in Path0(tree, a)
    BY <1>2, <1>5, <1>6
  <2>3. QED
    BY <1>2, <1>4, <1>6, <2>1, <2>2
<1>8. x \in tree.children[a]
  BY <1>1, <1>6 DEF GoodTree, LinksAgree, TreeType
<1>9. q \in DOMAIN ksum
  <2>1. CASE x \in Hosts
    BY <1>2, <1>3, <1>5, <2>1 DEF Hidden
  <2>2. CASE x \in Jobs
    BY <1>2, <2>2 DEF JobsCharged
  <2>3. CASE x \in Clusters
    BY <1>2, <1>6, <2>3 DEF KInv, KReachable
  <2>4. QED
    BY <1>5, <1>6, <2>1, <2>2, <2>3 DEF X0
<1>10. q \in Below(x0, i, x1, 0)
  BY <1>2, <1>7, <1>9 DEF Below
<1>11. ~Hidden(q, x0, x1)
  <2>1. a \notin Hosts
    BY <1>5, <1>6, NodesAssumption DEF X0
  <2>2. QED
    BY <2>1 DEF Hidden
<1>12. /\ o # AnyOwner => Owns(q, x0, o)
       /\ Passes(x, Left(a, x0, o))
  <2>1. (o # AnyOwner => Owns(<<x, r[2]>>, x0, o)) <=>
              /\ o # AnyOwner => Owns(<<a, r[2]>>, x0, o)
              /\ Passes(x, Left(a, x0, o))
    <3>1. a = tree.parent[x]
      OBVIOUS
    <3> HIDE DEF x
    <3>2. QED
      BY <1>1, <1>2, <1>5, <1>7, <3>1, FilterDescends
  <2>2. QED
    BY <1>2, <2>1
<1>13. QED
  BY <1>2, <1>8, <1>10, <1>11, <1>12 DEF Shown

(* The same for the next level of providers. *)
LEMMA ShownDescends1 ==
  ASSUME TreeInv, KInv, NEW x0 \in tree.live, NEW x1 \in X1, NEW o \in Owners \cup {AnyOwner},
         NEW i \in Nat, NEW k \in Nat, NEW q \in Shown(x0, i, x1, k, o),
         NEW y \in Children1(q[2]), <<q[1], y>> \in DOMAIN ksum
  PROVE  <<q[1], y>> \in Shown(x0, i, x1, k + 1, o)
<1> DEFINE r == <<q[1], y>>
<1>1. DOMAIN ksum \subseteq X0 \X X1
  BY DEF TreeInv, TypeOK
<1>2. /\ q \in DOMAIN ksum /\ q[2] \in X1
      /\ Level0(q[1]) = Level0(x0) + i /\ x0 \in Path0(tree, q[1])
      /\ Level1(q[2]) = Level1(x1) + k /\ x1 \in Path1(q[2])
      /\ ~Hidden(q, x0, x1) /\ (o # AnyOwner => Owns(q, x0, o))
  BY <1>1 DEF Shown, Below
<1>3. Level1(x1) \in Nat
  BY AboveIsLower1, Path1Is
<1>4. y \in X1 /\ y # V /\ Parent1(y) = q[2]
  BY <1>2, ChildrenOf1
<1>5. Level1(y) = Level1(x1) + (k + 1) /\ x1 \in Path1(y)
  BY <1>2, <1>3, <1>4, Parent1Is
<1>6. r \in Below(x0, i, x1, k + 1)
  BY <1>2, <1>5 DEF Below
<1>7. ~Hidden(r, x0, x1) /\ (o # AnyOwner => Owns(r, x0, o))
  BY <1>2 DEF Hidden, Owns
<1>8. QED
  BY <1>6, <1>7 DEF Shown

LEMMA ShownAscends1 ==
  ASSUME TreeInv, KInv, NEW x0 \in tree.live, NEW x1 \in X1, NEW o \in Owners \cup {AnyOwner},
         NEW i \in Nat, NEW k \in Nat, NEW r \in Shown(x0, i, x1, k + 1, o),
         NEW b, b = Parent1(r[2])
  PROVE  /\ <<r[1], b>> \in Shown(x0, i, x1, k, o)
         /\ r[2] \in Children1(b)
         /\ r = <<r[1], r[2]>> /\ r \in DOMAIN ksum
<1> DEFINE q == <<r[1], b>>
           y == r[2]
<1>1. DOMAIN ksum \subseteq X0 \X X1
  BY DEF TreeInv, TypeOK
<1>2. /\ r \in DOMAIN ksum /\ r = <<r[1], y>> /\ y \in X1
      /\ Level0(r[1]) = Level0(x0) + i /\ x0 \in Path0(tree, r[1])
      /\ Level1(y) = Level1(x1) + (k + 1) /\ x1 \in Path1(y)
      /\ ~Hidden(r, x0, x1) /\ (o # AnyOwner => Owns(r, x0, o))
  BY <1>1 DEF Shown, Below
<1>3. Level1(x1) \in Nat
  BY AboveIsLower1, Path1Is
<1>4. y # V /\ y # x1
  BY <1>2, <1>3, LevelsAre
<1>5. /\ b \in X1 /\ Level1(y) = Level1(b) + 1 /\ Path1(y) = {y} \cup Path1(b)
      /\ y \in Children1(b)
  BY <1>2, <1>4, Parent1Is, ChildrenOf1
<1>6. x1 \in Path1(b) /\ Level1(b) = Level1(x1) + k
  <2>1. Level1(b) \in Nat
    BY <1>5, AboveIsLower1, Path1Is
  <2>2. QED
    BY <1>2, <1>3, <1>4, <1>5, <2>1
<1>7. q \in DOMAIN ksum
  BY <1>2, <1>5, Path1Is DEF KInv, KReachable
<1>8. q \in Below(x0, i, x1, k)
  BY <1>2, <1>6, <1>7 DEF Below
<1>9. ~Hidden(q, x0, x1) /\ (o # AnyOwner => Owns(q, x0, o))
  BY <1>2 DEF Hidden, Owns
<1>10. QED
  BY <1>2, <1>5, <1>8, <1>9 DEF Shown

(* One turn of the walk, for either kind of children. *)
Calls0(v) == UNION {{[c EXCEPT !.x0 = x] : x \in tree.children[c.x0]} : c \in v}
Calls1(v) == UNION {{[c EXCEPT !.x1 = y] : y \in Children1(c.x1)} : c \in v}

LEMMA ArrivedCalls0 ==
  ASSUME NEW x0, NEW i, NEW x1, NEW k, NEW o, NEW e
  PROVE  e \in Calls0(Arrived(x0, i, x1, k, o)) <=>
           \E q \in Shown(x0, i, x1, k, o) : \E x \in tree.children[q[1]] :
             e = [x0 |-> x, x1 |-> q[2], filt |-> Left(q[1], x0, o)]
<1> DEFINE A == Arrived(x0, i, x1, k, o)
           R(q) == [x0 |-> q[1], x1 |-> q[2], filt |-> Left(q[1], x0, o)]
<1>1. ASSUME NEW c
      PROVE  c \in A <=> \E q \in Shown(x0, i, x1, k, o) : c = R(q)
  BY DEF Arrived
<1>2. e \in Calls0(A) <=>
        \E c \in A : \E x \in tree.children[c.x0] : e = [c EXCEPT !.x0 = x]
  BY DEF Calls0
<1>3. ASSUME NEW q
      PROVE  /\ R(q).x0 = q[1]
             /\ \A x : [R(q) EXCEPT !.x0 = x] =
                         [x0 |-> x, x1 |-> q[2], filt |-> Left(q[1], x0, o)]
  OBVIOUS
<1> HIDE DEF A, R
<1>4. e \in Calls0(A) <=>
        \E q \in Shown(x0, i, x1, k, o) : \E x \in tree.children[R(q).x0] :
          e = [R(q) EXCEPT !.x0 = x]
  BY <1>1, <1>2, Zenon
<1>5. ASSUME NEW q
      PROVE  (\E x \in tree.children[R(q).x0] : e = [R(q) EXCEPT !.x0 = x])
               <=> \E x \in tree.children[q[1]] : e = [x0 |-> x, x1 |-> q[2], filt |-> Left(q[1], x0, o)]
  BY <1>3, ZenonT(30)
<1>6. QED
  BY <1>4, <1>5, Zenon DEF A

LEMMA ArrivedCalls1 ==
  ASSUME NEW x0, NEW i, NEW x1, NEW k, NEW o, NEW e
  PROVE  e \in Calls1(Arrived(x0, i, x1, k, o)) <=>
           \E q \in Shown(x0, i, x1, k, o) : \E y \in Children1(q[2]) :
             e = [x0 |-> q[1], x1 |-> y, filt |-> Left(q[1], x0, o)]
<1> DEFINE A == Arrived(x0, i, x1, k, o)
           R(q) == [x0 |-> q[1], x1 |-> q[2], filt |-> Left(q[1], x0, o)]
<1>1. ASSUME NEW c
      PROVE  c \in A <=> \E q \in Shown(x0, i, x1, k, o) : c = R(q)
  BY DEF Arrived
<1>2. e \in Calls1(A) <=>
        \E c \in A : \E y \in Children1(c.x1) : e = [c EXCEPT !.x1 = y]
  BY DEF Calls1
<1>3. ASSUME NEW q
      PROVE  /\ R(q).x1 = q[2]
             /\ \A y : [R(q) EXCEPT !.x1 = y] =
                         [x0 |-> q[1], x1 |-> y, filt |-> Left(q[1], x0, o)]
  OBVIOUS
<1> HIDE DEF A, R
<1>4. e \in Calls1(A) <=>
        \E q \in Shown(x0, i, x1, k, o) : \E y \in Children1(R(q).x1) :
          e = [R(q) EXCEPT !.x1 = y]
  BY <1>1, <1>2, Zenon
<1>5. ASSUME NEW q
      PROVE  (\E y \in Children1(R(q).x1) : e = [R(q) EXCEPT !.x1 = y])
               <=> \E y \in Children1(q[2]) : e = [x0 |-> q[1], x1 |-> y, filt |-> Left(q[1], x0, o)]
  BY <1>3, ZenonT(30)
<1>6. QED
  BY <1>4, <1>5, Zenon DEF A

LEMMA WalkDescends0 ==
  ASSUME TreeInv, KInv, JobsCharged, NEW x0 \in tree.live, NEW x1 \in X1,
         NEW o \in Owners \cup {AnyOwner}, NEW i \in Nat
  PROVE  Visit(Calls0(Arrived(x0, i, x1, 0, o))) = Arrived(x0, i + 1, x1, 0, o)
<1> DEFINE C == Calls0(Arrived(x0, i, x1, 0, o))
<1>1. ASSUME NEW e
      PROVE  e \in C <=>
               \E q \in Shown(x0, i, x1, 0, o) : \E x \in tree.children[q[1]] :
                 e = [x0 |-> x, x1 |-> q[2], filt |-> Left(q[1], x0, o)]
  BY ArrivedCalls0
<1> HIDE DEF C
<1>2. ASSUME NEW d \in Visit(C)
      PROVE  d \in Arrived(x0, i + 1, x1, 0, o)
  <2>1. PICK e \in C : /\ <<e.x0, e.x1>> \in DOMAIN ksum /\ Passes(e.x0, e.filt)
                       /\ d = [x0 |-> e.x0, x1 |-> e.x1, filt |-> NextFilt(e.x0, e.filt)]
    BY <1>2, VisitIs
  <2>2. PICK q \in Shown(x0, i, x1, 0, o) :
               \E x \in tree.children[q[1]] :
                 e = [x0 |-> x, x1 |-> q[2], filt |-> Left(q[1], x0, o)]
    BY <1>1, <2>1
  <2> PICK x \in tree.children[q[1]] :
             e = [x0 |-> x, x1 |-> q[2], filt |-> Left(q[1], x0, o)]
    BY <2>2
  <2>3. /\ <<x, q[2]>> \in DOMAIN ksum /\ Passes(x, Left(q[1], x0, o))
        /\ d = [x0 |-> x, x1 |-> q[2], filt |-> NextFilt(x, Left(q[1], x0, o))]
    BY <2>1, <2>2
  <2>4. /\ <<x, q[2]>> \in Shown(x0, i + 1, x1, 0, o)
        /\ d = [x0 |-> x, x1 |-> q[2], filt |-> Left(x, x0, o)]
    BY <2>3, ShownDescends0
  <2>5. QED
    BY <2>4 DEF Arrived
<1>3. ASSUME NEW d \in Arrived(x0, i + 1, x1, 0, o)
      PROVE  d \in Visit(C)
  <2>1. PICK r \in Shown(x0, i + 1, x1, 0, o) :
               d = [x0 |-> r[1], x1 |-> r[2], filt |-> Left(r[1], x0, o)]
    BY <1>3 DEF Arrived
  <2> DEFINE a == tree.parent[r[1]]
             q == <<a, r[2]>>
             e == [x0 |-> r[1], x1 |-> r[2], filt |-> Left(a, x0, o)]
  <2>2. /\ q \in Shown(x0, i, x1, 0, o)
        /\ r[1] \in tree.children[a]
        /\ <<r[1], r[2]>> \in DOMAIN ksum
        /\ Passes(r[1], Left(a, x0, o))
    BY ShownAscends0
  <2>3. NextFilt(r[1], Left(a, x0, o)) = Left(r[1], x0, o)
    <3>1. q[1] = a /\ q[2] = r[2]
      OBVIOUS
    <3> HIDE DEF q, a
    <3>2. QED
      BY <2>2, <3>1, ShownDescends0
  <2>4. e \in C
    <3>1. q[1] = a /\ q[2] = r[2]
      OBVIOUS
    <3>2. QED
      BY <1>1, <2>2, <3>1
  <2>5. e.x0 = r[1] /\ e.x1 = r[2] /\ e.filt = Left(a, x0, o)
    OBVIOUS
  <2> HIDE DEF e, q, a
  <2>6. d = [x0 |-> e.x0, x1 |-> e.x1, filt |-> NextFilt(e.x0, e.filt)]
    BY <2>1, <2>3, <2>5
  <2>7. <<e.x0, e.x1>> \in DOMAIN ksum /\ Passes(e.x0, e.filt)
    BY <2>2, <2>5
  <2>8. QED
    BY <2>4, <2>6, <2>7, VisitIs
<1>4. QED
  BY <1>2, <1>3 DEF C

LEMMA WalkDescends1 ==
  ASSUME TreeInv, KInv, NEW x0 \in tree.live, NEW x1 \in X1,
         NEW o \in Owners \cup {AnyOwner}, NEW i \in Nat, NEW k \in Nat
  PROVE  Visit(Calls1(Arrived(x0, i, x1, k, o))) = Arrived(x0, i, x1, k + 1, o)
<1> DEFINE C == Calls1(Arrived(x0, i, x1, k, o))
<1>1. ASSUME NEW e
      PROVE  e \in C <=>
               \E q \in Shown(x0, i, x1, k, o) : \E y \in Children1(q[2]) :
                 e = [x0 |-> q[1], x1 |-> y, filt |-> Left(q[1], x0, o)]
  BY ArrivedCalls1
<1> HIDE DEF C
<1>2. ASSUME NEW q \in Shown(x0, i, x1, k, o)
      PROVE  /\ Passes(q[1], Left(q[1], x0, o))
             /\ NextFilt(q[1], Left(q[1], x0, o)) = Left(q[1], x0, o)
  <2>1. GoodTree(tree) /\ q[1] \in tree.live /\ x0 \in Path0(tree, q[1])
    BY DEF Shown, Below, KInv, NothingDangles, TreeInv
  <2>2. QED
    BY <2>1, FilterRests
<1>3. ASSUME NEW d \in Visit(C)
      PROVE  d \in Arrived(x0, i, x1, k + 1, o)
  <2>1. PICK e \in C : /\ <<e.x0, e.x1>> \in DOMAIN ksum /\ Passes(e.x0, e.filt)
                       /\ d = [x0 |-> e.x0, x1 |-> e.x1, filt |-> NextFilt(e.x0, e.filt)]
    BY <1>3, VisitIs
  <2>2. PICK q \in Shown(x0, i, x1, k, o) :
               \E y \in Children1(q[2]) :
                 e = [x0 |-> q[1], x1 |-> y, filt |-> Left(q[1], x0, o)]
    BY <1>1, <2>1
  <2> PICK y \in Children1(q[2]) :
             e = [x0 |-> q[1], x1 |-> y, filt |-> Left(q[1], x0, o)]
    BY <2>2
  <2>3. /\ <<q[1], y>> \in DOMAIN ksum
        /\ d = [x0 |-> q[1], x1 |-> y, filt |-> Left(q[1], x0, o)]
    BY <1>2, <2>1, <2>2
  <2>4. <<q[1], y>> \in Shown(x0, i, x1, k + 1, o)
    BY <2>3, ShownDescends1
  <2>5. QED
    BY <2>3, <2>4 DEF Arrived
<1>4. ASSUME NEW d \in Arrived(x0, i, x1, k + 1, o)
      PROVE  d \in Visit(C)
  <2>1. PICK r \in Shown(x0, i, x1, k + 1, o) :
               d = [x0 |-> r[1], x1 |-> r[2], filt |-> Left(r[1], x0, o)]
    BY <1>4 DEF Arrived
  <2> DEFINE b == Parent1(r[2])
             q == <<r[1], b>>
             e == [x0 |-> r[1], x1 |-> r[2], filt |-> Left(r[1], x0, o)]
  <2>2. /\ q \in Shown(x0, i, x1, k, o) /\ r[2] \in Children1(b)
        /\ <<r[1], r[2]>> \in DOMAIN ksum
    BY ShownAscends1
  <2>3. q[1] = r[1] /\ q[2] = b
    OBVIOUS
  <2>4. e \in C
    BY <1>1, <2>2, <2>3
  <2>5. /\ Passes(r[1], Left(r[1], x0, o))
        /\ NextFilt(r[1], Left(r[1], x0, o)) = Left(r[1], x0, o)
    <3> HIDE DEF q
    <3>1. QED
      BY <1>2, <2>2, <2>3
  <2>6. e.x0 = r[1] /\ e.x1 = r[2] /\ e.filt = Left(r[1], x0, o)
    OBVIOUS
  <2> HIDE DEF e, q, b
  <2>7. d = [x0 |-> e.x0, x1 |-> e.x1, filt |-> NextFilt(e.x0, e.filt)]
    BY <2>1, <2>5, <2>6
  <2>8. <<e.x0, e.x1>> \in DOMAIN ksum /\ Passes(e.x0, e.filt)
    BY <2>2, <2>5, <2>6
  <2>9. QED
    BY <2>4, <2>7, <2>8, VisitIs
<1>5. QED
  BY <1>3, <1>4 DEF C

(* Induction for a set of numbers: there is no least one outside of it.    *)
LEMMA AllNumbers ==
  ASSUME NEW S, 0 \in S, \A n \in Nat : n \in S => n + 1 \in S
  PROVE  Nat \subseteq S
<1> DEFINE Outside == Nat \ S
<1>1. SUFFICES ASSUME Outside # {}
               PROVE  FALSE
  OBVIOUS
<1>2. PICK n \in Outside : \A l \in Outside : ~(<<l, n>> \in OpToRel(<, Nat))
  BY <1>1, NatLessThanWellFounded, WFMin
<1>3. n \in Nat /\ n - 1 \in Nat /\ n - 1 < n
  OBVIOUS
<1>4. <<n - 1, n>> \in OpToRel(<, Nat)
  BY <1>3 DEF OpToRel
<1>5. n - 1 \in S
  BY <1>2, <1>3, <1>4
<1>6. n - 1 + 1 \in S
  BY <1>3, <1>5
<1>7. QED
  BY <1>3, <1>6

(* The whole walk. *)
LEMMA WalkShows ==
  ASSUME TreeInv, KInv, JobsCharged, NEW x0 \in tree.live, NEW x1 \in X1,
         NEW o \in Owners \cup {AnyOwner}, NEW d0 \in Nat, NEW d1 \in Nat
  PROVE  KHeapTop(x0, d0, x1, d1, o) = Shown(x0, d0, x1, d1, o)
<1> DEFINE Start == Visit({[x0 |-> x0, x1 |-> x1, filt |-> o]})
           W(n) == IF n <= d0 THEN Arrived(x0, n, x1, 0, o) ELSE Arrived(x0, d0, x1, n - d0, o)
           f == [n \in 0..d0 + d1 |-> W(n)]
           Turn(g, n) == IF n = 0 THEN Start ELSE Visit(Calls(g[n - 1], n <= d0))
           IsWalk(g) == g = [n \in 0..d0 + d1 |-> Turn(g, n)]
<1>1. KHeapTop(x0, d0, x1, d1, o) =
        {<<c.x0, c.x1>> : c \in (CHOOSE g : IsWalk(g))[d0 + d1]}
  BY DEF KHeapTop
<1>2. ASSUME NEW n \in 0..d0 + d1, NEW g, n > 0 => g[n - 1] = W(n - 1)
      PROVE  Turn(g, n) = W(n)
  <2>1. CASE n = 0
    <3>1. Turn(g, n) = Start /\ W(n) = Arrived(x0, 0, x1, 0, o)
      BY <2>1
    <3> HIDE DEF Turn, W, Start
    <3>2. QED
      BY <3>1, WalkStarts DEF Start
  <2>2. CASE n > 0 /\ n <= d0
    <3>1. Turn(g, n) = Visit(Calls0(Arrived(x0, n - 1, x1, 0, o)))
      <4>1. n # 0 /\ n <= d0 /\ n - 1 <= d0 /\ g[n - 1] = W(n - 1)
        BY <1>2, <2>2
      <4> HIDE DEF Start
      <4>2. Turn(g, n) = Visit(Calls0(g[n - 1]))
        BY <4>1, Zenon DEF Calls, Calls0
      <4>3. W(n - 1) = Arrived(x0, n - 1, x1, 0, o)
        BY <4>1
      <4>4. QED
        BY <4>1, <4>2, <4>3, Zenon
    <3>2. Visit(Calls0(Arrived(x0, n - 1, x1, 0, o))) = Arrived(x0, n - 1 + 1, x1, 0, o)
      BY <2>2, WalkDescends0
    <3>3. n - 1 + 1 = n
      OBVIOUS
    <3>4. QED
      BY <2>2, <3>1, <3>2, <3>3
  <2>3. CASE n > d0
    <3>1. W(n - 1) = Arrived(x0, d0, x1, n - 1 - d0, o)
      BY <2>3
    <3>2. Turn(g, n) = Visit(Calls1(Arrived(x0, d0, x1, n - 1 - d0, o)))
      <4>1. n # 0 /\ ~(n <= d0) /\ g[n - 1] = W(n - 1)
        BY <1>2, <2>3
      <4> HIDE DEF Start, W
      <4>2. Turn(g, n) = Visit(Calls1(g[n - 1]))
        BY <4>1, Zenon DEF Calls, Calls1
      <4>3. QED
        BY <3>1, <4>1, <4>2, Zenon
    <3>3. Visit(Calls1(Arrived(x0, d0, x1, n - 1 - d0, o))) = Arrived(x0, d0, x1, n - 1 - d0 + 1, o)
      BY <2>3, WalkDescends1
    <3>4. n - 1 - d0 + 1 = n - d0
      OBVIOUS
    <3>5. QED
      BY <2>3, <3>2, <3>3, <3>4
  <2>4. QED
    BY <2>1, <2>2, <2>3
<1> HIDE DEF W, Turn
<1>3. IsWalk(f)
  <2>1. ASSUME NEW n \in 0..d0 + d1
        PROVE  f[n] = Turn(f, n)
    BY <1>2
  <2>2. QED
    BY <2>1
<1> HIDE DEF f
<1>4. IsWalk(CHOOSE g : IsWalk(g))
  <2> HIDE DEF IsWalk
  <2>1. QED
    BY <1>3
<1>5. ASSUME NEW g, IsWalk(g)
      PROVE  g[d0 + d1] = W(d0 + d1)
  <2> DEFINE S == {n \in Nat : n <= d0 + d1 => g[n] = W(n)}
  <2>1. \A n \in 0..d0 + d1 : g[n] = Turn(g, n)
    BY <1>5
  <2>2. 0 \in S
    BY <1>2, <2>1
  <2>3. ASSUME NEW n \in Nat, n \in S
        PROVE  n + 1 \in S
    BY <1>2, <2>1, <2>3
  <2> HIDE DEF S
  <2>4. Nat \subseteq S
    BY <2>2, <2>3, AllNumbers
  <2>5. QED
    BY <2>4 DEF S
<1>6. W(d0 + d1) = Arrived(x0, d0, x1, d1, o)
  BY DEF W
<1> HIDE DEF IsWalk
<1>7. KHeapTop(x0, d0, x1, d1, o) = {<<c.x0, c.x1>> : c \in Arrived(x0, d0, x1, d1, o)}
  BY <1>1, <1>4, <1>5, <1>6
<1>8. \A q \in Shown(x0, d0, x1, d1, o) : q = <<q[1], q[2]>>
  BY DEF Shown, Below, TreeInv, TypeOK
<1>9. ASSUME NEW e
      PROVE  e \in {<<c.x0, c.x1>> : c \in Arrived(x0, d0, x1, d1, o)} <=>
               \E q \in Shown(x0, d0, x1, d1, o) : e = <<q[1], q[2]>>
  <2> DEFINE R(q) == [x0 |-> q[1], x1 |-> q[2], filt |-> Left(q[1], x0, o)]
  <2>1. ASSUME NEW c
        PROVE  c \in Arrived(x0, d0, x1, d1, o)
                 <=> \E q \in Shown(x0, d0, x1, d1, o) : c = R(q)
    BY DEF Arrived
  <2>2. \A q : R(q).x0 = q[1] /\ R(q).x1 = q[2]
    OBVIOUS
  <2> HIDE DEF R
  <2>3. e \in {<<c.x0, c.x1>> : c \in Arrived(x0, d0, x1, d1, o)} <=>
          \E q \in Shown(x0, d0, x1, d1, o) : e = <<R(q).x0, R(q).x1>>
    BY <2>1, Zenon
  <2>4. QED
    BY <2>2, <2>3, Zenon
<1>10. QED
  BY <1>7, <1>8, <1>9

(* A GET of /top offers its heap exactly the k_nodes of the levels asked   *)
(* for, of the owner asked for: k_heap_top never gives up too early.       *)
THEOREM TopAlwaysComplete ==
  ASSUME ~AllocMayFail
  PROVE  Spec => []TopComplete
<1>1. TreeInv /\ KInv /\ JobsCharged => TopComplete
  <2> SUFFICES ASSUME TreeInv, KInv, JobsCharged,
                      NEW x0 \in tree.live, NEW x1 \in X1,
                      NEW d0 \in 0..3 - Level0(x0), NEW d1 \in 0..2 - Level1(x1),
                      NEW o \in Owners \cup {AnyOwner}
               PROVE  TopGet(x0, x1, d0, d1, o).offered = Shown(x0, d0, x1, d1, o)
    BY DEF TopComplete, Shown
  <2>1. d0 \in Nat /\ d1 \in Nat
    OBVIOUS
  <2>2. QED
    BY <2>1, WalkShows DEF TopGet
<1>2. Init => JobsCharged
  BY DEF Init, JobsCharged
<1>3. TreeInv /\ TreeInv' /\ KInv /\ KInv' /\ JobsCharged /\ [Next]_vars => JobsCharged'
  BY NextJobsCharged
<1>4. QED
  BY <1>1, <1>2, <1>3, TreeInvAlways, KInvAlways, PTL DEF Spec

-----------------------------------------------------------------------------
(* Sums.  SumFunctionOnSet takes one element after the other out of the    *)
(* set, as CHOOSE says.                                                    *)
One(s) == CHOOSE x \in s : TRUE

Rest(s) == s \ {One(s)}

Term(f, g, s) == IF s = {} THEN 0 ELSE f[One(s)] + g[Rest(s)]

IsSum(f, S, g) == g = [s \in SUBSET S |-> Term(f, g, s)]

LEMMA RestIs ==
  ASSUME NEW S, IsFiniteSet(S), NEW s \in SUBSET S
  PROVE  /\ Cardinality(s) \in Nat
         /\ Cardinality(s) <= 0 => s = {}
         /\ s # {} => /\ One(s) \in s /\ Rest(s) \in SUBSET S
                      /\ Cardinality(Rest(s)) = Cardinality(s) - 1
<1>1. IsFiniteSet(s)
  BY FS_Subset
<1>2. Cardinality(s) \in Nat
  BY <1>1, FS_CardinalityType
<1>3. Cardinality(s) = 0 <=> s = {}
  BY <1>1, FS_EmptySet
<1>4. ASSUME s # {}
      PROVE  One(s) \in s /\ Cardinality(Rest(s)) = Cardinality(s) - 1
  <2>1. One(s) \in s
    BY <1>4 DEF One
  <2>2. QED
    BY <1>1, <2>1, FS_RemoveElement DEF Rest
<1>5. QED
  BY <1>2, <1>3, <1>4 DEF Rest

(* Induction over the subsets of a finite set in this order.               *)
LEMMA AllSubsets ==
  ASSUME NEW S, IsFiniteSet(S), NEW P, {} \in P,
         \A s \in SUBSET S : s # {} /\ Rest(s) \in P => s \in P
  PROVE  S \in P
<1> DEFINE N == {n \in Nat : \A s \in SUBSET S : Cardinality(s) <= n => s \in P}
<1>1. 0 \in N
  BY RestIs
<1>2. ASSUME NEW n \in Nat, n \in N
      PROVE  n + 1 \in N
  <2>1. ASSUME NEW s \in SUBSET S, Cardinality(s) <= n + 1, s # {}
        PROVE  Rest(s) \in P
    <3>1. Rest(s) \in SUBSET S /\ Cardinality(Rest(s)) <= n
      BY <2>1, RestIs
    <3>2. QED
      BY <1>2, <3>1
  <2>2. \A s \in SUBSET S : Cardinality(s) <= n + 1 => s \in P
    BY <2>1
  <2>3. QED
    BY <2>2
<1>3. Nat \subseteq N
  <2> HIDE DEF N
  <2>1. QED
    BY <1>1, <1>2, AllNumbers
<1>4. S \in SUBSET S /\ Cardinality(S) \in Nat
  BY RestIs
<1>5. Cardinality(S) \in N
  BY <1>3, <1>4
<1>6. QED
  BY <1>4, <1>5

(* There is a function that SumFunctionOnSet is defined by. *)
LEMMA SumExists ==
  ASSUME NEW S, IsFiniteSet(S), NEW f
  PROVE  \E g : IsSum(f, S, g) /\ SumFunctionOnSet(f, S) = g[S]
<1> DEFINE Good(n, g) == \A s \in SUBSET S : Cardinality(s) <= n => g[s] = Term(f, g, s)
           N == {n \in Nat : \E g : Good(n, g)}
<1>1. 0 \in N
  <2> DEFINE g == [s \in SUBSET S |-> 0]
  <2>1. \A s \in SUBSET S : Cardinality(s) <= 0 => s = {}
    BY RestIs
  <2>2. Good(0, g)
    BY <2>1 DEF Term
  <2> HIDE DEF g
  <2>3. QED
    BY <2>2
<1>2. ASSUME NEW n \in Nat, n \in N
      PROVE  n + 1 \in N
  <2>1. PICK g : Good(n, g)
    BY <1>2
  <2> DEFINE h == [s \in SUBSET S |-> Term(f, g, s)]
  <2>2. ASSUME NEW s \in SUBSET S, Cardinality(s) <= n + 1
        PROVE  h[s] = Term(f, h, s)
    <3>1. CASE s = {}
      BY <3>1 DEF Term
    <3>2. CASE s # {}
      <4>1. Rest(s) \in SUBSET S /\ Cardinality(Rest(s)) <= n
        BY <2>2, <3>2, RestIs
      <4>2. g[Rest(s)] = h[Rest(s)]
        BY <2>1, <4>1
      <4>3. QED
        BY <3>2, <4>2 DEF Term
    <3>3. QED
      BY <3>1, <3>2
  <2> HIDE DEF h
  <2>3. Good(n + 1, h)
    BY <2>2
  <2>4. QED
    BY <2>3
<1>3. \E g : Good(Cardinality(S), g)
  <2>1. Nat \subseteq N
    <3> HIDE DEF N
    <3>1. QED
      BY <1>1, <1>2, AllNumbers
  <2>2. Cardinality(S) \in Nat
    BY RestIs
  <2>3. QED
    BY <2>1, <2>2
<1>4. PICK g : Good(Cardinality(S), g)
  BY <1>3
<1> DEFINE h == [s \in SUBSET S |-> g[s]]
<1>5. IsSum(f, S, h)
  <2>1. ASSUME NEW s \in SUBSET S
        PROVE  g[s] = Term(f, h, s)
    <3>1. Cardinality(s) <= Cardinality(S)
      BY FS_Subset
    <3>2. s # {} => Rest(s) \in SUBSET S
      BY DEF Rest
    <3>3. g[s] = Term(f, g, s)
      BY <1>4, <3>1
    <3>4. QED
      BY <3>2, <3>3 DEF Term
  <2>2. QED
    BY <2>1 DEF IsSum
<1> HIDE DEF h
<1>6. IsSum(f, S, CHOOSE e : IsSum(f, S, e))
  BY <1>5
<1>7. SumFunctionOnSet(f, S) = (CHOOSE e : IsSum(f, S, e))[S]
  BY DEF SumFunctionOnSet, FoldFunctionOnSet, MapThenFoldSet, IsSum, Term, Rest, One
<1>8. QED
  BY <1>6, <1>7

(* If one function differs from the other by d at z only, its sum differs  *)
(* by d if z counts.                                                       *)
LEMMA SumChanges ==
  ASSUME NEW S, IsFiniteSet(S), NEW f, NEW h, NEW z, NEW d \in Int,
         \A x \in S : f[x] \in Int /\ h[x] = f[x] + (IF x = z THEN d ELSE 0)
  PROVE  /\ SumFunctionOnSet(f, S) \in Int
         /\ SumFunctionOnSet(h, S) = SumFunctionOnSet(f, S) + (IF z \in S THEN d ELSE 0)
<1>1. PICK a : IsSum(f, S, a) /\ SumFunctionOnSet(f, S) = a[S]
  BY SumExists
<1>2. PICK b : IsSum(h, S, b) /\ SumFunctionOnSet(h, S) = b[S]
  BY SumExists
<1> DEFINE P == {s \in SUBSET S : a[s] \in Int /\ b[s] = a[s] + (IF z \in s THEN d ELSE 0)}
<1>3. \A s \in SUBSET S : a[s] = Term(f, a, s) /\ b[s] = Term(h, b, s)
  BY <1>1, <1>2 DEF IsSum
<1>4. {} \in P
  BY <1>3 DEF Term
<1>5. ASSUME NEW s \in SUBSET S, s # {}, Rest(s) \in P
      PROVE  s \in P
  <2> DEFINE x == One(s)
             r == Rest(s)
  <2>1. x \in s /\ r = s \ {x}
    BY <1>5, RestIs DEF Rest
  <2>2. a[s] = f[x] + a[r] /\ b[s] = h[x] + b[r]
    BY <1>3, <1>5 DEF Term
  <2>3. a[r] \in Int /\ b[r] = a[r] + (IF z \in r THEN d ELSE 0)
    BY <1>5
  <2>4. f[x] \in Int /\ h[x] = f[x] + (IF x = z THEN d ELSE 0)
    BY <2>1
  <2> HIDE DEF x, r
  <2>5. a[s] \in Int /\ b[s] = a[s] + (IF z \in s THEN d ELSE 0)
    BY <2>1, <2>2, <2>3, <2>4
  <2>6. QED
    BY <2>5
<1> HIDE DEF P
<1>6. S \in P
  BY <1>4, <1>5, AllSubsets
<1>7. QED
  BY <1>1, <1>2, <1>6 DEF P

LEMMA SumOfNothing ==
  ASSUME NEW S, IsFiniteSet(S), NEW f, \A x \in S : f[x] = 0
  PROVE  SumFunctionOnSet(f, S) = 0
<1>1. PICK a : IsSum(f, S, a) /\ SumFunctionOnSet(f, S) = a[S]
  BY SumExists
<1> DEFINE P == {s \in SUBSET S : a[s] = 0}
<1>2. \A s \in SUBSET S : a[s] = Term(f, a, s)
  BY <1>1 DEF IsSum
<1>3. {} \in P
  BY <1>2 DEF Term
<1>4. ASSUME NEW s \in SUBSET S, s # {}, Rest(s) \in P
      PROVE  s \in P
  <2>1. One(s) \in s
    BY <1>4, RestIs
  <2>2. QED
    BY <1>2, <1>4, <2>1 DEF Term
<1> HIDE DEF P
<1>5. S \in P
  BY <1>3, <1>4, AllSubsets
<1>6. QED
  BY <1>1, <1>5 DEF P

-----------------------------------------------------------------------------
(* What x_update adds and what k_destroy takes away. *)
LEMMA ServMsgAdds ==
  ASSUME ~AllocMayFail, TreeInv, NEW s \in Servs, NEW n \in Nids, NEW d \in Deltas,
         ServMsg(s, n, d), NEW q
  PROVE  /\ Get(q) \in Int
         /\ Get(q)' = Get(q) + (IF q \in Pairs(tree', NidLookup(s, n), s) THEN d ELSE 0)
<1>1. ksum' = KUpdate(ksum, tree', NidLookup(s, n), s, d, {})
  BY DEF ServMsg
<1>2. d \in Int
  BY ConfigAssumption
<1>3. Get(q) \in Int
  BY DEF Get, TreeInv, TypeOK
<1>4. QED
  BY <1>1, <1>2, <1>3 DEF KUpdate, Get

LEMMA ZombieTakes ==
  ASSUME TreeInv, KInv, NEW j \in Jobs, ksum' = KDestroy(ksum, j), NEW x, NEW y
  PROVE  Get(<<x, y>>)' = IF x = j THEN 0 ELSE Get(<<x, y>>)
<1>1. /\ DOMAIN ksum' = {q \in DOMAIN ksum : q[1] # j}
      /\ \A q \in DOMAIN ksum' : ksum'[q] = ksum[q]
  BY KDestroyTable DEF KInv
<1>2. <<x, y>> \in DOMAIN ksum' <=> <<x, y>> \in DOMAIN ksum /\ x # j
  BY <1>1
<1>3. QED
  BY <1>1, <1>2 DEF Get

LEMMA FiniteParts ==
  /\ IsFiniteSet(Hosts) /\ IsFiniteSet(Clusters) /\ IsFiniteSet(Filesystems)
  /\ \A f : IsFiniteSet({s \in Servs : FsOf[s] = f})
<1>1. IsFiniteSet(X0) /\ IsFiniteSet(X1)
  BY NodesAssumption
<1>2. \A T \in SUBSET X0 : IsFiniteSet(T)
  BY <1>1, FS_Subset
<1>3. \A T \in SUBSET X1 : IsFiniteSet(T)
  BY <1>1, FS_Subset
<1>4. QED
  BY <1>2, <1>3 DEF X0, X1

(* A report is counted once on each side of each sum. *)
LEMMA ReportConserves ==
  ASSUME ~AllocMayFail, TreeInv, TrafficConserved,
         NEW s \in Servs, NEW n \in Nids, NEW d \in Deltas, ServMsg(s, n, d)
  PROVE  TrafficConserved'
<1> DEFINE host == NidLookup(s, n)
           P == Pairs(tree', host, s)
           up == Path0(tree', host)
<1>1. PICK j \in Jobs, c \in Clusters : up = {host, j, c, U}
  BY ServMsgNidTree, Path0Is DEF ServMsg
<1>2. host \in Hosts
  BY NidLookupType DEF TreeInv
<1>3. Path1(s) = {s, FsOf[s], V} /\ FsOf[s] \in Filesystems
  BY Path1Is, ConfigAssumption
<1>4. \A x, y : <<x, y>> \in P <=> x \in up /\ y \in Path1(s)
  BY DEF Pairs
<1>5. d \in Int
  BY ConfigAssumption
<1>6. ASSUME NEW q
      PROVE  /\ Get(q) \in Int
             /\ Get(q)' = Get(q) + (IF q \in P THEN d ELSE 0)
  BY ServMsgAdds
<1> HIDE DEF host, P, up
<1>7. ASSUME NEW x \in X0, NEW f \in Filesystems
      PROVE  (Get(<<x, f>>) = SumFunctionOnSet([t \in Servs |-> Get(<<x, t>>)],
                                              {t \in Servs : FsOf[t] = f}))'
  <2> DEFINE S == {t \in Servs : FsOf[t] = f}
             F == [t \in Servs |-> Get(<<x, t>>)]
             e == IF x \in up THEN d ELSE 0
  <2>1. IsFiniteSet(S) /\ e \in Int
    BY <1>5, FiniteParts
  <2>2. \A t \in S : F[t] \in Int /\ F'[t] = F[t] + (IF t = s THEN e ELSE 0)
    <3>1. ASSUME NEW t \in S
          PROVE  <<x, t>> \in P <=> x \in up /\ t = s
      BY <1>3, <1>4, NodesAssumption
    <3>2. QED
      BY <1>6, <3>1
  <2>3. Get(<<x, f>>)' = Get(<<x, f>>) + (IF s \in S THEN e ELSE 0)
    <3>1. <<x, f>> \in P <=> x \in up /\ f = FsOf[s]
      BY <1>3, <1>4, NodesAssumption
    <3>2. QED
      BY <1>6, <3>1
  <2>4. Get(<<x, f>>) = SumFunctionOnSet(F, S)
    BY DEF TrafficConserved
  <2> HIDE DEF F, S, e
  <2>5. SumFunctionOnSet(F', S) = SumFunctionOnSet(F, S) + (IF s \in S THEN e ELSE 0)
    BY <2>1, <2>2, SumChanges, ZenonT(30)
  <2>6. QED
    BY <2>3, <2>4, <2>5 DEF F, S
<1>8. ASSUME NEW x \in X0
      PROVE  (Get(<<x, V>>) = SumFunction([f \in Filesystems |-> Get(<<x, f>>)]))'
  <2> DEFINE F == [f \in Filesystems |-> Get(<<x, f>>)]
             e == IF x \in up THEN d ELSE 0
  <2>1. IsFiniteSet(Filesystems) /\ e \in Int
    BY <1>5, FiniteParts
  <2>2. \A f \in Filesystems : F[f] \in Int /\ F'[f] = F[f] + (IF f = FsOf[s] THEN e ELSE 0)
    <3>1. ASSUME NEW f \in Filesystems
          PROVE  <<x, f>> \in P <=> x \in up /\ f = FsOf[s]
      BY <1>3, <1>4, NodesAssumption
    <3>2. QED
      BY <1>6, <3>1
  <2>3. Get(<<x, V>>)' = Get(<<x, V>>) + e
    BY <1>3, <1>4, <1>6
  <2>4. Get(<<x, V>>) = SumFunctionOnSet(F, Filesystems)
    BY DEF TrafficConserved, SumFunction
  <2>5. DOMAIN F' = Filesystems
    OBVIOUS
  <2> HIDE DEF F, e
  <2>6. SumFunctionOnSet(F', Filesystems) = SumFunctionOnSet(F, Filesystems) + e
    BY <1>3, <2>1, <2>2, SumChanges
  <2>7. Get(<<x, V>>)' = SumFunction(F')
    BY <2>3, <2>4, <2>5, <2>6 DEF SumFunction
  <2>8. QED
    BY <2>7 DEF F
<1>9. ASSUME NEW y \in X1
      PROVE  (Get(<<U, y>>) = SumFunction([h \in Hosts |-> Get(<<h, y>>)]))'
  <2> DEFINE F == [h \in Hosts |-> Get(<<h, y>>)]
             e == IF y \in Path1(s) THEN d ELSE 0
  <2>1. IsFiniteSet(Hosts) /\ e \in Int
    BY <1>5, FiniteParts
  <2>2. \A h \in Hosts : F[h] \in Int /\ F'[h] = F[h] + (IF h = host THEN e ELSE 0)
    <3>1. ASSUME NEW h \in Hosts
          PROVE  <<h, y>> \in P <=> h = host /\ y \in Path1(s)
      BY <1>1, <1>4, NodesAssumption
    <3>2. QED
      BY <1>6, <3>1
  <2>3. Get(<<U, y>>)' = Get(<<U, y>>) + e
    BY <1>1, <1>4, <1>6
  <2>4. Get(<<U, y>>) = SumFunctionOnSet(F, Hosts)
    BY DEF TrafficConserved, SumFunction
  <2>5. DOMAIN F' = Hosts
    OBVIOUS
  <2> HIDE DEF F, e
  <2>6. SumFunctionOnSet(F', Hosts) = SumFunctionOnSet(F, Hosts) + e
    BY <1>2, <2>1, <2>2, SumChanges
  <2>7. Get(<<U, y>>)' = SumFunction(F')
    BY <2>3, <2>4, <2>5, <2>6 DEF SumFunction
  <2>8. QED
    BY <2>7 DEF F
<1>10. ASSUME NEW y \in X1
       PROVE  (Get(<<U, y>>) = SumFunction([k \in Clusters |-> Get(<<k, y>>)]))'
  <2> DEFINE F == [k \in Clusters |-> Get(<<k, y>>)]
             e == IF y \in Path1(s) THEN d ELSE 0
  <2>1. IsFiniteSet(Clusters) /\ e \in Int
    BY <1>5, FiniteParts
  <2>2. \A k \in Clusters : F[k] \in Int /\ F'[k] = F[k] + (IF k = c THEN e ELSE 0)
    <3>1. ASSUME NEW k \in Clusters
          PROVE  <<k, y>> \in P <=> k = c /\ y \in Path1(s)
      BY <1>1, <1>2, <1>4, NodesAssumption
    <3>2. QED
      BY <1>6, <3>1
  <2>3. Get(<<U, y>>)' = Get(<<U, y>>) + e
    BY <1>1, <1>4, <1>6
  <2>4. Get(<<U, y>>) = SumFunctionOnSet(F, Clusters)
    BY DEF TrafficConserved, SumFunction
  <2>5. DOMAIN F' = Clusters
    OBVIOUS
  <2> HIDE DEF F, e
  <2>6. SumFunctionOnSet(F', Clusters) = SumFunctionOnSet(F, Clusters) + e
    BY <2>1, <2>2, SumChanges
  <2>7. Get(<<U, y>>)' = SumFunction(F')
    BY <2>3, <2>4, <2>5, <2>6 DEF SumFunction
  <2>8. QED
    BY <2>7 DEF F
<1>11. QED
  BY <1>7, <1>8, <1>9, <1>10 DEF TrafficConserved

(* A freed job takes nothing of another consumer's with it. *)
LEMMA FreeingConserves ==
  ASSUME TreeInv, KInv, TrafficConserved, NEW j \in Jobs, ksum' = KDestroy(ksum, j)
  PROVE  TrafficConserved'
<1>1. \A x, y : Get(<<x, y>>)' = IF x = j THEN 0 ELSE Get(<<x, y>>)
  BY ZombieTakes
<1>2. ASSUME NEW x \in X0, x # j
      PROVE  /\ [t \in Servs |-> Get(<<x, t>>)]' = [t \in Servs |-> Get(<<x, t>>)]
             /\ [f \in Filesystems |-> Get(<<x, f>>)]' = [f \in Filesystems |-> Get(<<x, f>>)]
             /\ \A y : Get(<<x, y>>)' = Get(<<x, y>>)
  BY <1>1, <1>2
<1>3. ASSUME NEW f
      PROVE  /\ SumFunctionOnSet([t \in Servs |-> Get(<<j, t>>)], {t \in Servs : FsOf[t] = f})' = 0
             /\ SumFunction([g \in Filesystems |-> Get(<<j, g>>)])' = 0
             /\ \A y : Get(<<j, y>>)' = 0
  <2> DEFINE F == [t \in Servs |-> Get(<<j, t>>)]
             G == [g \in Filesystems |-> Get(<<j, g>>)]
             S == {t \in Servs : FsOf[t] = f}
  <2>1. (\A t \in S : F'[t] = 0) /\ (\A g \in Filesystems : G'[g] = 0) /\ DOMAIN G' = Filesystems
    BY <1>1
  <2>2. IsFiniteSet(S) /\ IsFiniteSet(Filesystems)
    BY FiniteParts
  <2> HIDE DEF F, G, S
  <2>3. SumFunctionOnSet(F', S) = 0 /\ SumFunctionOnSet(G', Filesystems) = 0
    BY <2>1, <2>2, SumOfNothing
  <2>4. SumFunction(G') = 0
    BY <2>1, <2>3 DEF SumFunction
  <2>5. QED
    BY <1>1, <2>3, <2>4 DEF F, G, S
<1>4. j \notin Hosts /\ j \notin Clusters /\ j # U
  BY NodesAssumption
<1>5. ASSUME NEW y
      PROVE  /\ [h \in Hosts |-> Get(<<h, y>>)]' = [h \in Hosts |-> Get(<<h, y>>)]
             /\ [c \in Clusters |-> Get(<<c, y>>)]' = [c \in Clusters |-> Get(<<c, y>>)]
             /\ Get(<<U, y>>)' = Get(<<U, y>>)
  BY <1>1, <1>4
<1>6. ASSUME NEW x \in X0, NEW f \in Filesystems
      PROVE  (Get(<<x, f>>) = SumFunctionOnSet([t \in Servs |-> Get(<<x, t>>)],
                                              {t \in Servs : FsOf[t] = f}))'
  <2>1. CASE x = j
    BY <1>3, <2>1
  <2>2. CASE x # j
    BY <1>2, <2>2 DEF TrafficConserved
  <2>3. QED
    BY <2>1, <2>2
<1>7. ASSUME NEW x \in X0
      PROVE  (Get(<<x, V>>) = SumFunction([f \in Filesystems |-> Get(<<x, f>>)]))'
  <2>1. CASE x = j
    BY <1>3, <2>1
  <2>2. CASE x # j
    BY <1>2, <2>2 DEF TrafficConserved
  <2>3. QED
    BY <2>1, <2>2
<1>8. ASSUME NEW y \in X1
      PROVE  /\ (Get(<<U, y>>) = SumFunction([h \in Hosts |-> Get(<<h, y>>)]))'
             /\ (Get(<<U, y>>) = SumFunction([c \in Clusters |-> Get(<<c, y>>)]))'
  BY <1>5 DEF TrafficConserved
<1>9. QED
  BY <1>6, <1>7, <1>8 DEF TrafficConserved

(* Whatever moves and whatever is freed, all sums of traffic agree.        *)
THEOREM TrafficAlwaysConserved ==
  ASSUME ~AllocMayFail
  PROVE  Spec => []TrafficConserved
<1>1. Init => TrafficConserved
  <2> SUFFICES ASSUME Init PROVE TrafficConserved
    OBVIOUS
  <2>1. \A q : Get(q) = 0
    BY DEF Init, Get
  <2>2. ASSUME NEW S, IsFiniteSet(S)
        PROVE  /\ \A x : SumFunction([y \in S |-> Get(<<x, y>>)]) = 0
               /\ \A y : SumFunction([x \in S |-> Get(<<x, y>>)]) = 0
               /\ \A x, T : S \subseteq T => SumFunctionOnSet([y \in T |-> Get(<<x, y>>)], S) = 0
    <3>1. ASSUME NEW F, \A x \in S : F[x] = 0
          PROVE  SumFunctionOnSet(F, S) = 0
      BY <2>2, <3>1, SumOfNothing
    <3>2. QED
      BY <2>1, <3>1 DEF SumFunction
  <2>3. QED
    BY <2>1, <2>2, FiniteParts DEF TrafficConserved
<1>2. TreeInv /\ KInv /\ TrafficConserved /\ [Next]_vars => TrafficConserved'
  <2> SUFFICES ASSUME TreeInv, KInv, TrafficConserved, [Next]_vars PROVE TrafficConserved'
    OBVIOUS
  <2>1. CASE ksum' = ksum
    BY <2>1 DEF TrafficConserved, Get
  <2>2. ASSUME NEW j \in Jobs, ZombieFires(j)
        PROVE  TrafficConserved'
    BY <2>1, <2>2, FreeingConserves DEF ZombieFires
  <2>3. QED
    BY <2>1, <2>2, ReportConserves
    DEF Next, vars, ClusMsg, ClusMsgNewHost, ClusMsgMoveHost, ServMsgMalformed
<1>3. QED
  BY <1>1, <1>2, TreeInvAlways, KInvAlways, PTL DEF Spec
=============================================================================
