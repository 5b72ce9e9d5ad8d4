------------------------------ MODULE TopWalk ------------------------------
(***************************************************************************)
(* GET /top: which k_nodes top_get_cb offers to its heap in a state of the *)
(* flow tree.  The client names a consumer x0 and a provider x1, how many  *)
(* levels d0 and d1 to go down from them, and perhaps the owner whose jobs *)
(* it asks for.  What the heap does with the k_nodes is module KHeap.      *)
(***************************************************************************)
EXTENDS FlowTree

CONSTANTS
  Owners,   \* owners of jobs
  OwnerOf,  \* j_owner of each job: its name decides, jobs are not renamed
  AnyOwner  \* a query without "owner"

ASSUME OwnerAssumption ==
  /\ OwnerOf \in [Jobs -> Owners]
  /\ AnyOwner \notin Owners

(* k_heap_filt_owner: -1 leaves the k_node and all below it out, 1 takes   *)
(* the filter off for all below it.                                        *)
FiltOwnerLenient(x, o) ==
  IF x \in Jobs /\ OwnerOf[x] = o THEN 1 ELSE 0

FiltOwner(x, o) ==
  IF x \in Jobs THEN IF OwnerOf[x] = o THEN 1 ELSE -1 ELSE 0

Children1(y) ==
  IF y = V THEN Filesystems ELSE {s \in Servs : FsOf[s] = y}

(* What k_heap_top does before it goes further: a pair without a k_node is *)
(* dropped, then the filter, if it is still on, has its say.               *)
Visit(calls) ==
  {[x0 |-> c.x0, x1 |-> c.x1,
    filt |-> IF c.filt # AnyOwner /\ FiltOwner(c.x0, c.filt) > 0
             THEN AnyOwner ELSE c.filt] :
   c \in {d \in calls : /\ <<d.x0, d.x1>> \in DOMAIN ksum
                        /\ d.filt # AnyOwner => FiltOwner(d.x0, d.filt) >= 0}}

(* The calls the visited ones make: through x_child_list of x0 while d0 is *)
(* not used up, then of x1.                                                *)
Calls(visited, consumers) ==
  IF consumers
  THEN UNION {{[c EXCEPT !.x0 = x] : x \in tree.children[c.x0]} : c \in visited}
  ELSE UNION {{[c EXCEPT !.x1 = y] : y \in Children1(c.x1)} : c \in visited}

(* k_heap_top: the pairs that reach k_heap_add.                            *)
KHeapTop(x0, d0, x1, d1, filt) ==
  LET visited[n \in 0..d0 + d1] ==
        IF n = 0 THEN Visit({[x0 |-> x0, x1 |-> x1, filt |-> filt]})
        ELSE Visit(Calls(visited[n - 1], n <= d0))
  IN {<<c.x0, c.x1>> : c \in visited[d0 + d1]}

(* top_get_cb, once the query is parsed: x_lookup_str finds only what is   *)
(* hashed, but of any type, though a pair with a provider for x0 or a      *)
(* consumer for x1 has no k_node.                                          *)
TopGet(x0, x1, d0, d1, o) ==
  IF ~({x0, x1} \subseteq tree.live \cup X1) THEN [status |-> 404, offered |-> {}]
  ELSE [status |-> 200, offered |-> KHeapTop(x0, d0, x1, d1, o)]

-----------------------------------------------------------------------------
(* The levels of the two trees. *)
Level0(x) == CASE x = U -> 0 [] x \in Clusters -> 1 [] x \in Jobs -> 2 [] OTHER -> 3
Level1(y) == CASE y = V -> 0 [] y \in Filesystems -> 1 [] OTHER -> 2

(* The pairs with traffic that lie d0 levels below x0 and d1 below x1.     *)
Below(x0, d0, x1, d1) ==
  {q \in DOMAIN ksum :
     /\ Level0(q[1]) = Level0(x0) + d0 /\ x0 \in Path0(tree, q[1])
     /\ Level1(q[2]) = Level1(x1) + d1 /\ x1 \in Path1(q[2])}

(* A host that was moved to a job which has not had traffic with x1 yet is *)
(* hidden behind it (see ListedStays).                                     *)
Hidden(q, x0, x1) ==
  q[1] \in Hosts /\ q[1] # x0 /\ <<tree.parent[q[1]], x1>> \notin DOMAIN ksum

(* The job that q is charged to, if it is not above x0, has the owner o.   *)
Owns(q, x0, o) ==
  LET j == IF q[1] \in Hosts THEN tree.parent[q[1]] ELSE q[1]
  IN j \in Jobs /\ Level0(x0) <= 2 => OwnerOf[j] = o

(* A GET of /top leaves out no k_node of the levels asked for and shows    *)
(* none of another owner's jobs, though k_heap_top gives up a subtree at   *)
(* the first pair without a k_node: x_update must have made the k_nodes of *)
(* all pairs above, and k_destroy may take none of them away.  The one     *)
(* exception is Hidden: a host that was moved to a job without a k_node.   *)
TopComplete ==
  \A x0 \in tree.live, x1 \in X1 :
  \A d0 \in 0..3 - Level0(x0), d1 \in 0..2 - Level1(x1) :
    LET shown == {q \in Below(x0, d0, x1, d1) : ~Hidden(q, x0, x1)}
    IN \A o \in Owners \cup {AnyOwner} :
         TopGet(x0, x1, d0, d1, o).offered =
           {q \in shown : o # AnyOwner => Owns(q, x0, o)}
=============================================================================
