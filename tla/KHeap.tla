------------------------------- MODULE KHeap -------------------------------
(***************************************************************************)
(* The answer to a GET of /top: k_heap_top offers the k_nodes it meets to  *)
(* a heap of at most Limit (k_heap_add), and k_heap_order then sorts the   *)
(* heap in place.  The least k_node is at the root, so that it is the one  *)
(* a greater one replaces.  One action is one turn of a loop.              *)
(*                                                                         *)
(* The walk meets every k_node at most once, in the order of hash chains   *)
(* and child lists: here, in any order, and it may end after any of them.  *)
(***************************************************************************)
EXTENDS Integers

CONSTANTS
  KNodes,  \* the k_nodes the walk may meet
  Rank,    \* the place of a k_node in the order of t_spec, a lexicographic
           \* order of some of its numbers
  Limit,   \* h_limit
  NoK      \* a cell that was not written

ASSUME HeapAssumption ==
  /\ Rank \in [KNodes -> Int]
  /\ Limit \in Nat
  /\ NoK \notin KNodes

VARIABLES
  pc,     \* which loop is running
  h,      \* h_k
  count,  \* h_count
  n,      \* in k_heap_order, how many cells are still a heap
  i,      \* the cell that is to be filled
  k,      \* the k_node to fill it with
  met     \* history: the k_nodes offered so far

vars == <<pc, h, count, n, i, k, met>>

(* k_top_cmp, as far as its sign. *)
Cmp(k0, k1) == Rank[k0] - Rank[k1]

Parent(c) == (c - 1) \div 2

RightChild(m, at) ==
  IF 2 * at + 2 < m THEN 2 * at + 2 ELSE 2 * at + 1

(* The lesser of the children of a cell that has one below m. *)
LesserChild(m, at) ==
  LET c == 2 * at + 1
      r == 2 * at + 2
  IN IF r < m /\ Cmp(h[r], h[c]) < 0 THEN r ELSE c

AddKeepsFirst(x) ==
  IF count = Limit
  THEN UNCHANGED <<pc, h, count, n, i, k>>
  ELSE /\ pc' = "up" /\ i' = count /\ count' = count + 1 /\ k' = x
       /\ UNCHANGED <<h, n>>

(* k_heap_add, up to its loop; k_heap_add_full returns at once if x is not *)
(* greater than the least in the heap.                                     *)
Add(x) ==
  IF Limit = 0 \/ (count = Limit /\ Cmp(x, h[0]) <= 0)
  THEN UNCHANGED <<pc, h, count, n, i, k>>
  ELSE /\ pc' = IF count = Limit THEN "full" ELSE "up"
       /\ i' = IF count = Limit THEN 0 ELSE count
       /\ count' = IF count = Limit THEN count ELSE count + 1
       /\ k' = x
       /\ UNCHANGED <<h, n>>

Offer(x) ==
  /\ pc = "walk" /\ x \notin met
  /\ met' = met \cup {x}
  /\ Add(x)

Fill(next) ==
  /\ h' = [h EXCEPT ![i] = k]
  /\ pc' = next
  /\ UNCHANGED <<count, n, i, k, met>>

(* The loop of k_heap_add. *)
SiftUp ==
  /\ pc = "up"
  /\ IF i # 0 /\ Cmp(h[Parent(i)], k) > 0
     THEN /\ h' = [h EXCEPT ![i] = h[Parent(i)]]
          /\ i' = Parent(i)
          /\ UNCHANGED <<pc, count, n, k, met>>
     ELSE Fill("walk")

SiftDownInPlace(m, next) ==
  LET c == LesserChild(m, i) IN
  IF 2 * i + 1 < m /\ Cmp(k, h[c]) > 0
  THEN /\ h' = [h EXCEPT ![i] = h[c]]
       /\ UNCHANGED <<pc, count, n, i, k, met>>
  ELSE Fill(next)

(* The loop of k_heap_add_full, and the same inside k_heap_order: the cell *)
(* moves down past lesser children until k can be put there.               *)
SiftDown(m, next) ==
  LET c == LesserChild(m, i) IN
  IF 2 * i + 1 < m /\ Cmp(k, h[c]) > 0
  THEN /\ h' = [h EXCEPT ![i] = h[c]]
       /\ i' = c
       /\ UNCHANGED <<pc, count, n, k, met>>
  ELSE Fill(next)

SiftFull == pc = "full" /\ SiftDown(count, "walk")

(* The walk is over. *)
Order ==
  /\ pc = "walk"
  /\ pc' = "order" /\ n' = count
  /\ UNCHANGED <<h, count, i, k, met>>

(* The outer loop of k_heap_order: the least goes behind the others. *)
OrderNext ==
  /\ pc = "order" /\ n > 0
  /\ n' = n - 1 /\ k' = h[n - 1] /\ i' = 0
  /\ h' = [h EXCEPT ![n - 1] = h[0]]
  /\ pc' = "down"
  /\ UNCHANGED <<count, met>>

OrderDown == pc = "down" /\ SiftDown(n, "order")

OrderDone ==
  /\ pc = "order" /\ n = 0
  /\ pc' = "done"
  /\ UNCHANGED <<h, count, n, i, k, met>>

Init ==
  /\ pc = "walk" /\ h = [c \in 0..Limit - 1 |-> NoK] /\ count = 0
  /\ n = 0 /\ i = 0 /\ k = NoK /\ met = {}

Next ==
  \/ \E x \in KNodes : Offer(x)
  \/ SiftUp \/ SiftFull
  \/ Order \/ OrderNext \/ OrderDown \/ OrderDone

Spec == Init /\ [][Next]_vars

(* A request is answered in one go. *)
FairSpec == Spec /\ WF_vars(Next)

-----------------------------------------------------------------------------
(* No cell outside of h_k is written, and n never passes count.            *)
TypeOK ==
  /\ pc \in {"walk", "up", "full", "order", "down", "done"}
  /\ h \in [0..Limit - 1 -> KNodes \cup {NoK}]
  /\ count \in 0..Limit /\ n \in 0..count /\ i \in Nat
  /\ pc \in {"up", "full"} => i < count
  /\ pc = "down" => i <= n
  /\ k \in KNodes \cup {NoK}
  /\ met \subseteq KNodes

Kept == {h[c] : c \in 0..count - 1}

(* The heap holds the greatest of the k_nodes met, each of them once, as   *)
(* many as Limit allows.                                                   *)
HoldsGreatest ==
  pc \in {"walk", "order", "done"} =>
    /\ \A c, d \in 0..count - 1 : c # d => h[c] # h[d]
    /\ Kept \subseteq met
    /\ count < Limit => Kept = met
    /\ \A x \in met \ Kept, y \in Kept : Cmp(x, y) <= 0

(* The answer lists them from the greatest to the least (k_heap_order).    *)
Sorted == pc = "done" => \A c \in 1..count - 1 : Cmp(h[c - 1], h[c]) >= 0

(* Every request is answered: the loops of k_heap_add, k_heap_add_full and *)
(* k_heap_order end, whatever compares equal.                              *)
Terminates == <>(pc = "done")
=============================================================================
