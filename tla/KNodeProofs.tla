---------------------------- MODULE KNodeProofs ----------------------------
(***************************************************************************)
(* Theorems about the k_nodes of the master: about the heap of GET /top,   *)
(* for any k_nodes, any order of them and any limit, and about the rate of *)
(* a k_node, for any tick, any updates and any length of time.             *)
(***************************************************************************)
EXTENDS KHeap, KNode, WellFoundedInduction, TLAPS

-----------------------------------------------------------------------------
(* Heaps of numbers: the first m of an array r. *)

(* c is one of the two cells below p. *)
Edge(p, c) == c = 2 * p + 1 \/ c = 2 * p + 2

Ordered(r, m) == \A p, c \in 0..m - 1 : Edge(p, c) => r[p] <= r[c]

(* While a number moves up from x only the edge above it may be wrong, and *)
(* while it moves down only those below.                                   *)
OrderedButAbove(r, x, m) ==
  \A p, c \in 0..m - 1 : Edge(p, c) =>
    /\ c # x => r[p] <= r[c]
    /\ p = x => \A q \in 0..m - 1 : Edge(q, x) => r[q] <= r[c]

OrderedButBelow(r, x, m) ==
  \A p, c \in 0..m - 1 : Edge(p, c) =>
    /\ p # x => r[p] <= r[c]
    /\ p = x => \A q \in 0..m - 1 : Edge(q, x) => r[q] <= r[c]

Swap(r, x, y) == [r EXCEPT ![x] = r[y], ![y] = r[x]]

LEMMA ParentIsAbove ==
  ASSUME NEW c \in Nat, c # 0
  PROVE  Parent(c) \in Nat /\ Parent(c) < c /\ Edge(Parent(c), c)
BY DEF Parent, Edge

(* A cell is below one other, which comes before it. *)
LEMMA OneParent ==
  ASSUME NEW p \in Nat, NEW q \in Nat, NEW c \in Nat, Edge(p, c)
  PROVE  p < c /\ (Edge(q, c) => p = q)
BY DEF Edge

(* Every cell is the root or has a parent before it, so the root of a heap *)
(* is its least: a first cell that is less would be less than its parent.  *)
LEMMA RootLeast ==
  ASSUME NEW m \in Nat, NEW r, \A c \in 0..m - 1 : r[c] \in Int, Ordered(r, m)
  PROVE  \A c \in 0..m - 1 : r[0] <= r[c]
<1> DEFINE Less == {c \in 0..m - 1 : r[c] < r[0]}
<1>1. SUFFICES ASSUME Less # {}
               PROVE  FALSE
  BY DEF Ordered
<1>2. Less \subseteq Nat
  OBVIOUS
<1>3. IsWellFoundedOn(OpToRel(<, Nat), Nat)
  BY NatLessThanWellFounded
<1>4. PICK c \in Less : \A d \in Less : ~(<<d, c>> \in OpToRel(<, Nat))
  BY <1>1, <1>2, <1>3, WFMin
<1>5. c \in Nat /\ c # 0
  OBVIOUS
<1>6. Parent(c) \in Nat /\ Parent(c) < c /\ Edge(Parent(c), c)
  BY <1>5, ParentIsAbove
<1>7. Parent(c) \in 0..m - 1 /\ r[Parent(c)] <= r[c]
  BY <1>6 DEF Ordered
<1>8. Parent(c) \in Less
  BY <1>7
<1>9. <<Parent(c), c>> \in OpToRel(<, Nat)
  BY <1>5, <1>6 DEF OpToRel
<1>10. QED
  BY <1>4, <1>8, <1>9

(* A turn of the loop of k_heap_add. *)
LEMMA UpStep ==
  ASSUME NEW m \in Nat, NEW r \in [0..m - 1 -> Int], NEW x \in 0..m - 1, x # 0,
         OrderedButAbove(r, x, m), r[Parent(x)] > r[x]
  PROVE  OrderedButAbove(Swap(r, x, Parent(x)), Parent(x), m)
<1> DEFINE y == Parent(x)
           s == Swap(r, x, y)
<1>1. y \in 0..m - 1 /\ y < x /\ Edge(y, x)
  BY ParentIsAbove
<1>2. \A c \in 0..m - 1 : s[c] = IF c = x THEN r[y] ELSE IF c = y THEN r[x] ELSE r[c]
  BY <1>1 DEF Swap
<1>3. SUFFICES ASSUME NEW p \in 0..m - 1, NEW c \in 0..m - 1, Edge(p, c)
               PROVE  /\ c # y => s[p] <= s[c]
                      /\ p = y => \A q \in 0..m - 1 : Edge(q, y) => s[q] <= s[c]
  BY DEF OrderedButAbove
<1>4. ASSUME c # y
      PROVE  s[p] <= s[c]
  <2>1. CASE c = x
    <3>1. p = y
      BY <1>1, <1>3, <2>1, OneParent
    <3>2. QED
      BY <1>1, <1>2, <2>1, <3>1
  <2>2. CASE c # x /\ p = x
    <3>1. r[y] <= r[c]
      BY <1>1, <1>3, <2>2 DEF OrderedButAbove
    <3>2. QED
      BY <1>2, <1>4, <2>2, <3>1
  <2>3. CASE c # x /\ p = y
    <3>1. r[y] <= r[c]
      BY <1>3, <2>3 DEF OrderedButAbove
    <3>2. QED
      BY <1>1, <1>2, <1>4, <2>3, <3>1
  <2>4. CASE c # x /\ p # x /\ p # y
    BY <1>2, <1>3, <1>4, <2>4 DEF OrderedButAbove
  <2>5. QED
    BY <2>1, <2>2, <2>3, <2>4
<1>5. ASSUME p = y, NEW q \in 0..m - 1, Edge(q, y)
      PROVE  s[q] <= s[c]
  <2>1. q < y /\ c # y
    BY <1>1, <1>3, <1>5, OneParent
  <2>2. s[q] = r[q] /\ r[q] <= r[y]
    BY <1>1, <1>2, <1>5, <2>1 DEF OrderedButAbove
  <2>3. CASE c = x
    BY <1>1, <1>2, <2>2, <2>3
  <2>4. CASE c # x
    <3>1. r[y] <= r[c] /\ s[c] = r[c]
      BY <1>2, <1>3, <1>5, <2>1, <2>4 DEF OrderedButAbove
    <3>2. QED
      BY <1>1, <2>2, <3>1
  <2>5. QED
    BY <2>3, <2>4
<1>6. QED
  BY <1>4, <1>5

(* It ends at the root or below a number that is not greater.              *)
LEMMA UpDone ==
  ASSUME NEW m \in Nat, NEW r \in [0..m - 1 -> Int], NEW x \in 0..m - 1,
         OrderedButAbove(r, x, m), x = 0 \/ r[Parent(x)] <= r[x]
  PROVE  Ordered(r, m)
<1>1. SUFFICES ASSUME NEW p \in 0..m - 1, NEW c \in 0..m - 1, Edge(p, c)
               PROVE  r[p] <= r[c]
  BY DEF Ordered
<1>2. CASE c # x
  BY <1>1, <1>2 DEF OrderedButAbove
<1>3. CASE c = x
  <2>1. x # 0 /\ p = Parent(x)
    <3>1. p < x
      BY <1>1, <1>3, OneParent
    <3>2. Parent(x) \in Nat /\ Edge(Parent(x), x)
      BY <3>1, ParentIsAbove
    <3>3. QED
      BY <1>1, <1>3, <3>1, <3>2, OneParent
  <2>2. QED
    BY <1>3, <2>1
<1>4. QED
  BY <1>2, <1>3

(* A turn of the loops that move a number down, to y, the lesser of the    *)
(* cells below x.                                                          *)
LEMMA DownStep ==
  ASSUME NEW l \in Nat, NEW m \in 0..l, NEW r \in [0..l - 1 -> Int],
         NEW x \in 0..m - 1, NEW y \in 0..m - 1,
         OrderedButBelow(r, x, m), Edge(x, y), r[x] > r[y],
         \A c \in 0..m - 1 : Edge(x, c) => r[y] <= r[c]
  PROVE  OrderedButBelow(Swap(r, x, y), y, m)
<1> DEFINE s == Swap(r, x, y)
<1>1. \A c \in 0..l - 1 : s[c] = IF c = x THEN r[y] ELSE IF c = y THEN r[x] ELSE r[c]
  BY DEF Swap, Edge
<1>2. x < y
  BY DEF Edge
<1>3. SUFFICES ASSUME NEW p \in 0..m - 1, NEW c \in 0..m - 1, Edge(p, c)
               PROVE  /\ p # y => s[p] <= s[c]
                      /\ p = y => \A q \in 0..m - 1 : Edge(q, y) => s[q] <= s[c]
  BY DEF OrderedButBelow
<1>4. ASSUME p # y
      PROVE  s[p] <= s[c]
  <2>1. CASE p = x
    <3>1. c # x /\ s[p] = r[y] /\ r[y] <= r[c]
      BY <1>1, <1>3, <2>1 DEF Edge
    <3>2. s[c] = IF c = y THEN r[x] ELSE r[c]
      BY <1>1, <3>1
    <3>3. QED
      BY <3>1, <3>2
  <2>2. CASE p # x /\ c = x
    <3>1. r[p] <= r[y]
      BY <1>3, <2>2 DEF OrderedButBelow
    <3>2. QED
      BY <1>1, <1>4, <2>2, <3>1
  <2>3. CASE p # x /\ c # x
    <3>1. c # y
      BY <1>3, <2>3 DEF Edge
    <3>2. r[p] <= r[c]
      BY <1>3, <2>3 DEF OrderedButBelow
    <3>3. QED
      BY <1>1, <1>4, <2>3, <3>1, <3>2
  <2>4. QED
    BY <2>1, <2>2, <2>3
<1>5. ASSUME p = y, NEW q \in 0..m - 1, Edge(q, y)
      PROVE  s[q] <= s[c]
  <2>1. q = x /\ c # x /\ c # y
    BY <1>2, <1>3, <1>5 DEF Edge
  <2>2. r[y] <= r[c]
    BY <1>2, <1>3, <1>5 DEF OrderedButBelow
  <2>3. QED
    BY <1>1, <2>1, <2>2
<1>6. QED
  BY <1>4, <1>5

(* They end where nothing below is less. *)
LEMMA DownDone ==
  ASSUME NEW m \in Nat, NEW r, NEW x \in Nat, OrderedButBelow(r, x, m),
         \A c \in 0..m - 1 : Edge(x, c) => r[x] <= r[c]
  PROVE  Ordered(r, m)
BY DEF Ordered, OrderedButBelow

-----------------------------------------------------------------------------
(* The numbers behind the heap, from the least to the greatest.            *)
Behind(r, m, l) ==
  /\ \A c \in m + 1..l - 1 : r[c - 1] >= r[c]
  /\ \A p \in 0..m - 1, c \in m..l - 1 : r[p] >= r[c]

LEMMA SwapBehind ==
  ASSUME NEW l \in Nat, NEW m \in 0..l, NEW r \in [0..l - 1 -> Int],
         NEW x \in 0..m - 1, NEW y \in 0..m - 1, Behind(r, m, l)
  PROVE  Behind(Swap(r, x, y), m, l)
<1> DEFINE s == Swap(r, x, y)
<1>1. \A c \in 0..l - 1 : s[c] = IF c = y THEN r[x] ELSE IF c = x THEN r[y] ELSE r[c]
  BY DEF Swap
<1>2. \A c \in m..l - 1 : s[c] = r[c]
  BY <1>1
<1>3. ASSUME NEW c \in m + 1..l - 1
      PROVE  s[c - 1] >= s[c]
  <2>1. c \in m..l - 1 /\ c - 1 \in m..l - 1
    OBVIOUS
  <2>2. QED
    BY <1>2, <2>1 DEF Behind
<1>4. ASSUME NEW p \in 0..m - 1, NEW c \in m..l - 1
      PROVE  s[p] >= s[c]
  <2>1. PICK q \in 0..m - 1 : s[p] = r[q]
    BY <1>1
  <2>2. QED
    BY <1>2, <2>1 DEF Behind
<1>5. QED
  BY <1>3, <1>4 DEF Behind

(* The first m cells hold the greatest of S, each of them once, as many as *)
(* Limit allows.                                                           *)
Contents(a, m, S) ==
  /\ \A c \in 0..m - 1 : a[c] \in S
  /\ \A c, d \in 0..m - 1 : c # d => a[c] # a[d]
  /\ \A x \in S : \/ \E c \in 0..m - 1 : a[c] = x
                  \/ m = Limit /\ \A c \in 0..m - 1 : Rank[x] <= Rank[a[c]]

LEMMA SwapContents ==
  ASSUME NEW m \in 0..Limit, NEW a \in [0..Limit - 1 -> KNodes \cup {NoK}],
         NEW S, NEW x \in 0..m - 1, NEW y \in 0..m - 1, Contents(a, m, S)
  PROVE  Contents(Swap(a, x, y), m, S)
<1> DEFINE s == Swap(a, x, y)
           at(c) == IF c = y THEN x ELSE IF c = x THEN y ELSE c
<1>1. \A c \in 0..m - 1 : at(c) \in 0..m - 1 /\ s[c] = a[at(c)] /\ s[at(c)] = a[c]
  <2>1. \A c \in 0..m - 1 : s[c] = IF c = y THEN a[x] ELSE IF c = x THEN a[y] ELSE a[c]
    BY HeapAssumption DEF Swap
  <2>2. \A c \in 0..m - 1 : at(c) \in 0..m - 1 /\ at(at(c)) = c
    OBVIOUS
  <2>3. \A c \in 0..m - 1 : s[c] = a[at(c)]
    BY <2>1
  <2> HIDE DEF s, at
  <2>4. QED
    BY <2>2, <2>3
<1>2. \A c, d \in 0..m - 1 : c # d => at(c) # at(d)
  OBVIOUS
<1> HIDE DEF s, at
<1>3. \A c \in 0..m - 1 : s[c] \in S
  BY <1>1 DEF Contents
<1>4. ASSUME NEW c \in 0..m - 1, NEW d \in 0..m - 1, c # d
      PROVE  s[c] # s[d]
  <2>1. s[c] = a[at(c)] /\ s[d] = a[at(d)] /\ at(c) \in 0..m - 1 /\ at(d) \in 0..m - 1
    BY <1>1
  <2>2. at(c) # at(d)
    BY <1>2, <1>4
  <2>3. QED
    BY <2>1, <2>2 DEF Contents
<1>5. ASSUME NEW z \in S
      PROVE  \/ \E c \in 0..m - 1 : s[c] = z
             \/ m = Limit /\ \A c \in 0..m - 1 : Rank[z] <= Rank[s[c]]
  <2>1. CASE \E c \in 0..m - 1 : a[c] = z
    <3>1. PICK c \in 0..m - 1 : a[c] = z
      BY <2>1
    <3>2. at(c) \in 0..m - 1 /\ s[at(c)] = z
      BY <1>1, <3>1
    <3>3. QED
      BY <3>2
  <2>2. CASE m = Limit /\ \A c \in 0..m - 1 : Rank[z] <= Rank[a[c]]
    <3>1. ASSUME NEW c \in 0..m - 1
          PROVE  Rank[z] <= Rank[s[c]]
      BY <1>1, <2>2
    <3>2. QED
      BY <2>2, <3>1
  <2>3. QED
    BY <2>1, <2>2 DEF Contents
<1>6. QED
  BY <1>3, <1>4, <1>5 DEF Contents, s

Ranks(a, m) == [c \in 0..m - 1 |-> Rank[a[c]]]

(* What is swapped among k_nodes is swapped among their ranks. *)
LEMMA SwapRanks ==
  ASSUME NEW m \in 0..Limit, NEW a \in [0..Limit - 1 -> KNodes \cup {NoK}],
         NEW x \in 0..m - 1, NEW y \in 0..m - 1
  PROVE  Ranks(Swap(a, x, y), m) = Swap(Ranks(a, m), x, y)
<1> DEFINE s == Swap(a, x, y)
           t == Swap(Ranks(a, m), x, y)
<1>1. \A c \in 0..m - 1 : s[c] = IF c = y THEN a[x] ELSE IF c = x THEN a[y] ELSE a[c]
  BY HeapAssumption DEF Swap
<1>2. \A c \in 0..m - 1 : t[c] = IF c = y THEN Rank[a[x]] ELSE IF c = x THEN Rank[a[y]] ELSE Rank[a[c]]
  BY DEF Swap, Ranks
<1>3. \A c \in 0..m - 1 : Rank[s[c]] = t[c]
  BY <1>1, <1>2
<1>4. t = [c \in 0..m - 1 |-> t[c]]
  BY DEF Swap, Ranks
<1>5. Ranks(s, m) = [c \in 0..m - 1 |-> Rank[s[c]]]
  BY DEF Ranks
<1> HIDE DEF s, t
<1>6. Ranks(s, m) = t
  BY <1>3, <1>4, <1>5
<1>7. QED
  BY <1>6 DEF s, t

-----------------------------------------------------------------------------
(* While a loop runs, cell i stands for k: what h will be when it is left. *)
Sifting == {"up", "full", "down"}

Cells == [c \in 0..Limit - 1 |-> IF pc \in Sifting /\ c = i THEN k ELSE h[c]]

R == Ranks(Cells, count)

HeapType ==
  /\ pc \in Sifting \cup {"walk", "order", "done"}
  /\ h \in [0..Limit - 1 -> KNodes \cup {NoK}]
  /\ count \in 0..Limit /\ n \in 0..count /\ i \in Nat
  /\ pc \in Sifting => i \in 0..count - 1
  /\ pc = "down" => i < n \/ (i = 0 /\ n = 0)
  /\ k \in KNodes \cup {NoK} /\ met \subseteq KNodes

(* Each loop keeps its part of the heap in order but for one cell.         *)
HeapOrder ==
  /\ pc = "walk" => Ordered(R, count)
  /\ pc = "up" => OrderedButAbove(R, i, count)
  /\ pc = "full" => OrderedButBelow(R, i, count)
  /\ pc = "order" => Ordered(R, n)
  /\ pc = "down" => OrderedButBelow(R, i, n)
  /\ pc \in {"order", "down", "done"} => Behind(R, n, count)
  /\ pc = "done" => n = 0

HeapInv == HeapType /\ Contents(Cells, count, met) /\ HeapOrder

LEMMA CellsType ==
  ASSUME HeapType
  PROVE  /\ Cells \in [0..Limit - 1 -> KNodes \cup {NoK}]
         /\ pc \notin Sifting => Cells = h
BY DEF HeapType, Cells

LEMMA RanksType ==
  ASSUME HeapType, Contents(Cells, count, met)
  PROVE  /\ R \in [0..count - 1 -> Int]
         /\ \A c \in 0..count - 1 : Cells[c] \in KNodes /\ R[c] = Rank[Cells[c]]
BY HeapAssumption DEF HeapType, Contents, R, Ranks

LEMMA InitHeap == Init => HeapInv
BY HeapAssumption
DEF Init, HeapInv, HeapType, HeapOrder, Contents, Ordered, Sifting, Cells, R, Ranks

-----------------------------------------------------------------------------
(* A turn of a loop moves a k_node from cell y to the one that was to be   *)
(* filled.                                                                 *)
LEMMA MoveSwaps ==
  ASSUME HeapInv, pc \in Sifting, NEW y \in 0..count - 1, y # i,
         h' = [h EXCEPT ![i] = h[y]], i' = y, UNCHANGED <<pc, count, n, k, met>>
  PROVE  /\ Cells' = Swap(Cells, i, y) /\ R' = Swap(R, i, y)
         /\ Contents(Cells, count, met)'
<1>1. /\ i \in 0..count - 1 /\ i \in 0..Limit - 1 /\ y \in 0..Limit - 1
      /\ count \in 0..Limit
  BY HeapAssumption DEF HeapInv, HeapType
<1>2. Cells \in [0..Limit - 1 -> KNodes \cup {NoK}]
  BY CellsType DEF HeapInv
<1>3. Cells' = Swap(Cells, i, y)
  <2>1. \A c \in 0..Limit - 1 :
          Cells'[c] = IF c = y THEN k ELSE IF c = i THEN h[y] ELSE h[c]
    BY <1>1 DEF Cells, HeapInv, HeapType
  <2>2. Cells[i] = k /\ Cells[y] = h[y] /\ \A c \in 0..Limit - 1 : c # i => Cells[c] = h[c]
    BY <1>1 DEF Cells
  <2>3. \A c \in 0..Limit - 1 :
          Swap(Cells, i, y)[c] = IF c = y THEN Cells[i] ELSE IF c = i THEN Cells[y] ELSE Cells[c]
    BY <1>1, <1>2 DEF Swap
  <2>4. \A c \in 0..Limit - 1 : Cells'[c] = Swap(Cells, i, y)[c]
    BY <2>1, <2>2, <2>3
  <2>5. Cells' = [c \in 0..Limit - 1 |-> Cells'[c]]
    BY DEF Cells
  <2>6. Swap(Cells, i, y) = [c \in 0..Limit - 1 |-> Swap(Cells, i, y)[c]]
    BY <1>2 DEF Swap
  <2>7. QED
    BY <2>4, <2>5, <2>6
<1>4. R' = Swap(R, i, y)
  BY <1>1, <1>2, <1>3, SwapRanks DEF R
<1>5. Contents(Cells, count, met)'
  BY <1>1, <1>2, <1>3, SwapContents DEF HeapInv
<1>6. QED
  BY <1>3, <1>4, <1>5

(* When k is put into cell i nothing changes of what the cells stand for.  *)
LEMMA FillSame ==
  ASSUME HeapInv, pc \in Sifting, NEW next, next \notin Sifting, Fill(next)
  PROVE  Cells' = Cells /\ R' = R /\ Contents(Cells, count, met)'
<1>1. i \in 0..Limit - 1
  BY HeapAssumption DEF HeapInv, HeapType
<1>2. Cells' = Cells
  BY <1>1 DEF Fill, Cells, HeapInv, HeapType
<1>3. R' = R
  BY <1>2 DEF Fill, R
<1>4. QED
  BY <1>2, <1>3 DEF Fill, HeapInv

(* The loop of k_heap_add keeps the heap in order but above i. *)
LEMMA SiftUpKeepsHeap ==
  ASSUME HeapInv, SiftUp
  PROVE  HeapInv'
<1> USE DEF HeapInv
<1>1. pc = "up" /\ pc \in Sifting /\ i \in 0..count - 1 /\ count \in Nat
  BY HeapAssumption DEF SiftUp, Sifting, HeapType
<1>2. R \in [0..count - 1 -> Int] /\ OrderedButAbove(R, i, count)
  BY <1>1, RanksType DEF HeapOrder
<1>3. i # 0 => /\ Parent(i) \in 0..count - 1 /\ Parent(i) # i
               /\ R[Parent(i)] = Rank[h[Parent(i)]] /\ R[i] = Rank[k]
               /\ R[Parent(i)] \in Int /\ R[i] \in Int
  <2>1. SUFFICES ASSUME i # 0
                 PROVE  /\ Parent(i) \in 0..count - 1 /\ Parent(i) # i
                        /\ R[Parent(i)] = Rank[h[Parent(i)]] /\ R[i] = Rank[k]
                        /\ R[Parent(i)] \in Int /\ R[i] \in Int
    OBVIOUS
  <2>2. Parent(i) \in 0..count - 1 /\ Parent(i) # i
    BY <1>1, <2>1, ParentIsAbove
  <2>3. Cells[Parent(i)] = h[Parent(i)] /\ Cells[i] = k
    BY <1>1, <2>2, HeapAssumption DEF Cells, HeapType
  <2>4. QED
    BY <1>1, <1>2, <2>2, <2>3, RanksType
<1>4. CASE i # 0 /\ Cmp(h[Parent(i)], k) > 0
  <2>1. h' = [h EXCEPT ![i] = h[Parent(i)]] /\ i' = Parent(i) /\ UNCHANGED <<pc, count, n, k, met>>
    BY <1>4 DEF SiftUp
  <2>2. R' = Swap(R, i, Parent(i)) /\ Contents(Cells, count, met)'
    BY <1>1, <1>3, <1>4, <2>1, MoveSwaps
  <2>3. R[Parent(i)] > R[i]
    BY <1>3, <1>4 DEF Cmp
  <2>4. OrderedButAbove(R', i', count')
    BY <1>1, <1>2, <1>4, <2>1, <2>2, <2>3, UpStep
  <2>5. HeapType'
    BY <1>1, <1>3, <1>4, <2>1, HeapAssumption DEF HeapType, Sifting
  <2>6. HeapOrder'
    BY <1>1, <2>1, <2>4 DEF HeapOrder
  <2>7. QED
    BY <2>2, <2>5, <2>6
<1>5. CASE ~(i # 0 /\ Cmp(h[Parent(i)], k) > 0)
  <2>1. Fill("walk")
    BY <1>5 DEF SiftUp
  <2>2. R' = R /\ Contents(Cells, count, met)'
    BY <1>1, <2>1, FillSame DEF Sifting
  <2>3. i = 0 \/ R[Parent(i)] <= R[i]
    BY <1>3, <1>5 DEF Cmp
  <2>4. Ordered(R, count)
    BY <1>1, <1>2, <2>3, UpDone
  <2>5. HeapType'
    BY <1>1, <2>1, HeapAssumption DEF Fill, HeapType, Sifting
  <2>6. HeapOrder'
    BY <2>1, <2>2, <2>4 DEF Fill, HeapOrder
  <2>7. QED
    BY <2>2, <2>5, <2>6
<1>6. QED
  BY <1>4, <1>5

(* The lesser of the children of a cell below m. *)
LEMMA LesserChildLeast ==
  ASSUME NEW m \in Nat, NEW x \in Nat, 2 * x + 1 < m,
         \A c \in 0..m - 1 : c # x => Rank[h[c]] \in Int
  PROVE  /\ LesserChild(m, x) \in 0..m - 1 /\ LesserChild(m, x) # x
         /\ Edge(x, LesserChild(m, x))
         /\ \A c \in 0..m - 1 : Edge(x, c) => Rank[h[LesserChild(m, x)]] <= Rank[h[c]]
<1> DEFINE c1 == 2 * x + 1
           c2 == 2 * x + 2
<1>1. c1 \in 0..m - 1 /\ c1 # x /\ Edge(x, c1) /\ Rank[h[c1]] \in Int
  BY DEF Edge
<1>2. c2 < m => c2 \in 0..m - 1 /\ c2 # x /\ Edge(x, c2) /\ Rank[h[c2]] \in Int
  BY DEF Edge
<1>3. \A c \in 0..m - 1 : Edge(x, c) => c = c1 \/ (c = c2 /\ c2 < m)
  BY DEF Edge
<1>4. LesserChild(m, x) = IF c2 < m /\ Rank[h[c2]] - Rank[h[c1]] < 0 THEN c2 ELSE c1
  BY DEF LesserChild, Cmp
<1> HIDE DEF c1, c2
<1>5. CASE c2 < m /\ Rank[h[c2]] - Rank[h[c1]] < 0
  BY <1>1, <1>2, <1>3, <1>4, <1>5
<1>6. CASE ~(c2 < m /\ Rank[h[c2]] - Rank[h[c1]] < 0)
  BY <1>1, <1>2, <1>3, <1>4, <1>6
<1>7. QED
  BY <1>5, <1>6

(* A turn of a loop that moves k down among the first m cells. *)
LEMMA SiftDownTurn ==
  ASSUME HeapInv, pc \in {"full", "down"}, NEW m \in 0..count, i < m \/ m = 0,
         OrderedButBelow(R, i, m), NEW next, next \notin Sifting, SiftDown(m, next)
  PROVE  \/ /\ i \in 0..m - 1 /\ i' \in 0..m - 1 /\ UNCHANGED <<pc, count, n, k, met>>
            /\ h' \in [0..Limit - 1 -> KNodes \cup {NoK}]
            /\ R' = Swap(R, i, i') /\ Contents(Cells, count, met)'
            /\ OrderedButBelow(R', i', m)
         \/ Fill(next) /\ R' = R /\ Contents(Cells, count, met)' /\ Ordered(R, m)
<1> USE DEF HeapInv
<1> DEFINE y == LesserChild(m, i)
<1>1. /\ pc \in Sifting /\ i \in 0..count - 1 /\ count \in Nat /\ m \in Nat
      /\ R \in [0..count - 1 -> Int]
  BY HeapAssumption, RanksType DEF Sifting, HeapType
<1>2. R[i] = Rank[k] /\ \A c \in 0..m - 1 : c # i => R[c] = Rank[h[c]]
  <2>1. 0..m - 1 \subseteq 0..count - 1 /\ 0..count - 1 \subseteq 0..Limit - 1
    BY <1>1, HeapAssumption DEF HeapType
  <2>2. Cells[i] = k /\ \A c \in 0..count - 1 : c # i => Cells[c] = h[c]
    BY <1>1, <2>1 DEF Cells
  <2>3. \A c \in 0..count - 1 : R[c] = Rank[Cells[c]]
    BY RanksType
  <2>4. QED
    BY <1>1, <2>1, <2>2, <2>3
<1>3. 2 * i + 1 < m => /\ y \in 0..m - 1 /\ y # i /\ Edge(i, y)
                       /\ R[y] = Rank[h[y]]
                       /\ \A c \in 0..m - 1 : Edge(i, c) => R[y] <= R[c]
  <2>1. SUFFICES ASSUME 2 * i + 1 < m
                 PROVE  /\ y \in 0..m - 1 /\ y # i /\ Edge(i, y)
                        /\ R[y] = Rank[h[y]]
                        /\ \A c \in 0..m - 1 : Edge(i, c) => R[y] <= R[c]
    OBVIOUS
  <2>2. \A c \in 0..m - 1 : c # i => Rank[h[c]] \in Int
    BY <1>1, <1>2
  <2>3. /\ y \in 0..m - 1 /\ y # i /\ Edge(i, y)
        /\ \A c \in 0..m - 1 : Edge(i, c) => Rank[h[y]] <= Rank[h[c]]
    <3>1. i \in Nat /\ m \in Nat
      BY <1>1
    <3>2. QED
      BY <3>1, <2>1, <2>2, LesserChildLeast
  <2>4. \A c \in 0..m - 1 : Edge(i, c) => c # i
    BY <1>1, OneParent
  <2>5. QED
    BY <1>2, <2>3, <2>4
<1>4. CASE 2 * i + 1 < m /\ Cmp(k, h[y]) > 0
  <2>1. h' = [h EXCEPT ![i] = h[y]] /\ i' = y /\ UNCHANGED <<pc, count, n, k, met>>
    BY <1>4 DEF SiftDown
  <2>2. y \in 0..count - 1 /\ i \in 0..m - 1
    BY <1>1, <1>3, <1>4
  <2>3. R' = Swap(R, i, y) /\ Contents(Cells, count, met)'
    BY <1>1, <1>3, <1>4, <2>1, <2>2, MoveSwaps
  <2>4. R[i] > R[y]
    BY <1>1, <1>2, <1>3, <1>4, <2>2 DEF Cmp
  <2>5. OrderedButBelow(R', y, m)
    BY <1>1, <1>3, <1>4, <2>2, <2>3, <2>4, DownStep
  <2>6. h' \in [0..Limit - 1 -> KNodes \cup {NoK}]
    BY <2>1, <2>2, HeapAssumption DEF HeapType
  <2>7. QED
    BY <1>3, <1>4, <2>1, <2>2, <2>3, <2>5, <2>6
<1>5. CASE ~(2 * i + 1 < m /\ Cmp(k, h[y]) > 0)
  <2>1. Fill(next)
    BY <1>5 DEF SiftDown
  <2>2. R' = R /\ Contents(Cells, count, met)'
    BY <1>1, <2>1, FillSame
  <2>3. \A c \in 0..m - 1 : Edge(i, c) => R[i] <= R[c]
    <3>1. CASE 2 * i + 1 < m
      <4>1. R[y] \in Int /\ R[i] \in Int /\ R[i] <= R[y]
        BY <1>1, <1>2, <1>3, <1>5, <3>1 DEF Cmp
      <4>2. QED
        BY <1>1, <1>3, <3>1, <4>1
    <3>2. CASE ~(2 * i + 1 < m)
      BY <1>1, <3>2 DEF Edge
    <3>3. QED
      BY <3>1, <3>2
  <2>4. Ordered(R, m)
    BY <1>1, <2>3, DownDone
  <2>5. QED
    BY <2>1, <2>2, <2>4
<1>6. QED
  BY <1>4, <1>5

(* The loop of k_heap_add_full keeps the heap in order but below i. *)
LEMMA SiftFullKeepsHeap ==
  ASSUME HeapInv, SiftFull
  PROVE  HeapInv'
<1> USE DEF HeapInv
<1>1. /\ pc = "full" /\ SiftDown(count, "walk")
      /\ i \in 0..count - 1 /\ count \in Nat /\ OrderedButBelow(R, i, count)
  BY HeapAssumption DEF SiftFull, HeapType, HeapOrder, Sifting
<1>2. \/ /\ i' \in 0..count - 1 /\ UNCHANGED <<pc, count, n, k, met>>
         /\ h' \in [0..Limit - 1 -> KNodes \cup {NoK}]
         /\ Contents(Cells, count, met)'
         /\ OrderedButBelow(R', i', count)
      \/ Fill("walk") /\ R' = R /\ Contents(Cells, count, met)' /\ Ordered(R, count)
  BY <1>1, SiftDownTurn DEF Sifting
<1>3. CASE /\ i' \in 0..count - 1 /\ UNCHANGED <<pc, count, n, k, met>>
           /\ h' \in [0..Limit - 1 -> KNodes \cup {NoK}]
           /\ Contents(Cells, count, met)'
           /\ OrderedButBelow(R', i', count)
  <2>1. HeapType'
    BY <1>1, <1>3, HeapAssumption DEF HeapType, Sifting
  <2>2. HeapOrder'
    BY <1>1, <1>3 DEF HeapOrder
  <2>3. QED
    BY <1>3, <2>1, <2>2
<1>4. CASE Fill("walk") /\ R' = R /\ Contents(Cells, count, met)' /\ Ordered(R, count)
  <2>1. HeapType'
    BY <1>1, <1>4, HeapAssumption DEF Fill, HeapType, Sifting
  <2>2. HeapOrder'
    BY <1>4 DEF Fill, HeapOrder
  <2>3. QED
    BY <1>4, <2>1, <2>2
<1>5. QED
  BY <1>2, <1>3, <1>4

(* The loop in k_heap_order does so among the first n cells, and leaves    *)
(* those behind them alone.                                                *)
LEMMA OrderDownKeepsHeap ==
  ASSUME HeapInv, OrderDown
  PROVE  HeapInv'
<1> USE DEF HeapInv
<1>1. /\ pc = "down" /\ SiftDown(n, "order")
      /\ n \in 0..count /\ count \in Nat /\ OrderedButBelow(R, i, n)
      /\ i < n \/ n = 0
      /\ Behind(R, n, count) /\ i \in 0..count - 1
  BY HeapAssumption DEF OrderDown, HeapType, HeapOrder, Sifting
<1>2. \/ /\ i \in 0..n - 1 /\ i' \in 0..n - 1 /\ UNCHANGED <<pc, count, n, k, met>>
         /\ h' \in [0..Limit - 1 -> KNodes \cup {NoK}]
         /\ R' = Swap(R, i, i') /\ Contents(Cells, count, met)'
         /\ OrderedButBelow(R', i', n)
      \/ Fill("order") /\ R' = R /\ Contents(Cells, count, met)' /\ Ordered(R, n)
  BY <1>1, SiftDownTurn DEF Sifting
<1>3. CASE /\ i \in 0..n - 1 /\ i' \in 0..n - 1 /\ UNCHANGED <<pc, count, n, k, met>>
           /\ h' \in [0..Limit - 1 -> KNodes \cup {NoK}]
           /\ R' = Swap(R, i, i') /\ Contents(Cells, count, met)'
           /\ OrderedButBelow(R', i', n)
  <2>1. HeapType'
    BY <1>1, <1>3, HeapAssumption DEF HeapType, Sifting
  <2>2. Behind(R', n, count)
    BY <1>1, <1>3, RanksType, SwapBehind
  <2>3. HeapOrder'
    BY <1>1, <1>3, <2>2 DEF HeapOrder
  <2>4. QED
    BY <1>3, <2>1, <2>3
<1>4. CASE Fill("order") /\ R' = R /\ Contents(Cells, count, met)' /\ Ordered(R, n)
  <2>1. HeapType'
    BY <1>1, <1>4, HeapAssumption DEF Fill, HeapType, Sifting
  <2>2. HeapOrder'
    BY <1>1, <1>4 DEF Fill, HeapOrder
  <2>3. QED
    BY <1>4, <2>1, <2>2
<1>5. QED
  BY <1>2, <1>3, <1>4

(* The outer loop: the root is the least of the first n and not less than  *)
(* what is behind them, where it goes.                                     *)
LEMMA OrderNextKeepsHeap ==
  ASSUME HeapInv, OrderNext
  PROVE  HeapInv'
<1> USE DEF HeapInv
<1> DEFINE l == n - 1
<1>1. /\ pc = "order" /\ n > 0 /\ n' = l /\ k' = h[l] /\ i' = 0
      /\ h' = [h EXCEPT ![l] = h[0]] /\ pc' = "down" /\ UNCHANGED <<count, met>>
  BY DEF OrderNext
<1>2. /\ count \in Nat /\ count \in 0..Limit /\ n \in 1..count
      /\ l \in 0..count - 1 /\ 0 \in 0..count - 1
      /\ l \in 0..Limit - 1 /\ 0 \in 0..Limit - 1
  BY <1>1, HeapAssumption DEF HeapType
<1>3. Cells = h /\ h \in [0..Limit - 1 -> KNodes \cup {NoK}]
  BY <1>1, CellsType DEF Sifting, HeapType
<1>4. Cells' = Swap(Cells, l, 0)
  <2>1. \A c \in 0..Limit - 1 : Cells'[c] = IF c = 0 THEN h[l] ELSE IF c = l THEN h[0] ELSE h[c]
    BY <1>1, <1>2, <1>3 DEF Cells, Sifting
  <2>2. \A c \in 0..Limit - 1 :
          Swap(h, l, 0)[c] = IF c = 0 THEN h[l] ELSE IF c = l THEN h[0] ELSE h[c]
    BY <1>2, <1>3 DEF Swap
  <2>3. Cells' = [c \in 0..Limit - 1 |-> Cells'[c]]
    BY DEF Cells
  <2>4. Swap(h, l, 0) = [c \in 0..Limit - 1 |-> Swap(h, l, 0)[c]]
    BY <1>2, <1>3 DEF Swap
  <2>5. \A c \in 0..Limit - 1 : Cells'[c] = Swap(h, l, 0)[c]
    BY <2>1, <2>2
  <2>6. QED
    BY <1>3, <2>3, <2>4, <2>5
<1>5. Contents(Cells, count, met)' /\ R' = Swap(R, l, 0)
  <2>1. Contents(Swap(Cells, l, 0), count, met)
    BY <1>2, <1>3, SwapContents
  <2>2. Ranks(Swap(Cells, l, 0), count) = Swap(R, l, 0)
    BY <1>2, <1>3, SwapRanks DEF R
  <2>3. QED
    BY <1>1, <1>4, <2>1, <2>2 DEF R
<1>6. R \in [0..count - 1 -> Int] /\ Ordered(R, n) /\ Behind(R, n, count)
  BY <1>1, RanksType DEF HeapOrder
<1>7. \A c \in 0..count - 1 : R'[c] = IF c = 0 THEN R[l] ELSE IF c = l THEN R[0] ELSE R[c]
  BY <1>2, <1>5, <1>6 DEF Swap
<1>8. \A c \in 0..l : R[0] <= R[c]
  <2>1. n \in Nat /\ \A c \in 0..n - 1 : R[c] \in Int
    BY <1>2, <1>6
  <2>2. QED
    BY <1>6, <2>1, RootLeast
<1>9. OrderedButBelow(R', 0, l)
  <2>1. SUFFICES ASSUME NEW p \in 0..l - 1, NEW c \in 0..l - 1, Edge(p, c)
                 PROVE  /\ p # 0 => R'[p] <= R'[c]
                        /\ \A q \in 0..l - 1 : ~Edge(q, 0)
    BY DEF OrderedButBelow
  <2>2. \A q \in 0..l - 1 : ~Edge(q, 0)
    BY OneParent
  <2>3. ASSUME p # 0
        PROVE  R'[p] <= R'[c]
    <3>1. p < c
      BY <2>1, OneParent
    <3>2. R'[p] = R[p] /\ R'[c] = R[c]
      BY <1>2, <1>7, <2>1, <2>3, <3>1
    <3>3. R[p] <= R[c]
      BY <1>2, <1>6, <2>1 DEF Ordered
    <3>4. QED
      BY <3>2, <3>3
  <2>4. QED
    BY <2>2, <2>3
<1>10. Behind(R', l, count)
  <2>1. R'[l] = R[0]
    BY <1>2, <1>7
  <2>2. \A c \in n..count - 1 : R'[c] = R[c] /\ R[0] >= R[c]
    BY <1>2, <1>6, <1>7 DEF Behind
  <2>3. ASSUME NEW c \in l + 1..count - 1
        PROVE  R'[c - 1] >= R'[c]
    <3>1. CASE c = n
      BY <1>2, <2>1, <2>2, <2>3, <3>1
    <3>2. CASE c # n
      <4>1. c \in n + 1..count - 1 /\ c \in n..count - 1 /\ c - 1 \in n..count - 1
        BY <1>2, <2>3, <3>2
      <4>2. QED
        BY <1>6, <2>2, <4>1 DEF Behind
    <3>3. QED
      BY <3>1, <3>2
  <2>4. ASSUME NEW p \in 0..l - 1, NEW c \in l..count - 1
        PROVE  R'[p] >= R'[c]
    <3>1. PICK q \in 0..l : R'[p] = R[q]
      BY <1>2, <1>7, <2>4
    <3>2. CASE c = l
      BY <1>2, <1>8, <2>1, <3>1, <3>2, <1>6
    <3>3. CASE c # l
      <4>1. c \in n..count - 1 /\ q \in 0..n - 1
        BY <1>2, <2>4, <3>3
      <4>2. QED
        BY <1>6, <2>2, <3>1, <4>1 DEF Behind
    <3>4. QED
      BY <3>2, <3>3
  <2>5. QED
    BY <2>3, <2>4 DEF Behind
<1>11. HeapType'
  BY <1>1, <1>2, <1>3 DEF HeapType, Sifting
<1>12. HeapOrder'
  BY <1>1, <1>9, <1>10 DEF HeapOrder
<1>13. QED
  BY <1>5, <1>11, <1>12

(* k_heap_order is called when the walk is over, and returns when nothing  *)
(* is left in front of what it has sorted.                                 *)
LEMMA OrderKeepsHeap ==
  ASSUME HeapInv, Order \/ OrderDone
  PROVE  HeapInv'
<1> USE DEF HeapInv
<1>1. /\ pc \in {"walk", "order"} /\ pc' \in {"order", "done"}
      /\ n' \in 0..count /\ UNCHANGED <<h, count, i, k, met>>
  BY HeapAssumption DEF Order, OrderDone, HeapType
<1>2. Cells' = Cells /\ R' = R
  BY <1>1 DEF Cells, R, Sifting
<1>3. HeapType'
  BY <1>1 DEF HeapType, Sifting
<1>4. HeapOrder'
  <2>1. CASE Order
    <3>1. Behind(R, count, count)
      BY HeapAssumption DEF Behind, HeapType
    <3>2. QED
      BY <1>2, <2>1, <3>1 DEF Order, HeapOrder
  <2>2. CASE OrderDone
    BY <1>2, <2>2 DEF OrderDone, HeapOrder
  <2>3. QED
    BY <2>1, <2>2
<1>5. QED
  BY <1>1, <1>2, <1>3, <1>4

(* A k_node that is offered is kept behind the others, or takes the place  *)
(* of the least, or is less than none that it leaves out.                  *)
LEMMA OfferKeepsHeap ==
  ASSUME HeapInv, NEW x \in KNodes, Offer(x)
  PROVE  HeapInv'
<1> USE DEF HeapInv
<1>1. /\ pc = "walk" /\ x \notin met /\ met' = met \cup {x}
      /\ count \in Nat /\ count \in 0..Limit /\ Limit \in Nat
      /\ Cells = h /\ h \in [0..Limit - 1 -> KNodes \cup {NoK}] /\ met \subseteq KNodes
  BY HeapAssumption, CellsType DEF Offer, HeapType, Sifting
<1>2. /\ R \in [0..count - 1 -> Int] /\ Ordered(R, count)
      /\ \A c \in 0..count - 1 : h[c] \in KNodes /\ R[c] = Rank[h[c]]
  BY <1>1, RanksType DEF HeapOrder
<1>3. Rank[x] \in Int
  BY HeapAssumption
<1>4. \A c \in 0..count - 1 : R[0] <= R[c]
  BY <1>1, <1>2, RootLeast
<1>5. CASE Limit = 0 \/ (count = Limit /\ Cmp(x, h[0]) <= 0)
  <2>1. UNCHANGED <<pc, h, count, n, i, k>>
    BY <1>5 DEF Offer, Add
  <2>2. Cells' = Cells /\ R' = R
    BY <2>1 DEF Cells, R
  <2>3. \A c \in 0..count - 1 : Rank[x] <= Rank[h[c]]
    <3>1. SUFFICES ASSUME NEW c \in 0..count - 1
                   PROVE  Rank[x] <= Rank[h[c]]
      OBVIOUS
    <3>2. count = Limit /\ Limit # 0 /\ 0 \in 0..count - 1
      BY <1>1, <1>5, <3>1
    <3>3. Rank[x] - R[0] <= 0 /\ R[0] \in Int /\ R[c] \in Int
      BY <1>2, <1>5, <3>2 DEF Cmp
    <3>4. QED
      BY <1>2, <1>3, <1>4, <3>3
  <2>4. Contents(Cells, count, met')
    BY <1>1, <1>5, <2>3 DEF Contents
  <2>5. HeapType'
    BY <1>1, <2>1 DEF HeapType
  <2>6. HeapOrder'
    BY <2>1, <2>2 DEF HeapOrder
  <2>7. QED
    BY <2>1, <2>2, <2>4, <2>5, <2>6
<1>6. CASE Limit # 0 /\ count # Limit
  <2>1. /\ pc' = "up" /\ i' = count /\ count' = count + 1 /\ k' = x
        /\ UNCHANGED <<h, n>>
    BY <1>6 DEF Offer, Add
  <2>2. count' \in 0..Limit
    BY <1>1, <1>6, <2>1
  <2>3. /\ Cells'[count] = x
        /\ \A c \in 0..count - 1 : Cells'[c] = h[c]
    BY <1>1, <1>6, <2>1 DEF Cells, Sifting
  <2>4. \A c \in 0..count' - 1 : c = count \/ c \in 0..count - 1
    BY <1>1, <2>1
  <2>5. \A c \in 0..count : c \in 0..count' - 1
    BY <1>1, <2>1
  <2>6. Contents(Cells', count', met')
    <3>1. \A c \in 0..count' - 1 : Cells'[c] \in met'
      BY <1>1, <2>3, <2>4 DEF Contents
    <3>2. \A c, d \in 0..count' - 1 : c # d => Cells'[c] # Cells'[d]
      <4>1. \A c \in 0..count - 1 : h[c] # x
        BY <1>1 DEF Contents
      <4>2. QED
        BY <1>1, <2>3, <2>4, <4>1 DEF Contents
    <3>3. ASSUME NEW z \in met'
          PROVE  \E c \in 0..count' - 1 : Cells'[c] = z
      <4>1. CASE z = x
        BY <1>1, <2>3, <2>5, <4>1
      <4>2. CASE z \in met
        <5>1. PICK c \in 0..count - 1 : h[c] = z
          BY <1>1, <1>6, <4>2 DEF Contents
        <5>2. c \in 0..count' - 1 /\ Cells'[c] = z
          BY <1>1, <2>3, <2>5, <5>1
        <5>3. QED
          BY <5>2
      <4>3. QED
        BY <1>1, <4>1, <4>2
    <3>4. QED
      BY <3>1, <3>2, <3>3 DEF Contents
  <2>7. \A c \in 0..count - 1 : R'[c] = R[c]
    BY <1>2, <2>3, <2>5, <1>1 DEF R, Ranks
  <2>8. OrderedButAbove(R', i', count')
    <3>1. SUFFICES ASSUME NEW p \in 0..count' - 1, NEW c \in 0..count' - 1, Edge(p, c)
                   PROVE  p # count /\ (c # count => R'[p] <= R'[c])
      BY <2>1 DEF OrderedButAbove
    <3>2. p < c
      BY <3>1, OneParent
    <3>3. p # count
      BY <1>1, <2>4, <3>2
    <3>4. ASSUME c # count
          PROVE  R'[p] <= R'[c]
      BY <1>2, <2>4, <2>7, <3>1, <3>3, <3>4 DEF Ordered
    <3>5. QED
      BY <3>3, <3>4
  <2>9. HeapType'
    BY <1>1, <2>1, <2>2 DEF HeapType, Sifting
  <2>10. HeapOrder'
    BY <2>1, <2>8 DEF HeapOrder
  <2>11. QED
    BY <2>6, <2>9, <2>10
<1>7. CASE Limit # 0 /\ count = Limit /\ ~(Cmp(x, h[0]) <= 0)
  <2>1. /\ pc' = "full" /\ i' = 0 /\ count' = count /\ k' = x
        /\ UNCHANGED <<h, n>>
    BY <1>7 DEF Offer, Add
  <2>2. 0 \in 0..count - 1 /\ R[0] \in Int /\ R[0] < Rank[x]
    <3>1. 0 \in 0..count - 1
      BY <1>1, <1>7
    <3>2. R[0] = Rank[h[0]] /\ R[0] \in Int
      BY <1>2, <3>1
    <3>3. QED
      BY <1>3, <1>7, <3>1, <3>2 DEF Cmp
  <2>3. \A c \in 0..count - 1 : Cells'[c] = IF c = 0 THEN x ELSE h[c]
    BY <1>1, <1>7, <2>1 DEF Cells, Sifting
  <2>4. \A c \in 0..count - 1 : R'[c] = IF c = 0 THEN Rank[x] ELSE R[c]
    BY <1>2, <2>1, <2>3 DEF R, Ranks
  <2>5. Contents(Cells', count, met')
    <3>1. \A c \in 0..count - 1 : Cells'[c] \in met'
      BY <1>1, <2>3 DEF Contents
    <3>2. \A c, d \in 0..count - 1 : c # d => Cells'[c] # Cells'[d]
      <4>1. \A c \in 0..count - 1 : h[c] # x
        BY <1>1 DEF Contents
      <4>2. QED
        BY <1>1, <2>3, <4>1 DEF Contents
    <3>3. ASSUME NEW z \in met'
          PROVE  \/ \E c \in 0..count - 1 : Cells'[c] = z
                 \/ \A c \in 0..count - 1 : Rank[z] <= Rank[Cells'[c]]
      <4>1. CASE z = x
        BY <2>2, <2>3, <4>1
      <4>2. CASE z = h[0]
        BY <1>2, <1>3, <1>4, <2>2, <2>3, <4>2
      <4>3. CASE z \in met /\ z # h[0] /\ \E c \in 0..count - 1 : h[c] = z
        BY <2>3, <4>3
      <4>4. CASE z \in met /\ \A c \in 0..count - 1 : Rank[z] <= Rank[h[c]]
        <5>1. Rank[z] \in Int /\ Rank[z] <= R[0]
          BY <1>1, <1>2, <2>2, <4>4, HeapAssumption
        <5>2. Rank[z] <= Rank[x]
          BY <1>3, <2>2, <5>1
        <5>3. QED
          BY <2>3, <4>4, <5>2
      <4>5. QED
        BY <1>1, <4>1, <4>2, <4>3, <4>4 DEF Contents
    <3>4. QED
      BY <1>7, <3>1, <3>2, <3>3 DEF Contents
  <2>6. OrderedButBelow(R', 0, count)
    <3>1. SUFFICES ASSUME NEW p \in 0..count - 1, NEW c \in 0..count - 1, Edge(p, c)
                   PROVE  /\ p # 0 => R'[p] <= R'[c]
                          /\ \A q \in 0..count - 1 : ~Edge(q, 0)
      BY DEF OrderedButBelow
    <3>2. \A q \in 0..count - 1 : ~Edge(q, 0)
      BY OneParent
    <3>3. p < c
      BY <3>1, OneParent
    <3>4. p # 0 => R'[p] <= R'[c]
      BY <1>2, <2>4, <3>1, <3>3 DEF Ordered
    <3>5. QED
      BY <3>2, <3>4
  <2>7. HeapType'
    BY <1>1, <2>1, <2>2 DEF HeapType, Sifting
  <2>8. HeapOrder'
    BY <2>1, <2>6 DEF HeapOrder
  <2>9. QED
    BY <2>1, <2>5, <2>7, <2>8
<1>8. QED
  BY <1>5, <1>6, <1>7

LEMMA NextHeap == HeapInv /\ [Next]_vars => HeapInv'
<1>1. SUFFICES ASSUME HeapInv, [Next]_vars
               PROVE  HeapInv'
  OBVIOUS
<1>2. CASE UNCHANGED vars
  BY <1>1, <1>2 DEF vars, HeapInv, HeapType, HeapOrder, R, Cells
<1>3. QED
  BY <1>1, <1>2, OfferKeepsHeap, SiftUpKeepsHeap, SiftFullKeepsHeap, OrderKeepsHeap,
     OrderNextKeepsHeap, OrderDownKeepsHeap
  DEF Next

(* HeapInv holds at every turn of every loop. *)
LEMMA HeapInvAlways == Spec => []HeapInv
BY InitHeap, NextHeap, PTL DEF Spec

-----------------------------------------------------------------------------
(* No cell outside of h_k is read as part of the heap or written.          *)
THEOREM TypeCorrect == Spec => []TypeOK
<1>1. HeapInv => TypeOK
  BY HeapAssumption DEF HeapInv, HeapType, TypeOK, Sifting
<1>2. QED
  BY <1>1, HeapInvAlways, PTL

(* Whenever k_heap_add has returned, and after k_heap_order, the heap has  *)
(* the greatest of the k_nodes it was offered, for any limit and with any  *)
(* number of them comparing equal.                                         *)
THEOREM AlwaysHoldsGreatest == Spec => []HoldsGreatest
<1>1. HeapInv => HoldsGreatest
  <2>1. SUFFICES ASSUME HeapInv, pc \in {"walk", "order", "done"}
                 PROVE  /\ \A c, d \in 0..count - 1 : c # d => h[c] # h[d]
                        /\ Kept \subseteq met
                        /\ count < Limit => Kept = met
                        /\ \A x \in met \ Kept, y \in Kept : Cmp(x, y) <= 0
    BY DEF HoldsGreatest
  <2>2. Contents(h, count, met) /\ count \in Nat /\ Limit \in Nat /\ met \subseteq KNodes
    BY <2>1, CellsType, HeapAssumption DEF HeapInv, HeapType, Sifting
  <2>3. Kept \subseteq met /\ (count < Limit => Kept = met)
    BY <2>2 DEF Contents, Kept
  <2>4. ASSUME NEW x \in met \ Kept, NEW y \in Kept
        PROVE  Cmp(x, y) <= 0
    <3>1. Rank[x] <= Rank[y]
      BY <2>2 DEF Contents, Kept
    <3>2. Rank[x] \in Int /\ Rank[y] \in Int
      BY <2>2, <2>3, HeapAssumption
    <3>3. QED
      BY <3>1, <3>2 DEF Cmp
  <2>5. QED
    BY <2>2, <2>3, <2>4 DEF Contents
<1>2. QED
  BY <1>1, HeapInvAlways, PTL

(* k_heap_order leaves them sorted, the greatest first. *)
THEOREM AlwaysSorted == Spec => []Sorted
<1>1. HeapInv => Sorted
  <2>1. SUFFICES ASSUME HeapInv, pc = "done", NEW c \in 1..count - 1
                 PROVE  Cmp(h[c - 1], h[c]) >= 0
    BY DEF Sorted
  <2>2. Behind(R, 0, count) /\ count \in Nat
    BY <2>1, HeapAssumption DEF HeapInv, HeapOrder, HeapType
  <2>3. R[c - 1] >= R[c]
    BY <2>1, <2>2 DEF Behind
  <2>4. \A d \in 0..count - 1 : R[d] = Rank[h[d]] /\ R[d] \in Int
    BY <2>1, CellsType, RanksType DEF HeapInv, Sifting
  <2>5. QED
    BY <2>2, <2>3, <2>4 DEF Cmp
<1>2. QED
  BY <1>1, HeapInvAlways, PTL

-----------------------------------------------------------------------------
(* Powers of two.  A function that is defined by itself is one that fits   *)
(* its definition, if there is one: parts of it as long as one likes are   *)
(* built first.                                                            *)

(* Induction for a set of numbers: there is no least one outside of it.    *)
LEMMA EveryNumber ==
  ASSUME NEW S, 0 \in S, \A m \in Nat : m \in S => m + 1 \in S
  PROVE  Nat \subseteq S
<1> DEFINE Outside == Nat \ S
<1>1. SUFFICES ASSUME Outside # {}
               PROVE  FALSE
  OBVIOUS
<1>2. PICK m \in Outside : \A l \in Outside : ~(<<l, m>> \in OpToRel(<, Nat))
  BY <1>1, NatLessThanWellFounded, WFMin
<1>3. m \in Nat /\ m - 1 \in Nat /\ m - 1 < m
  OBVIOUS
<1>4. <<m - 1, m>> \in OpToRel(<, Nat)
  BY <1>3 DEF OpToRel
<1>5. m - 1 \in S
  BY <1>2, <1>3, <1>4
<1>6. m - 1 + 1 \in S
  BY <1>3, <1>5
<1>7. QED
  BY <1>3, <1>6

PowersTo(f, l) == f = [m \in 0..l |-> IF m = 0 THEN 1 ELSE 2 * f[m - 1]]

LEMMA PowersExist == \A l \in Nat : \E f : PowersTo(f, l)
<1> DEFINE S == {l \in Nat : \E f : PowersTo(f, l)}
<1>1. 0 \in S
  <2>1. PowersTo([m \in 0..0 |-> 1], 0)
    BY DEF PowersTo
  <2>2. QED
    BY <2>1
<1>2. ASSUME NEW l \in Nat, l \in S
      PROVE  l + 1 \in S
  <2>1. PICK f : PowersTo(f, l)
    BY <1>2
  <2> DEFINE g == [m \in 0..l + 1 |-> IF m = l + 1 THEN 2 * f[l] ELSE f[m]]
  <2>2. \A m \in 0..l : f[m] = IF m = 0 THEN 1 ELSE 2 * f[m - 1]
    BY <2>1 DEF PowersTo
  <2>3. \A m \in 0..l + 1 : g[m] = IF m = 0 THEN 1 ELSE 2 * g[m - 1]
    <3>1. SUFFICES ASSUME NEW m \in 0..l + 1
                   PROVE  g[m] = IF m = 0 THEN 1 ELSE 2 * g[m - 1]
      OBVIOUS
    <3>2. CASE m = l + 1
      BY <3>2
    <3>3. CASE m # l + 1
      <4>1. m \in 0..l /\ g[m] = f[m] /\ (m # 0 => g[m - 1] = f[m - 1])
        BY <3>3
      <4>2. QED
        BY <2>2, <4>1
    <3>4. QED
      BY <3>2, <3>3
  <2>4. PowersTo(g, l + 1)
    BY <2>3 DEF PowersTo
  <2>5. QED
    BY <2>4
<1>3. QED
  BY <1>1, <1>2, EveryNumber

(* Two of them agree as far as both go.                                    *)
LEMMA PowersAgree ==
  ASSUME NEW f, NEW g, NEW l \in Nat, PowersTo(f, l), PowersTo(g, l + 1)
  PROVE  \A m \in 0..l : f[m] = g[m]
<1> DEFINE S == {m \in Nat : m <= l => f[m] = g[m]}
<1>1. \A m \in 0..l : /\ f[m] = IF m = 0 THEN 1 ELSE 2 * f[m - 1]
                      /\ g[m] = IF m = 0 THEN 1 ELSE 2 * g[m - 1]
  <2>1. \A m \in 0..l : f[m] = IF m = 0 THEN 1 ELSE 2 * f[m - 1]
    BY DEF PowersTo
  <2>2. \A m \in 0..l + 1 : g[m] = IF m = 0 THEN 1 ELSE 2 * g[m - 1]
    BY DEF PowersTo
  <2>3. QED
    BY <2>1, <2>2
<1>2. 0 \in S
  BY <1>1
<1>3. ASSUME NEW m \in Nat, m \in S
      PROVE  m + 1 \in S
  <2>1. SUFFICES ASSUME m + 1 <= l
                 PROVE  f[m + 1] = g[m + 1]
    OBVIOUS
  <2>2. f[m] = g[m] /\ m + 1 \in 0..l /\ m + 1 # 0 /\ m + 1 - 1 = m
    BY <1>3, <2>1
  <2>3. QED
    BY <1>1, <2>2
<1>4. Nat \subseteq S
  BY <1>2, <1>3, EveryNumber
<1>5. QED
  BY <1>4

IsPow2(f) == f = [m \in Nat |-> IF m = 0 THEN 1 ELSE 2 * f[m - 1]]

LEMMA Pow2Exists == IsPow2(Pow2)
<1> DEFINE Part(l) == CHOOSE f : PowersTo(f, l)
           g == [m \in Nat |-> Part(m)[m]]
<1>1. \A l \in Nat : PowersTo(Part(l), l)
  BY PowersExist
<1> HIDE DEF Part
<1>2. \A m \in Nat : g[m] = IF m = 0 THEN 1 ELSE 2 * g[m - 1]
  <2>1. SUFFICES ASSUME NEW m \in Nat
                 PROVE  Part(m)[m] = IF m = 0 THEN 1 ELSE 2 * Part(m - 1)[m - 1]
    OBVIOUS
  <2>2. PowersTo(Part(m), m)
    BY <1>1
  <2>3. Part(m)[m] = IF m = 0 THEN 1 ELSE 2 * Part(m)[m - 1]
    BY <2>2 DEF PowersTo
  <2>4. ASSUME m # 0
        PROVE  Part(m)[m - 1] = Part(m - 1)[m - 1]
    <3> DEFINE l == m - 1
    <3>1. l \in Nat /\ l + 1 = m
      BY <2>4
    <3>2. PowersTo(Part(l), l) /\ PowersTo(Part(m), l + 1)
      BY <1>1, <2>2, <3>1
    <3> HIDE DEF l
    <3>3. \A q \in 0..l : Part(l)[q] = Part(m)[q]
      BY <3>1, <3>2, PowersAgree
    <3>4. Part(l)[l] = Part(m)[l]
      BY <3>1, <3>3
    <3>5. QED
      BY <3>4 DEF l
  <2>5. QED
    BY <2>3, <2>4
<1>3. IsPow2(g)
  BY <1>2 DEF IsPow2
<1>4. Pow2 = CHOOSE f : IsPow2(f)
  BY DEF Pow2, IsPow2
<1> HIDE DEF g
<1>5. QED
  BY <1>3, <1>4

LEMMA Pow2Type ==
  ASSUME NEW m \in Nat
  PROVE  Pow2[0] = 1 /\ Pow2[m + 1] = 2 * Pow2[m] /\ Pow2[m] \in Nat \ {0}
<1> DEFINE S == {l \in Nat : Pow2[l] \in Nat \ {0}}
<1>1. \A l \in Nat : Pow2[l] = IF l = 0 THEN 1 ELSE 2 * Pow2[l - 1]
  BY Pow2Exists DEF IsPow2
<1>2. Pow2[0] = 1
  BY <1>1
<1>3. \A l \in Nat : Pow2[l + 1] = 2 * Pow2[l]
  <2>1. SUFFICES ASSUME NEW l \in Nat
                 PROVE  Pow2[l + 1] = 2 * Pow2[l]
    OBVIOUS
  <2>2. l + 1 \in Nat /\ l + 1 # 0 /\ l + 1 - 1 = l
    OBVIOUS
  <2>3. QED
    BY <1>1, <2>2
<1>4. Nat \subseteq S
  <2>1. 0 \in S
    BY <1>2
  <2>2. \A l \in Nat : l \in S => l + 1 \in S
    BY <1>3
  <2>3. QED
    BY <2>1, <2>2, EveryNumber
<1>5. QED
  BY <1>2, <1>3, <1>4

-----------------------------------------------------------------------------
(* Arithmetic of ticks.                                                    *)

LEMMA Division ==
  ASSUME NEW x \in Nat
  PROVE  /\ x \div Tick \in Nat /\ (x % Tick) \in 0..Tick - 1
         /\ x = Tick * (x \div Tick) + (x % Tick)
BY TimeAssumption

(* With q whole ticks and r more, that is what division finds.             *)
LEMMA Quotient ==
  ASSUME NEW q \in Nat, NEW r \in 0..Tick - 1, NEW x \in Nat, x = Tick * q + r
  PROVE  x \div Tick = q /\ (x % Tick) = r
BY TimeAssumption

(* Time goes on by a whole number of ticks.                                *)
LEMMA SamePhase ==
  ASSUME NEW x \in Nat, NEW q \in Nat, NEW y \in Nat, y = x + q * Tick
  PROVE  (y % Tick) = (x % Tick)
<1> DEFINE a == x \div Tick
           r == x % Tick
<1>1. a \in Nat /\ r \in 0..Tick - 1 /\ x = Tick * a + r
  BY Division
<1> HIDE DEF a, r
<1>2. a + q \in Nat /\ y = Tick * (a + q) + r
  BY <1>1, TimeAssumption
<1>3. (y % Tick) = r
  BY <1>1, <1>2, Quotient
<1>4. QED
  BY <1>3 DEF r

(* In one unit of time a tick ends if time is then in the phase of ticks,  *)
(* and only then.                                                          *)
LEMMA OneTick ==
  ASSUME NEW u \in Nat, NEW s \in Nat, s <= u
  PROVE  (u + 1 - s) \div Tick =
           IF ((u + 1) % Tick) = (s % Tick) THEN (u - s) \div Tick + 1
           ELSE (u - s) \div Tick
<1> DEFINE m == (u - s) \div Tick
           r == (u - s) % Tick
           a == s \div Tick
           b == s % Tick
<1>1. /\ m \in Nat /\ r \in 0..Tick - 1 /\ u - s = Tick * m + r
      /\ a \in Nat /\ b \in 0..Tick - 1 /\ s = Tick * a + b
  <2>1. u - s \in Nat
    OBVIOUS
  <2>2. QED
    BY <2>1, Division
<1>2. SUFFICES (u + 1 - s) \div Tick = IF ((u + 1) % Tick) = b THEN m + 1 ELSE m
  OBVIOUS
<1> HIDE DEF m, r, a, b
<1>3. u + 1 - s = Tick * m + r + 1 /\ u + 1 = Tick * (a + m) + b + r + 1
  BY <1>1, TimeAssumption
<1>4. u + 1 - s \in Nat /\ u + 1 \in Nat /\ m + 1 \in Nat /\ a + m \in Nat /\ a + m + 1 \in Nat
  BY <1>1
<1>5. CASE r = Tick - 1
  <2>1. u + 1 - s = Tick * (m + 1) + 0 /\ u + 1 = Tick * (a + m + 1) + b
    BY <1>1, <1>3, <1>5, TimeAssumption
  <2>2. 0 \in 0..Tick - 1
    BY TimeAssumption
  <2>3. (u + 1 - s) \div Tick = m + 1
    BY <1>4, <2>1, <2>2, Quotient
  <2>4. ((u + 1) % Tick) = b
    BY <1>1, <1>4, <2>1, Quotient
  <2>5. QED
    BY <2>3, <2>4
<1>6. CASE r # Tick - 1
  <2>1. r + 1 \in 0..Tick - 1 /\ u + 1 - s = Tick * m + (r + 1)
    BY <1>1, <1>3, <1>6, TimeAssumption
  <2>2. (u + 1 - s) \div Tick = m
    BY <1>1, <1>4, <2>1, Quotient
  <2>3. ((u + 1) % Tick) # b
    <3>1. CASE b + r + 1 < Tick
      <4>1. b + r + 1 \in 0..Tick - 1 /\ u + 1 = Tick * (a + m) + (b + r + 1)
        BY <1>1, <1>3, <3>1, TimeAssumption
      <4>2. ((u + 1) % Tick) = b + r + 1
        BY <1>4, <4>1, Quotient
      <4>3. QED
        BY <1>1, <4>2
    <3>2. CASE ~(b + r + 1 < Tick)
      <4>1. /\ b + r + 1 - Tick \in 0..Tick - 1
            /\ u + 1 = Tick * (a + m + 1) + (b + r + 1 - Tick)
        BY <1>1, <1>3, <3>2, TimeAssumption
      <4>2. ((u + 1) % Tick) = b + r + 1 - Tick
        BY <1>4, <4>1, Quotient
      <4>3. QED
        BY <1>1, <1>6, <4>2, TimeAssumption
    <3>3. QED
      BY <3>1, <3>2
  <2>4. QED
    BY <2>2, <2>3
<1>7. QED
  BY <1>5, <1>6

(* Rounding is toward zero. *)
LEMMA DivIs ==
  ASSUME NEW x \in Int, NEW d \in Nat \ {0}
  PROVE  /\ Div(x, d) \in Int /\ Div(0, d) = 0
         /\ x >= 0 => 0 <= Div(x, d) /\ Div(x, d) <= x
         /\ x <= 0 => x <= Div(x, d) /\ Div(x, d) <= 0
<1>1. \A y \in Nat : y \div d \in Nat /\ y \div d <= y
  OBVIOUS
<1>2. 0 \div d = 0 /\ Div(0, d) = 0
  BY DEF Div
<1>3. CASE x >= 0
  <2>1. Div(x, d) = x \div d /\ x \in Nat
    BY <1>3 DEF Div
  <2>2. QED
    BY <1>1, <1>2, <1>3, <2>1
<1>4. CASE ~(x >= 0)
  <2>1. -x \in Nat /\ Div(x, d) = -((-x) \div d)
    BY <1>4 DEF Div
  <2> DEFINE q == (-x) \div d
  <2>2. q \in Nat /\ q <= -x
    BY <1>1, <2>1
  <2> HIDE DEF q
  <2>3. Div(x, d) = -q
    BY <2>1 DEF q
  <2>4. QED
    BY <1>2, <1>4, <2>2, <2>3
<1>5. QED
  BY <1>3, <1>4

LEMMA TimesTick ==
  /\ \A a \in Int : a * Tick \in Int
  /\ \A a, b \in Int : (a + b) * Tick = a * Tick + b * Tick
  /\ \A a, b \in Int : a <= b => a * Tick <= b * Tick
  /\ \A a \in Int : (a >= 0 => a * Tick >= 0) /\ (a <= 0 => a * Tick <= 0)
  /\ \A a \in Int : a < 0 => a * Tick < 0
BY TimeAssumption

(* What a tick brings per unit of time, put into one tick. *)
LEMMA DivTick ==
  ASSUME NEW p \in Int
  PROVE  /\ Div(p, Tick) \in Int
         /\ p >= 0 => 0 <= Div(p, Tick) * Tick /\ Div(p, Tick) * Tick <= p
         /\ p <= 0 => p <= Div(p, Tick) * Tick /\ Div(p, Tick) * Tick <= 0
<1>1. Div(p, Tick) \in Int /\ Div(0, Tick) = 0 /\ 0 * Tick = 0
  BY DivIs, TimeAssumption
<1>2. CASE p >= 0
  <2> DEFINE q == p \div Tick
  <2>1. q \in Nat /\ p = Tick * q + (p % Tick) /\ (p % Tick) \in 0..Tick - 1
    BY <1>2, Division
  <2>2. q * Tick = Tick * q /\ 0 <= q * Tick /\ q * Tick <= p
    BY <2>1, TimeAssumption
  <2> HIDE DEF q
  <2>3. Div(p, Tick) = q
    BY <1>2 DEF Div, q
  <2>4. QED
    BY <1>1, <1>2, <2>1, <2>2, <2>3
<1>3. CASE ~(p >= 0)
  <2> DEFINE v == -p
             q == v \div Tick
  <2>1. v \in Nat
    BY <1>3
  <2>2. q \in Nat /\ v = Tick * q + (v % Tick) /\ (v % Tick) \in 0..Tick - 1
    BY <2>1, Division
  <2>3. (-q) * Tick = -(Tick * q) /\ Tick * q \in Nat /\ Tick * q <= v
    BY <2>2, TimeAssumption
  <2>4. Div(p, Tick) = -q
    BY <1>3 DEF Div
  <2>5. v = -p
    OBVIOUS
  <2> HIDE DEF v, q
  <2>6. QED
    BY <1>1, <1>3, <2>1, <2>2, <2>3, <2>4, <2>5
<1>4. QED
  BY <1>2, <1>3

LEMMA HalfNegative ==
  ASSUME NEW b \in Nat
  PROVE  Div(-b, 2) = -(b \div 2)
<1>1. -b \in Int /\ -(-b) = b
  OBVIOUS
<1>2. CASE ~(-b >= 0)
  BY <1>1, <1>2 DEF Div
<1>3. CASE -b >= 0
  <2> DEFINE v == -b
             r == b \div 2
             w == -r
  <2>1. v \in Int /\ v + b = 0 /\ r \in Nat /\ w \in Int /\ w + r = 0 /\ r <= b /\ b = 0
    BY <1>3
  <2> HIDE DEF v, r, w
  <2>2. v = 0 /\ w = 0
    BY <2>1
  <2>3. v \div 2 = 0
    BY <2>2
  <2>4. Div(v, 2) = w
    BY <2>2, <2>3 DEF Div
  <2>5. QED
    BY <2>4 DEF v, w, r
<1>4. QED
  BY <1>2, <1>3

(* A rate that nothing is mixed into is halved by every further tick.      *)
LEMMA DecayType ==
  ASSUME NEW x \in Int, NEW m \in Nat \ {0}
  PROVE  /\ Decay(x, m) \in Int
         /\ x >= 0 => 0 <= Decay(x, m) /\ Decay(x, m) <= x
         /\ x <= 0 => x <= Decay(x, m) /\ Decay(x, m) <= 0
         /\ Decay(x, 1) = x
         /\ Decay(x, m + 1) = Div(Decay(x, m), 2)
<1> DEFINE p == Pow2[m - 1]
<1>1. p \in Nat \ {0} /\ Pow2[m - 1 + 1] = 2 * p /\ Pow2[0] = 1
  <2>1. m - 1 \in Nat
    OBVIOUS
  <2>2. QED
    BY <2>1, Pow2Type
<1>2. Decay(x, m) = Div(x, p) /\ Decay(x, m + 1) = Div(x, 2 * p) /\ Decay(x, 1) = Div(x, 1)
  <2>1. m - 1 + 1 = m /\ m + 1 - 1 = m /\ 1 - 1 = 0
    OBVIOUS
  <2>2. QED
    BY <1>1, <2>1 DEF Decay
<1> HIDE DEF p
<1>3. Div(x, 1) = x
  BY DEF Div
<1>4. \A y \in Nat : y \div p \in Nat /\ y \div (2 * p) = (y \div p) \div 2
  BY <1>1
<1>5. Div(x, 2 * p) = Div(Div(x, p), 2)
  <2>1. CASE x >= 0
    <3>1. x \in Nat
      BY <2>1
    <3>2. Div(x, p) = x \div p /\ Div(x, 2 * p) = x \div (2 * p) /\ x \div p >= 0
      BY <1>4, <2>1, <3>1 DEF Div
    <3>3. Div(x \div p, 2) = (x \div p) \div 2
      BY <3>2 DEF Div
    <3>4. QED
      BY <1>4, <3>1, <3>2, <3>3
  <2>2. CASE ~(x >= 0)
    <3> DEFINE v == -x
               q == v \div p
    <3>1. v \in Nat /\ Div(x, p) = -q /\ Div(x, 2 * p) = -(v \div (2 * p))
      BY <2>2 DEF Div
    <3>2. q \in Nat /\ v \div (2 * p) = q \div 2
      BY <1>4, <3>1
    <3> HIDE DEF v, q
    <3>3. Div(-q, 2) = -(q \div 2)
      BY <3>2, HalfNegative
    <3>4. QED
      BY <3>1, <3>2, <3>3
  <2>3. QED
    BY <2>1, <2>2
<1>6. QED
  BY <1>1, <1>2, <1>3, <1>5, DivIs

(* Of a and b, alone and together, no more than g. *)
Within(a, b, g) == 0 <= g /\ a <= g /\ b <= g /\ a + b <= g

(* An average is not more than its parts, of either sign.                  *)
LEMMA MixIsAverage ==
  ASSUME NEW x \in Int, NEW p \in Int, NEW g \in Int, NEW l \in Int,
         Within(x * Tick, p, g), Within(-(x * Tick), -p, l)
  PROVE  LET y == Mix(x, Div(p, Tick))
         IN  y \in Int /\ y * Tick <= g /\ -(y * Tick) <= l
<1> DEFINE q == Div(p, Tick)
           y == Mix(x, q)
           X == x * Tick
           Q == q * Tick
           Y == y * Tick
<1>1. /\ q \in Int
      /\ p >= 0 => 0 <= Q /\ Q <= p
      /\ p <= 0 => p <= Q /\ Q <= 0
  BY DivTick
<1>2. X \in Int /\ Q \in Int /\ Within(X, p, g) /\ Within(-X, -p, l)
  BY <1>1, TimesTick
<1> SUFFICES y \in Int /\ Y <= g /\ -Y <= l
  OBVIOUS
<1>3. CASE x <= 0
  <2>1. y = q
    BY <1>3 DEF Mix
  <2>2. y \in Int /\ Y = Q
    BY <1>1, <2>1
  <2> HIDE DEF q, y, X, Q, Y
  <2>3. QED
    BY <1>1, <1>2, <2>2 DEF Within
<1>4. CASE ~(x <= 0)
  <2> DEFINE z == x + q
  <2>1. z \in Int /\ y = Div(z, 2)
    BY <1>1, <1>4 DEF Mix
  <2>2. z * Tick = X + Q /\ 0 <= X
    <3>1. 0 * Tick <= x * Tick /\ 0 * Tick = 0
      BY <1>4, TimesTick, TimeAssumption
    <3>2. QED
      BY <1>1, <3>1, TimesTick
  <2>3. z = x + q
    OBVIOUS
  <2> HIDE DEF q, z
  <2>4. /\ y \in Int
        /\ z >= 0 => 0 <= y /\ y <= z
        /\ z <= 0 => z <= y /\ y <= 0
    BY <2>1, DivIs
  <2> HIDE DEF y
  <2>5. /\ y >= 0 => Y >= 0
        /\ y <= 0 => Y <= 0
        /\ y <= z => Y <= z * Tick
        /\ z <= y => z * Tick <= Y
    <3>1. z \in Int /\ y \in Int
      BY <2>1, <2>4
    <3>2. QED
      BY <3>1, TimesTick, Zenon
  <2>6. Y \in Int /\ z * Tick \in Int
    BY <2>1, <2>4, TimesTick
  <2>7. z <= 0 => p <= 0
    <3>1. z <= 0 => q < 0
      BY <1>1, <1>4, <2>1, <2>3
    <3>2. q < 0 => Q < 0
      BY <1>1, TimesTick
    <3> HIDE DEF X, Q, Y
    <3>3. QED
      BY <1>1, <1>2, <3>1, <3>2
  <2> HIDE DEF X, Q, Y
  <2>8. CASE z >= 0
    <3>1. 0 <= Y /\ Y <= X + Q
      BY <2>1, <2>2, <2>4, <2>5, <2>6, <2>8
    <3>2. QED
      BY <1>1, <1>2, <2>2, <2>4, <2>6, <3>1 DEF Within
  <2>9. CASE ~(z >= 0)
    <3>1. X + Q <= Y /\ Y <= 0 /\ p <= 0
      BY <2>1, <2>2, <2>4, <2>5, <2>6, <2>7, <2>9
    <3>2. QED
      BY <1>1, <1>2, <2>2, <2>4, <2>6, <3>1 DEF Within
  <2>10. QED
    BY <2>8, <2>9
<1>5. QED
  BY <1>3, <1>4

-----------------------------------------------------------------------------
(* What k_freshen makes of a k_node y at a time u.                         *)

KType == [t: Nat, rate: Int, pending: Int, sum: Int]

(* What was averaged and what is pending, each of the reports once: no     *)
(* more than was gained, g, and no less than was lost.                     *)
Average(y, g) ==
  /\ Within(y.rate * Tick, y.pending, g)
  /\ Within(-(y.rate * Tick), -y.pending, g - y.sum)

Fresh(u, y) ==
  LET m == (u - y.t) \div Tick IN
  IF y.t <= 0 THEN [y EXCEPT !.t = u]
  ELSE IF m > 0 THEN [y EXCEPT !.t = y.t + m * Tick, !.pending = 0,
                               !.rate = Decay(Mix(y.rate, Div(y.pending, Tick)), m)]
  ELSE y

LEMMA FreshenIs == Freshen = Fresh(now, knode)
BY DEF Freshen, Fresh, Missed

(* It is up to date, at the end of a tick of the same phase, and still an  *)
(* average.                                                                *)
LEMMA FreshKeeps ==
  ASSUME NEW u \in Nat \ {0}, NEW y \in KType, y.t <= u,
         NEW g \in Int, Average(y, g)
  PROVE  LET f == Fresh(u, y) IN
         /\ f \in KType /\ 0 < f.t /\ f.t <= u /\ f.sum = y.sum /\ Average(f, g)
         /\ (f.t % Tick) = IF y.t <= 0 THEN u % Tick ELSE (y.t % Tick)
         /\ (u - f.t) \div Tick = 0
<1> DEFINE f == Fresh(u, y)
           m == (u - y.t) \div Tick
           r == (u - y.t) % Tick
           x == Mix(y.rate, Div(y.pending, Tick))
<1>1. y.t \in Nat /\ y.rate \in Int /\ y.pending \in Int /\ y.sum \in Int /\ Tick \in Nat \ {0}
  BY TimeAssumption DEF KType
<1>2. m \in Nat /\ r \in 0..Tick - 1 /\ u - y.t = Tick * m + r
  <2>1. u - y.t \in Nat
    BY <1>1
  <2>2. QED
    BY <2>1, Division
<1>3. x \in Int /\ x * Tick <= g /\ -(x * Tick) <= g - y.sum /\ 0 <= g /\ 0 <= g - y.sum
  <2>1. g - y.sum \in Int
    BY <1>1
  <2>2. QED
    BY <1>1, <2>1, MixIsAverage DEF Average, Within
<1>4. \A v \in 0..Tick - 1 : v \div Tick = 0
  <2>1. SUFFICES ASSUME NEW v \in 0..Tick - 1
                 PROVE  v \div Tick = 0
    OBVIOUS
  <2>2. v \in Nat /\ 0 \in Nat /\ v = Tick * 0 + v
    BY <1>1
  <2>3. QED
    BY <2>2, Quotient
<1>5. CASE y.t <= 0
  <2>1. f = [y EXCEPT !.t = u]
    BY <1>5 DEF Fresh
  <2>2. f \in KType /\ f.t = u /\ f.sum = y.sum /\ f.rate = y.rate /\ f.pending = y.pending
    BY <2>1 DEF KType
  <2> HIDE DEF f
  <2>3. u - f.t = 0 /\ 0 \in 0..Tick - 1
    BY <1>1, <2>2
  <2>4. (u - f.t) \div Tick = 0
    BY <1>4, <2>3
  <2>5. QED
    BY <1>5, <2>2, <2>4 DEF Average, f
<1>6. CASE ~(y.t <= 0) /\ m > 0
  <2> HIDE DEF x
  <2> DEFINE d == Decay(x, m)
  <2>1. /\ d \in Int
        /\ x >= 0 => 0 <= d /\ d <= x
        /\ x <= 0 => x <= d /\ d <= 0
    <3> HIDE DEF m
    <3>1. x \in Int /\ m \in Nat \ {0}
      BY <1>2, <1>3, <1>6
    <3>2. QED
      BY <3>1, DecayType
  <2>2. f = [y EXCEPT !.t = y.t + m * Tick, !.pending = 0, !.rate = d]
    BY <1>6 DEF Fresh, x
  <2> HIDE DEF f, d, m, r
  <2>3. f.t = y.t + m * Tick /\ f.rate = d /\ f.pending = 0 /\ f.sum = y.sum
    BY <2>2 DEF KType
  <2>4. m * Tick \in Nat /\ m * Tick = Tick * m
    BY <1>1, <1>2
  <2>5. f.t \in Nat /\ 0 < f.t /\ f.t <= u /\ u - f.t = r
    BY <1>1, <1>2, <1>6, <2>3, <2>4
  <2>6. f \in KType
    <3> DEFINE v == y.t + m * Tick
    <3>1. v \in Nat /\ d \in Int /\ 0 \in Int
      BY <2>1, <2>3, <2>5
    <3> HIDE DEF v
    <3>2. f = [y EXCEPT !.t = v, !.pending = 0, !.rate = d]
      BY <2>2 DEF v
    <3>3. QED
      BY <3>1, <3>2 DEF KType
  <2>7. Within(d * Tick, 0, g) /\ Within(-(d * Tick), 0, g - y.sum)
    <3> DEFINE X == x * Tick
               D == d * Tick
    <3>1. /\ X \in Int /\ D \in Int
          /\ d >= 0 => D >= 0
          /\ d <= 0 => D <= 0
          /\ d <= x => D <= X
          /\ x <= d => X <= D
      BY <1>3, <2>1, TimesTick, Zenon
    <3> HIDE DEF X, D
    <3>2. X <= g /\ -X <= g - y.sum
      BY <1>3 DEF X
    <3>3. CASE x >= 0
      <4>1. 0 <= D /\ D <= X
        BY <2>1, <3>1, <3>3
      <4>2. Within(D, 0, g) /\ Within(-D, 0, g - y.sum)
        BY <1>1, <1>3, <3>1, <3>2, <4>1 DEF Within
      <4>3. QED
        BY <4>2 DEF D
    <3>4. CASE ~(x >= 0)
      <4>1. D <= 0 /\ X <= D
        BY <1>3, <2>1, <3>1, <3>4
      <4>2. Within(D, 0, g) /\ Within(-D, 0, g - y.sum)
        BY <1>1, <1>3, <3>1, <3>2, <4>1 DEF Within
      <4>3. QED
        BY <4>2 DEF D
    <3>5. QED
      BY <3>3, <3>4
  <2>8. Average(f, g)
    <3>1. d * Tick \in Int
      BY <2>1, TimesTick
    <3>2. QED
      BY <1>1, <2>3, <2>7, <3>1 DEF Average, Within
  <2>9. (f.t % Tick) = (y.t % Tick)
    BY <1>1, <1>2, <2>3, <2>5, SamePhase
  <2>10. (u - f.t) \div Tick = 0
    BY <1>2, <1>4, <2>5
  <2>11. QED
    BY <1>6, <2>3, <2>5, <2>6, <2>8, <2>9, <2>10 DEF f
<1>7. CASE ~(y.t <= 0) /\ ~(m > 0)
  <2>1. f = y
    BY <1>7 DEF Fresh
  <2>2. m = 0
    BY <1>2, <1>7
  <2> HIDE DEF f
  <2>3. QED
    BY <1>1, <1>7, <2>1, <2>2 DEF f
<1>8. QED
  BY <1>5, <1>6, <1>7

(* One that is up to date stays as it is. *)
LEMMA FreshTwice ==
  ASSUME NEW u, NEW y, 0 < y.t, y.t \in Nat, (u - y.t) \div Tick = 0
  PROVE  Fresh(u, y) = y
BY DEF Fresh

(* A unit of time later it is mixed once more if a tick ends, and else the *)
(* same.                                                                   *)
LEMMA FreshLater ==
  ASSUME NEW u \in Nat, NEW y \in KType, 0 < y.t, y.t <= u
  PROVE  LET f == Fresh(u, y)
             g == Fresh(u + 1, y)
             looked == (u - y.t) \div Tick = 0
         IN IF ((u + 1) % Tick) = (y.t % Tick)
            THEN /\ g.rate = IF f.rate < 0 /\ ~looked THEN Div(f.rate, 2)
                             ELSE Mix(f.rate, Div(f.pending, Tick))
                 /\ g.pending = 0 /\ (u + 1 - y.t) \div Tick # 0
            ELSE /\ g.rate = f.rate /\ g.pending = f.pending
                 /\ (u + 1 - y.t) \div Tick = (u - y.t) \div Tick
<1> DEFINE f == Fresh(u, y)
           g == Fresh(u + 1, y)
           m == (u - y.t) \div Tick
           l == (u + 1 - y.t) \div Tick
           x == Mix(y.rate, Div(y.pending, Tick))
           ends == ((u + 1) % Tick) = (y.t % Tick)
<1>1. y.t \in Nat /\ y.rate \in Int /\ y.pending \in Int
  BY DEF KType
<1>2. m \in Nat
  <2>1. u - y.t \in Nat
    BY <1>1
  <2>2. QED
    BY <2>1, Division
<1>3. l = IF ends THEN m + 1 ELSE m
  BY <1>1, OneTick
<1>4. x \in Int
  <2>1. Div(y.pending, Tick) \in Int
    BY <1>1, DivTick
  <2> DEFINE q == Div(y.pending, Tick)
  <2> HIDE DEF q
  <2>2. \A z \in Int : Div(z, 2) \in Int
    BY DivIs
  <2>3. Mix(y.rate, q) \in Int
    BY <1>1, <2>1, <2>2 DEF Mix, q
  <2>4. QED
    BY <2>3 DEF q
<1>5. /\ f.rate = IF m > 0 THEN Decay(x, m) ELSE y.rate
      /\ f.pending = IF m > 0 THEN 0 ELSE y.pending
  BY <1>1 DEF Fresh
<1>6. /\ g.rate = IF l > 0 THEN Decay(x, l) ELSE y.rate
      /\ g.pending = IF l > 0 THEN 0 ELSE y.pending
  BY <1>1 DEF Fresh
<1> HIDE DEF f, g, m, l, x, ends
<1> DEFINE Goal ==
  IF ends
  THEN /\ g.rate = IF f.rate < 0 /\ ~(m = 0) THEN Div(f.rate, 2)
                   ELSE Mix(f.rate, Div(f.pending, Tick))
       /\ g.pending = 0 /\ l # 0
  ELSE g.rate = f.rate /\ g.pending = f.pending /\ l = m
<1> SUFFICES Goal
  BY DEF f, g, m, l, ends
<1>7. CASE ~ends
  <2>1. l = m
    BY <1>3, <1>7
  <2>2. QED
    BY <1>5, <1>6, <1>7, <2>1
<1>8. CASE ends /\ m = 0
  <2>1. l = 1 /\ Decay(x, 1) = x
    BY <1>3, <1>4, <1>8, DecayType
  <2>2. g.rate = x /\ g.pending = 0 /\ f.rate = y.rate /\ f.pending = y.pending
    BY <1>5, <1>6, <1>8, <2>1
  <2>3. g.rate = Mix(f.rate, Div(f.pending, Tick))
    BY <2>2 DEF x
  <2>4. QED
    BY <1>8, <2>1, <2>2, <2>3
<1>9. CASE ends /\ m # 0
  <2>1. l = m + 1 /\ m > 0 /\ l > 0 /\ l # 0 /\ m \in Nat \ {0}
    BY <1>2, <1>3, <1>9
  <2>2. Decay(x, m + 1) = Div(Decay(x, m), 2) /\ Decay(x, m) \in Int
    BY <1>4, <2>1, DecayType
  <2>3. g.rate = Div(f.rate, 2) /\ g.pending = 0 /\ f.rate \in Int /\ f.pending = 0
    BY <1>5, <1>6, <2>1, <2>2
  <2>4. ~(f.rate < 0) => Div(f.rate, 2) = Mix(f.rate, 0)
    <3>1. f.rate = 0 => Div(f.rate, 2) = 0
      BY DivIs, <2>3
    <3>2. f.rate + 0 = f.rate
      BY <2>3
    <3>3. QED
      BY <2>3, <3>1, <3>2 DEF Mix
  <2>5. Div(f.pending, Tick) = 0
    BY <2>3, DivIs, TimeAssumption
  <2>6. QED
    BY <1>9, <2>1, <2>3, <2>4, <2>5
<1>10. QED
  BY <1>7, <1>8, <1>9

-----------------------------------------------------------------------------

-----------------------------------------------------------------------------
(* The states of a k_node. *)

RateInv ==
  /\ now \in Nat \ {0} /\ knode \in KType /\ knode.t <= now
  /\ gained \in Nat /\ Average(knode, gained)

LEMMA InitRate == RateInit => RateInv
<1>1. SUFFICES ASSUME RateInit
               PROVE  RateInv
  OBVIOUS
<1>2. /\ knode \in KType /\ knode.t = 0 /\ knode.rate = 0 /\ knode.pending = 0 /\ knode.sum = 0
      /\ gained = 0
  BY <1>1 DEF RateInit, KType
<1>3. now \in Nat \ {0}
  BY <1>1, TimeAssumption DEF RateInit
<1>4. Average(knode, gained)
  <2>1. 0 * Tick = 0 /\ 0 \in Int
    BY TimeAssumption
  <2> DEFINE X == knode.rate * Tick
  <2>2. X = 0
    BY <1>2, <2>1
  <2> HIDE DEF X
  <2>3. Within(X, knode.pending, gained) /\ Within(-X, -knode.pending, gained - knode.sum)
    BY <1>2, <2>2 DEF Within
  <2>4. QED
    BY <2>3 DEF Average, X
<1>5. QED
  BY <1>2, <1>3, <1>4 DEF RateInv

(* Reading shows what k_freshen would leave. *)
LEMMA SeenIs ==
  ASSUME knode \in KType
  PROVE  /\ Seen.rate = Fresh(now, knode).rate
         /\ Seen.pending = Fresh(now, knode).pending
<1>1. CASE knode.t <= 0
  BY <1>1 DEF Seen, Fresh, KType
<1>2. CASE ~(knode.t <= 0)
  BY <1>2, FreshenIs DEF Seen
<1>3. QED
  BY <1>1, <1>2

LEMMA SeenNextIs ==
  ASSUME (knode \in KType)'
  PROVE  /\ Seen'.rate = Fresh(now', knode').rate
         /\ Seen'.pending = Fresh(now', knode').pending
<1>1. Freshen' = Fresh(now', knode')
  BY DEF Freshen, Fresh, Missed
<1>2. CASE knode'.t <= 0
  BY <1>2 DEF Seen, Fresh, KType
<1>3. CASE ~(knode'.t <= 0)
  BY <1>1, <1>3 DEF Seen
<1>4. QED
  BY <1>2, <1>3

(* k_freshen and e more: k_update, and a query with nothing more.          *)
Touches(e) ==
  /\ now' = now
  /\ gained' = IF e >= 0 THEN gained + e ELSE gained
  /\ \/ knode' = [Freshen EXCEPT !.pending = @ + e, !.sum = @ + e]
     \/ e = 0 /\ knode' = Freshen

LEMMA UpdateTouches ==
  ASSUME NEW e \in Amounts, Update(e)
  PROVE  e \in Int /\ Touches(e)
BY TimeAssumption DEF Update, Touches

LEMMA QueryTouches ==
  ASSUME RateInv, Query
  PROVE  Touches(0)
BY DEF RateInv, Query, Touches

LEMMA Touch ==
  ASSUME RateInv, NEW e \in Int, Touches(e)
  PROVE  /\ RateInv'
         /\ Seen'.rate = Seen.rate /\ Seen'.pending = Seen.pending + e
         /\ knode'.sum = knode.sum + e /\ 0 < knode'.t
         /\ (knode'.t % Tick) = IF knode.t <= 0 THEN now % Tick ELSE (knode.t % Tick)
         /\ (now' - knode'.t) \div Tick = 0
<1> DEFINE f == Fresh(now, knode)
<1> USE DEF Touches
<1>1. /\ f \in KType /\ 0 < f.t /\ f.t <= now /\ f.sum = knode.sum /\ Average(f, gained)
      /\ (f.t % Tick) = IF knode.t <= 0 THEN now % Tick ELSE (knode.t % Tick)
      /\ (now - f.t) \div Tick = 0
  BY FreshKeeps DEF RateInv
<1>2. Seen.rate = f.rate /\ Seen.pending = f.pending
  BY SeenIs DEF RateInv
<1>3. Freshen = f
  BY FreshenIs
<1> HIDE DEF f
<1>4. f.t \in Nat /\ f.rate \in Int /\ f.pending \in Int /\ f.sum \in Int /\ gained \in Nat
  BY <1>1 DEF KType, RateInv
<1>5. /\ knode' \in KType /\ knode'.t = f.t /\ knode'.rate = f.rate
      /\ knode'.pending = f.pending + e /\ knode'.sum = f.sum + e
  <2>1. CASE knode' = [Freshen EXCEPT !.pending = @ + e, !.sum = @ + e]
    <3>1. knode' = [f EXCEPT !.pending = f.pending + e, !.sum = f.sum + e]
      BY <1>3, <2>1
    <3>2. f.pending + e \in Int /\ f.sum + e \in Int
      BY <1>4
    <3>3. knode' \in KType
      BY <1>1, <3>1, <3>2 DEF KType
    <3>4. QED
      BY <1>1, <3>1, <3>3 DEF KType
  <2>2. CASE e = 0 /\ knode' = Freshen
    <3>1. knode' = f /\ f.pending + e = f.pending /\ f.sum + e = f.sum
      BY <1>3, <1>4, <2>2
    <3>2. QED
      BY <1>1, <3>1
  <2>3. QED
    BY <2>1, <2>2
<1>6. RateInv'
  <2> DEFINE X == f.rate * Tick
             X2 == knode'.rate * Tick
             g == gained'
             p == f.pending + e
             s == f.sum + e
  <2>1. X \in Int /\ X2 = X
    BY <1>4, <1>5, TimesTick
  <2>2. Within(X, f.pending, gained) /\ Within(-X, -f.pending, gained - f.sum)
    BY <1>1 DEF Average
  <2>3. /\ p = f.pending + e /\ s = f.sum + e
        /\ g = IF e >= 0 THEN gained + e ELSE gained
    OBVIOUS
  <2>4. knode'.pending = p /\ knode'.sum = s
    BY <1>5
  <2> HIDE DEF X, X2, g, p, s
  <2>5. g \in Nat /\ Within(X, p, g) /\ Within(-X, -p, g - s)
    BY <1>4, <2>1, <2>2, <2>3 DEF Within
  <2>6. Within(X2, knode'.pending, g) /\ Within(-X2, -knode'.pending, g - knode'.sum)
    BY <2>1, <2>4, <2>5, Zenon
  <2>7. Average(knode', gained') /\ gained' \in Nat
    BY <2>5, <2>6 DEF Average, X2, g
  <2>8. knode'.t <= now' /\ now' \in Nat \ {0}
    BY <1>1, <1>5 DEF RateInv
  <2>9. QED
    BY <1>5, <2>7, <2>8 DEF RateInv
<1>7. (now' - knode'.t) \div Tick = 0
  BY <1>1, <1>5
<1>8. Fresh(now', knode') = knode'
  <2>1. 0 < knode'.t /\ knode'.t \in Nat
    BY <1>1, <1>4, <1>5
  <2>2. QED
    BY <1>7, <2>1, FreshTwice
<1>9. Seen'.rate = knode'.rate /\ Seen'.pending = knode'.pending
  BY <1>5, <1>8, SeenNextIs
<1>10. QED
  BY <1>1, <1>2, <1>5, <1>6, <1>7, <1>9

LEMMA TimeKeepsRate ==
  ASSUME RateInv, Time
  PROVE  RateInv'
BY DEF RateInv, Time, Average, KType

LEMMA NextRate == RateInv /\ [RateNext]_rateVars => RateInv'
<1>1. SUFFICES ASSUME RateInv, [RateNext]_rateVars
               PROVE  RateInv'
  OBVIOUS
<1>2. CASE Time
  BY <1>1, <1>2, TimeKeepsRate
<1>3. ASSUME NEW e \in Amounts, Update(e)
      PROVE  RateInv'
  <2>1. e \in Int /\ Touches(e) /\ now' = now
    BY <1>3, UpdateTouches DEF Touches
  <2>2. QED
    BY <1>1, <2>1, Touch
<1>4. CASE Query
  <2>1. 0 \in Int /\ Touches(0) /\ now' = now
    BY <1>1, <1>4, QueryTouches DEF Touches
  <2>2. QED
    BY <1>1, <2>1, Touch
<1>5. CASE UNCHANGED rateVars
  BY <1>1, <1>5 DEF rateVars, RateInv, Average
<1>6. QED
  BY <1>1, <1>2, <1>3, <1>4, <1>5 DEF RateNext

LEMMA RateInvAlways == RateSpec => []RateInv
BY InitRate, NextRate, PTL DEF RateSpec

(* k_t is never in the future, what is pending and k_sum are no more than  *)
(* what was reported of either sign, and the clock and what was reported   *)
(* stay within their bounds.                                               *)
THEOREM RateTypeCorrect == RateSpec => []RateTypeOK
<1> DEFINE Bounds == now \in Start..MaxNow /\ gained <= MaxSum /\ Lost <= MaxSum
<1>1. RateInit => Bounds
  BY TimeAssumption DEF RateInit, Lost
<1>2. RateInv /\ Bounds /\ [RateNext]_rateVars => Bounds'
  <2>1. SUFFICES ASSUME RateInv, Bounds, [RateNext]_rateVars
                 PROVE  Bounds'
    OBVIOUS
  <2>2. CASE Time
    BY <2>1, <2>2, TimeAssumption DEF Time, Lost
  <2>3. ASSUME NEW e \in Amounts, Update(e)
        PROVE  Bounds'
    <3>1. /\ e \in Int /\ Touches(e) /\ now' = now
          /\ e >= 0 => gained + e <= MaxSum
          /\ ~(e >= 0) => Lost - e <= MaxSum
          /\ gained' = IF e >= 0 THEN gained + e ELSE gained
      BY <2>3, UpdateTouches DEF Update, Touches
    <3>2. knode'.sum = knode.sum + e
      BY <2>1, <3>1, Touch
    <3>3. knode.sum \in Int /\ gained \in Nat
      BY <2>1 DEF RateInv, KType
    <3>4. gained' <= MaxSum /\ Lost' <= MaxSum
      BY <2>1, <3>1, <3>2, <3>3, TimeAssumption DEF Lost
    <3>5. QED
      BY <2>1, <3>1, <3>4
  <2>4. CASE Query
    <3>1. 0 \in Int /\ Touches(0) /\ now' = now /\ gained' = gained
      BY <2>1, <2>4, QueryTouches DEF Query, Touches
    <3>2. knode'.sum = knode.sum + 0 /\ knode.sum \in Int /\ gained \in Nat
      BY <2>1, <3>1, Touch DEF RateInv, KType
    <3>3. QED
      BY <2>1, <3>1, <3>2 DEF Lost
  <2>5. CASE UNCHANGED rateVars
    BY <2>1, <2>5 DEF rateVars, Lost
  <2>6. QED
    BY <2>1, <2>2, <2>3, <2>4, <2>5 DEF RateNext
<1>3. RateInv /\ Bounds => RateTypeOK
  <2>1. SUFFICES ASSUME RateInv, Bounds
                 PROVE  RateTypeOK
    OBVIOUS
  <2>2. /\ knode \in KType /\ knode.t \in Nat /\ knode.rate \in Int
        /\ knode.pending \in Int /\ knode.sum \in Int /\ gained \in Nat
    BY <2>1 DEF RateInv, KType
  <2> DEFINE X == knode.rate * Tick
  <2>3. Within(X, knode.pending, gained) /\ Within(-X, -knode.pending, gained - knode.sum)
    BY <2>1 DEF RateInv, Average
  <2> HIDE DEF X
  <2>4. /\ knode.pending \in -Lost..gained /\ knode.sum \in -Lost..gained
        /\ gained \in 0..MaxSum /\ Lost \in 0..MaxSum
    BY <2>1, <2>2, <2>3, TimeAssumption DEF Within, Lost
  <2>5. knode.t \in 0..now
    BY <2>1, <2>2, TimeAssumption DEF RateInv
  <2>6. knode \in [t: 0..now, rate: Int, pending: -Lost..gained, sum: -Lost..gained]
    BY <2>2, <2>4, <2>5 DEF KType
  <2>7. QED
    BY <2>1, <2>4, <2>6 DEF RateTypeOK
<1>4. QED
  BY <1>1, <1>2, <1>3, RateInvAlways, PTL DEF RateSpec

(* No report counts twice in the rate, whatever the signs: for one tick it *)
(* is never more than all that was gained, nor less than all that was lost.*)
THEOREM RateAlwaysAverage == RateSpec => []RateIsAverage
<1>1. RateInv => RateIsAverage
  <2>1. SUFFICES ASSUME RateInv
                 PROVE  Seen.rate * Tick \in -Lost..gained
    BY DEF RateIsAverage
  <2> DEFINE f == Fresh(now, knode)
  <2>2. f \in KType /\ f.sum = knode.sum /\ Average(f, gained) /\ gained \in Nat
    BY <2>1, FreshKeeps DEF RateInv
  <2>3. Seen.rate = f.rate
    BY <2>1, SeenIs DEF RateInv
  <2> HIDE DEF f
  <2> DEFINE X == f.rate * Tick
  <2>4. f.rate \in Int /\ f.pending \in Int /\ f.sum \in Int /\ X \in Int
    BY <2>2, TimesTick DEF KType
  <2>5. Within(X, f.pending, gained) /\ Within(-X, -f.pending, gained - f.sum)
    BY <2>2 DEF Average
  <2>6. Seen.rate * Tick = X
    BY <2>3
  <2> HIDE DEF X
  <2>7. X \in -Lost..gained
    BY <2>2, <2>4, <2>5 DEF Within, Lost
  <2>8. QED
    BY <2>6, <2>7
<1>2. QED
  BY <1>1, RateInvAlways, PTL

-----------------------------------------------------------------------------
(* What is seen is a ticker that takes up each tick as it ends.            *)

LEMMA InitTicks == RateInit => Ticker!Init
<1>1. SUFFICES ASSUME RateInit
               PROVE  Ticker!Init
  OBVIOUS
<1>2. /\ now \in Nat \ {0} /\ knode.t = 0 /\ knode.rate = 0 /\ knode.pending = 0
      /\ knode.sum = 0
  BY <1>1, TimeAssumption DEF RateInit
<1>3. QED
  BY <1>2 DEF Ticker!Init, Ticker!Unseen, Phase, Seen, Looked

LEMMA PhaseIs ==
  ASSUME RateInv
  PROVE  (Phase = Ticker!Unseen) <=> knode.t <= 0
<1>1. knode.t \in Nat /\ (knode.t % Tick) \in 0..Tick - 1
  BY Division DEF RateInv, KType
<1>2. QED
  BY <1>1, TimeAssumption DEF Phase, Ticker!Unseen

(* The end of a tick changes what is seen, though it leaves the k_node.    *)
LEMMA TimeTicks ==
  ASSUME RateInv, Time
  PROVE  Ticker!Time
<1>1. now' = now + 1 /\ knode' = knode /\ Phase' = Phase
  BY DEF Time, Phase
<1>2. knode \in KType /\ knode.t \in Nat /\ knode.t <= now /\ now \in Nat
  BY DEF RateInv, KType
<1>3. CASE knode.t <= 0
  <2>1. Seen' = Seen
    BY <1>1, <1>3 DEF Seen
  <2>2. (now' % Tick) # Phase
    <3>1. (now' % Tick) \in 0..Tick - 1
      BY <1>1, <1>2, Division
    <3>2. QED
      BY <1>3, <3>1, TimeAssumption DEF Phase
  <2>3. Looked' = Looked
    BY <1>1, <1>2, <1>3 DEF Looked
  <2>4. QED
    BY <1>1, <2>1, <2>2, <2>3 DEF Ticker!Time
<1>4. CASE ~(knode.t <= 0)
  <2> DEFINE f == Fresh(now, knode)
             g == Fresh(now + 1, knode)
             l == (now + 1 - knode.t) \div Tick
             m == (now - knode.t) \div Tick
  <2>1. IF ((now + 1) % Tick) = (knode.t % Tick)
        THEN /\ g.rate = IF f.rate < 0 /\ ~(m = 0) THEN Div(f.rate, 2)
                         ELSE Mix(f.rate, Div(f.pending, Tick))
             /\ g.pending = 0 /\ l # 0
        ELSE g.rate = f.rate /\ g.pending = f.pending /\ l = m
    BY <1>2, <1>4, FreshLater
  <2>2. Seen.rate = f.rate /\ Seen.pending = f.pending
    BY <1>2, SeenIs
  <2>3. Seen'.rate = g.rate /\ Seen'.pending = g.pending
    BY <1>1, <1>2, SeenNextIs
  <2>4. Phase = knode.t % Tick
    BY <1>4 DEF Phase
  <2>5. (Looked <=> m = 0) /\ (Looked' <=> l = 0)
    <3>1. knode.t > 0 /\ knode'.t > 0 /\ Missed = m /\ Missed' = l
      BY <1>1, <1>2, <1>4 DEF Missed
    <3>2. QED
      BY <3>1 DEF Looked
  <2> HIDE DEF f, g, m, l
  <2>6. CASE ((now + 1) % Tick) = (knode.t % Tick)
    <3>1. /\ Seen'.rate = IF Seen.rate < 0 /\ ~Looked THEN Div(Seen.rate, 2)
                          ELSE Mix(Seen.rate, Div(Seen.pending, Tick))
          /\ Seen'.pending = 0 /\ Looked' = FALSE
      BY <2>1, <2>2, <2>3, <2>5, <2>6
    <3>2. Ticker!TickEnds
      BY <3>1 DEF Ticker!TickEnds, Ticker!Mix, Ticker!Div, Mix, Div
    <3>3. QED
      BY <1>1, <2>4, <2>6, <3>2 DEF Ticker!Time
  <2>7. CASE ~(((now + 1) % Tick) = (knode.t % Tick))
    <3>1. Seen'.rate = Seen.rate /\ Seen'.pending = Seen.pending /\ Looked' = Looked
      BY <2>1, <2>2, <2>3, <2>5, <2>7 DEF Looked
    <3>2. QED
      BY <1>1, <2>4, <2>7, <3>1 DEF Ticker!Time
  <2>8. QED
    BY <2>6, <2>7
<1>5. QED
  BY <1>3, <1>4

(* A look, with e reported. *)
LEMMA TouchTicks ==
  ASSUME RateInv, NEW e \in Int, Touches(e)
  PROVE  /\ Ticker!Look /\ Seen'.rate = Seen.rate
         /\ Seen'.pending = Seen.pending + e /\ knode'.sum = knode.sum + e
<1>1. /\ Seen'.rate = Seen.rate /\ Seen'.pending = Seen.pending + e
      /\ knode'.sum = knode.sum + e /\ 0 < knode'.t /\ knode'.t \in Nat
      /\ (now' - knode'.t) \div Tick = 0
      /\ (knode'.t % Tick) = IF knode.t <= 0 THEN now % Tick ELSE (knode.t % Tick)
  <2>1. RateInv'
    BY Touch
  <2>2. knode'.t \in Nat
    BY <2>1 DEF RateInv, KType
  <2>3. QED
    BY <2>2, Touch
<1>2. Phase' = knode'.t % Tick
  BY <1>1 DEF Phase
<1>3. ~(knode.t <= 0) => Phase = knode.t % Tick
  BY DEF Phase
<1>4. Ticker!Look
  <2>1. Looked'
    BY <1>1 DEF Looked, Missed
  <2>2. Looked' = TRUE
    BY <2>1 DEF Looked
  <2>3. QED
    BY <1>1, <1>2, <1>3, <2>2, PhaseIs DEF Ticker!Look
<1>5. QED
  BY <1>1, <1>4

LEMMA NextTicks == RateInv /\ [RateNext]_rateVars => [Ticker!Next]_(Ticker!vars)
<1>1. SUFFICES ASSUME RateInv, [RateNext]_rateVars
               PROVE  [Ticker!Next]_(Ticker!vars)
  OBVIOUS
<1>2. CASE Time
  BY <1>1, <1>2, TimeTicks DEF Ticker!Next
<1>3. ASSUME NEW e \in Amounts, Update(e)
      PROVE  Ticker!Next
  <2>1. e \in Int /\ Touches(e) /\ now' = now
    BY <1>3, UpdateTouches DEF Touches
  <2>2. /\ Ticker!Look /\ Seen'.rate = Seen.rate
        /\ Seen'.pending = Seen.pending + e /\ knode'.sum = knode.sum + e
    BY <1>1, <2>1, TouchTicks
  <2>3. Ticker!Update(e)
    BY <2>1, <2>2 DEF Ticker!Update
  <2>4. QED
    BY <2>3 DEF Ticker!Next
<1>4. CASE Query
  <2>1. 0 \in Int /\ Touches(0) /\ now' = now
    BY <1>1, <1>4, QueryTouches DEF Touches
  <2>2. /\ Ticker!Look /\ Seen'.rate = Seen.rate
        /\ Seen'.pending = Seen.pending + 0 /\ knode'.sum = knode.sum + 0
    BY <1>1, <2>1, TouchTicks
  <2>3. Seen.pending \in Int /\ knode.sum \in Int
    <3>1. knode \in KType /\ Fresh(now, knode) \in KType
      BY <1>1, FreshKeeps DEF RateInv
    <3>2. QED
      BY <3>1, SeenIs DEF KType
  <2>4. Ticker!Query
    BY <2>1, <2>2, <2>3 DEF Ticker!Query
  <2>5. QED
    BY <2>4 DEF Ticker!Next
<1>5. CASE UNCHANGED rateVars
  <2>1. now' = now /\ knode' = knode
    BY <1>5 DEF rateVars
  <2>2. Phase' = Phase /\ Seen' = Seen /\ Looked' = Looked
    BY <2>1 DEF Phase, Seen, Freshen, Missed, Looked
  <2>3. QED
    BY <2>1, <2>2 DEF Ticker!vars
<1>6. QED
  BY <1>1, <1>2, <1>3, <1>4, <1>5 DEF RateNext

(* What a reader sees is what a clock that ends every tick on time would   *)
(* show; who looked makes a difference only while a rate is negative, and  *)
(* then the one that KTicker states.                                       *)
THEOREM RateImplementsTicker == RateSpec => ImplementsTicker
<1>1. RateInit => Ticker!Init
  BY InitTicks
<1>2. RateInv /\ [RateNext]_rateVars => [Ticker!Next]_(Ticker!vars)
  BY NextTicks
<1>3. QED
  BY <1>1, <1>2, RateInvAlways, PTL DEF RateSpec, ImplementsTicker, Ticker!Spec
=============================================================================
