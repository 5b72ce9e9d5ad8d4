------------------------- MODULE BotzEntriesProofs -------------------------
(***************************************************************************)
(* Theorems about the paths of the master's HTTP server, for any names the *)
(* configuration, the PUTs and the clients may use and paths of any        *)
(* length.                                                                 *)
(***************************************************************************)
EXTENDS BotzEntries, SequenceTheorems, WellFoundedInduction, TLAPS

-----------------------------------------------------------------------------
(* The walk of bx_lookup, turn by turn. *)

(* Induction for a set of numbers: there is no least one outside of it.    *)
LEMMA AllNumbers ==
  ASSUME NEW S, 0 \in S, \A n \in Nat : n \in S => n + 1 \in S
  PROVE  Nat \subseteq S
<1> DEFINE Out == Nat \ S
<1>1. SUFFICES ASSUME Out # {}
               PROVE  FALSE
  OBVIOUS
<1>2. PICK n \in Out : \A l \in Out : ~(<<l, n>> \in OpToRel(<, Nat))
  BY <1>1, NatLessThanWellFounded, WFMin
<1>3. n \in Nat /\ n - 1 \in Nat /\ n - 1 < n
  OBVIOUS
<1>4. <<n - 1, n>> \in OpToRel(<, Nat)
  BY <1>3 DEF OpToRel
<1>5. n - 1 \in S
  BY <1>2, <1>3, <1>4
<1>6. n - 1 + 1 \in S
  BY <1>3, <1>5
<1>7. QED
  BY <1>3, <1>6

Start(t) == [at |-> Root, answer |-> Pending, tab |-> t]

(* What is done with the i-th name of a path. *)
Step(w, path, i, m, ok) ==
  IF w.answer # Pending THEN w ELSE Turn(w, SubSeq(path, i, Len(path)), m, ok)

IsWalk(f, l, t, path, m, ok) ==
  f = [i \in 0..l |-> IF i = 0 THEN Start(t) ELSE Step(f[i - 1], path, i, m, ok)]

Walk(t, path, m, ok) == CHOOSE f : IsWalk(f, Len(path), t, path, m, ok)

(* There are walks as far as one likes. *)
LEMMA WalkExists ==
  ASSUME NEW t, NEW path, NEW m, NEW ok
  PROVE  \A l \in Nat : \E f : IsWalk(f, l, t, path, m, ok)
<1> DEFINE S == {l \in Nat : \E f : IsWalk(f, l, t, path, m, ok)}
<1>1. 0 \in S
  <2> DEFINE g == [i \in 0..0 |-> Start(t)]
  <2>1. IsWalk(g, 0, t, path, m, ok)
    BY DEF IsWalk
  <2>2. QED
    BY <2>1
<1>2. ASSUME NEW l \in Nat, l \in S
      PROVE  l + 1 \in S
  <2>1. PICK f : IsWalk(f, l, t, path, m, ok)
    BY <1>2
  <2> DEFINE g == [i \in 0..l + 1 |-> IF i = l + 1 THEN Step(f[l], path, i, m, ok) ELSE f[i]]
  <2>2. \A i \in 0..l : f[i] = IF i = 0 THEN Start(t) ELSE Step(f[i - 1], path, i, m, ok)
    BY <2>1 DEF IsWalk
  <2>3. \A i \in 0..l + 1 :
          g[i] = IF i = 0 THEN Start(t) ELSE Step(g[i - 1], path, i, m, ok)
    <3>1. SUFFICES ASSUME NEW i \in 0..l + 1
                   PROVE  g[i] = IF i = 0 THEN Start(t) ELSE Step(g[i - 1], path, i, m, ok)
      OBVIOUS
    <3>2. CASE i = l + 1
      BY <3>2
    <3>3. CASE i # l + 1
      <4>1. i \in 0..l /\ g[i] = f[i] /\ (i # 0 => g[i - 1] = f[i - 1])
        BY <3>3
      <4>2. QED
        BY <2>2, <4>1
    <3>4. QED
      BY <3>2, <3>3
  <2>4. IsWalk(g, l + 1, t, path, m, ok)
    BY <2>3 DEF IsWalk
  <2>5. QED
    BY <2>4
<1>3. QED
  BY <1>1, <1>2, AllNumbers

(* bx_lookup takes one step for each name of the path. *)
LEMMA WalkSteps ==
  ASSUME NEW t, NEW path, Len(path) \in Nat, NEW m, NEW ok
  PROVE  /\ Walk(t, path, m, ok)[0] = Start(t)
         /\ \A i \in 1..Len(path) :
              Walk(t, path, m, ok)[i] = Step(Walk(t, path, m, ok)[i - 1], path, i, m, ok)
         /\ BxLookup(t, path, m, ok) = Walk(t, path, m, ok)[Len(path)]
<1>1. IsWalk(Walk(t, path, m, ok), Len(path), t, path, m, ok)
  BY WalkExists DEF Walk
<1>2. BxLookup(t, path, m, ok) = Walk(t, path, m, ok)[Len(path)]
  BY DEF BxLookup, Walk, IsWalk, Step, Start
<1>3. QED
  BY <1>1, <1>2 DEF IsWalk

-----------------------------------------------------------------------------
(* Names and sequences of one and two of them. *)

Names ==
  (UNION {{path[j] : j \in 1..Len(path)} : path \in Paths})
    \cup Dirs \cup {"top", "_domains", ".."}

LEMMA SomeNames ==
  /\ \A d \in Dirs : d \in Names
  /\ "top" \in Names /\ "_domains" \in Names /\ ".." \in Names
<1> DEFINE all == UNION {{path[j] : j \in 1..Len(path)} : path \in Paths}
<1>1. Names = all \cup Dirs \cup {"top", "_domains", ".."}
  BY DEF Names
<1> HIDE DEF all
<1>2. "top" \in Names
  BY <1>1
<1>3. "_domains" \in Names
  BY <1>1
<1>4. ".." \in Names
  BY <1>1
<1>5. QED
  BY <1>1, <1>2, <1>3, <1>4

LEMMA PathsOfNames == Paths \subseteq Seq(Names)
<1>1. SUFFICES ASSUME NEW path \in Paths
               PROVE  path \in Seq(Names)
  OBVIOUS
<1>2. /\ Len(path) \in Nat /\ path \in [1..Len(path) -> STRING]
  BY NamesAssumption, LenProperties
<1>3. ASSUME NEW j \in 1..Len(path)
      PROVE  path[j] \in Names
  <2> DEFINE these == {path[i] : i \in 1..Len(path)}
             all == {{p[i] : i \in 1..Len(p)} : p \in Paths}
  <2>1. these \in all /\ path[j] \in these
    OBVIOUS
  <2> HIDE DEF these
  <2>2. path[j] \in UNION all
    BY <2>1
  <2> HIDE DEF all
  <2>3. QED
    BY <2>2 DEF Names, all
<1>4. path \in [1..Len(path) -> Names]
  BY <1>2, <1>3
<1>5. QED
  BY <1>2, <1>4, SeqDef

LEMMA AppendToNone ==
  ASSUME NEW d \in Names
  PROVE  /\ <<>> \in Seq(Names) /\ <<d>> \in Seq(Names) /\ <<d>> # <<>>
         /\ \A s \in Seq(Names), x \in Names : Append(s, x) = <<d>> <=> s = <<>> /\ x = d
<1> DEFINE none == <<>>
           one == <<d>>
<1>1. one = Append(none, d) /\ none \in Seq(Names) /\ one \in Seq(Names) /\ one # none
  OBVIOUS
<1> HIDE DEF none, one
<1>2. \A s \in Seq(Names), x \in Names : Append(s, x) = one <=> s = none /\ x = d
  BY <1>1, AppendInjective
<1>3. QED
  BY <1>1, <1>2 DEF none, one

LEMMA AppendToOne ==
  ASSUME NEW d \in Names, NEW e \in Names
  PROVE  \A s \in Seq(Names), x \in Names :
           Append(s, x) = <<d, e>> <=> s = <<d>> /\ x = e
<1> DEFINE one == <<d>>
           two == <<d, e>>
           more == Append(<<d>>, e)
<1>1. one \in Seq(Names) /\ more = Append(one, e)
  OBVIOUS
<1>2. more \in Seq(Names) /\ Len(more) = 2 /\ more[1] = d /\ more[2] = e
  OBVIOUS
<1>3. two \in Seq(Names) /\ Len(two) = 2 /\ two[1] = d /\ two[2] = e
  OBVIOUS
<1> HIDE DEF one, two, more
<1>4. \A j \in 1..Len(more) : more[j] = two[j]
  BY <1>2, <1>3
<1>5. more = two
  BY <1>2, <1>3, <1>4, SeqEqual
<1>6. ASSUME NEW s \in Seq(Names), NEW x \in Names
      PROVE  Append(s, x) = two <=> s = one /\ x = e
  <2>1. Append(s, x) = Append(one, e) <=> s = one /\ x = e
    BY <1>1, AppendInjective
  <2>2. QED
    BY <1>1, <1>5, <2>1
<1>7. QED
  BY <1>6 DEF one, two

-----------------------------------------------------------------------------
(* What the table of entries may hold. *)

LastingDirs == {"clus", "serv", "fs"}

(* The entry of a node that the configuration has made, below the one of   *)
(* its directory.                                                          *)
Lasting(e) ==
  \E d \in LastingDirs, x \in Names \ {".", ".."} : x \in nodes[d] /\ e = <<d, x>>

GoodTable(t) ==
  /\ DOMAIN Static \subseteq DOMAIN t
  /\ \A e \in DOMAIN t :
       \/ e \in DOMAIN Static /\ t[e] = Static[e]
       \/ e \notin DOMAIN Static /\ Lasting(e) /\ t[e] = Entry(<<e[1]>>, e[1], e[2])

(* The walk stands at an entry of a good table. *)
GoodWalk(w) == GoodTable(w.tab) /\ w.at \in DOMAIN w.tab

LEMMA EntryFields ==
  \A parent, ops, data :
    /\ Entry(parent, ops, data).parent = parent
    /\ Entry(parent, ops, data).ops = ops
    /\ Entry(parent, ops, data).data = data
BY DEF Entry

LEMMA StaticEntries ==
  /\ Root \in DOMAIN Static /\ Static[Root] = Entry(Root, "default", "")
  /\ \A d \in Dirs : <<d>> \in DOMAIN Static /\ Static[<<d>>] = Entry(Root, "dir", d)
  /\ \A e \in DOMAIN Static :
       /\ e \in Seq(Names) /\ Len(e) \in {0, 1}
       /\ e # Root => \E d \in Names \ {".", ".."} : e = <<d>>
       /\ Static[e].parent = Root /\ Static[e].ops \notin LastingDirs \cup {"job"}
       /\ Static[e].ops = "dir" => e = <<Static[e].data>> /\ Static[e].data \in Dirs
<1> DEFINE dom == {Root, <<"top">>, <<"_domains">>} \cup {<<d>> : d \in Dirs}
           val(e) == IF e = Root THEN Entry(Root, "default", "")
                     ELSE IF e[1] \in Dirs THEN Entry(Root, "dir", e[1])
                     ELSE Entry(Root, e[1], "")
<1>1. DOMAIN Static = dom /\ \A e \in dom : Static[e] = val(e)
  BY DEF Static
<1>2. Root \in dom /\ val(Root) = Entry(Root, "default", "")
  OBVIOUS
<1>3. ASSUME NEW d \in Dirs
      PROVE  <<d>> \in dom /\ val(<<d>>) = Entry(Root, "dir", d)
  <2>1. <<d>> # Root /\ <<d>>[1] = d
    BY DEF Root
  <2>2. <<d>> \in dom
    OBVIOUS
  <2>3. QED
    BY <2>1, <2>2
<1>4. ASSUME NEW d \in {"top", "_domains"}
      PROVE  <<d>> \in dom /\ val(<<d>>) = Entry(Root, d, "")
  <2>1. <<d>> # Root /\ <<d>>[1] = d /\ d \notin Dirs
    BY DEF Root, Dirs
  <2>2. <<d>> \in dom
    OBVIOUS
  <2>3. QED
    BY <2>1, <2>2
<1>5. ASSUME NEW e \in dom
      PROVE  \/ e = Root
             \/ \E d \in Dirs : e = <<d>>
             \/ \E d \in {"top", "_domains"} : e = <<d>>
  OBVIOUS
<1>6. \A d \in Names : <<d>> \in Seq(Names) /\ Len(<<d>>) = 1
  OBVIOUS
<1>7. Root \in Seq(Names) /\ Len(Root) = 0
  BY DEF Root
<1> HIDE DEF dom, val
<1> DEFINE Q(e) ==
             /\ e \in Seq(Names) /\ Len(e) \in {0, 1}
             /\ e # Root => \E d \in Names \ {".", ".."} : e = <<d>>
             /\ val(e).parent = Root /\ val(e).ops \notin LastingDirs \cup {"job"}
             /\ val(e).ops = "dir" => e = <<val(e).data>> /\ val(e).data \in Dirs
<1>8. ASSUME NEW e \in dom
      PROVE  Q(e)
  <2>1. CASE e = Root
    <3> DEFINE ops == "default"
               none == ""
    <3>1. val(e) = Entry(Root, ops, none)
      BY <1>2, <2>1
    <3> HIDE DEF none
    <3>2. val(e).parent = Root /\ val(e).ops = ops
      BY <3>1, EntryFields
    <3>3. val(e).ops \notin LastingDirs \cup {"job"} /\ val(e).ops # "dir"
      BY <3>2 DEF LastingDirs
    <3>4. QED
      BY <1>7, <2>1, <3>2, <3>3
  <2>2. ASSUME NEW d \in Dirs, e = <<d>>
        PROVE  Q(e)
    <3>1. val(e) = Entry(Root, "dir", d) /\ d \in Names \ {".", ".."}
      BY <1>3, <2>2, SomeNames DEF Dirs
    <3>2. e \in Seq(Names) /\ Len(e) = 1
      BY <1>6, <2>2, <3>1
    <3>3. val(e).parent = Root /\ val(e).ops = "dir" /\ val(e).data = d
      BY <3>1, EntryFields
    <3>4. val(e).ops \notin LastingDirs \cup {"job"}
      BY <3>3 DEF LastingDirs
    <3>5. QED
      BY <2>2, <3>1, <3>2, <3>3, <3>4
  <2>3. ASSUME NEW d \in {"top", "_domains"}, e = <<d>>
        PROVE  Q(e)
    <3> DEFINE none == ""
    <3>1. val(e) = Entry(Root, d, none) /\ d \in Names \ {".", ".."}
      BY <1>4, <2>3, SomeNames
    <3> HIDE DEF none
    <3>2. e \in Seq(Names) /\ Len(e) = 1
      BY <1>6, <2>3, <3>1
    <3>3. val(e).parent = Root /\ val(e).ops = d
      BY <3>1, EntryFields
    <3>4. val(e).ops \notin LastingDirs \cup {"job"} /\ val(e).ops # "dir"
      BY <3>3 DEF LastingDirs
    <3>5. QED
      BY <2>3, <3>1, <3>2, <3>3, <3>4
  <2>4. QED
    BY <1>5, <2>1, <2>2, <2>3
<1>9. QED
  BY <1>1, <1>2, <1>3, <1>8, ZenonT(30)

LEMMA LastingEntry ==
  ASSUME NEW e, Lasting(e)
  PROVE  /\ e \in Seq(Names) /\ Len(e) = 2 /\ e = <<e[1], e[2]>>
         /\ e[1] \in LastingDirs /\ e[2] \in nodes[e[1]] /\ e[2] \in Names \ {".", ".."}
         /\ e[1] \in Dirs /\ e[1] \in Names
         /\ e \notin DOMAIN Static /\ <<e[1]>> \in DOMAIN Static
<1>1. PICK d \in LastingDirs, x \in Names \ {".", ".."} : x \in nodes[d] /\ e = <<d, x>>
  BY DEF Lasting
<1>2. d \in Dirs /\ d \in Names /\ x \in Names
  BY SomeNames DEF LastingDirs, Dirs
<1>3. <<d, x>> \in Seq(Names) /\ Len(<<d, x>>) = 2 /\ <<d, x>>[1] = d /\ <<d, x>>[2] = x
  BY <1>2
<1>4. e \in Seq(Names) /\ Len(e) = 2 /\ e[1] = d /\ e[2] = x
  BY <1>1, <1>3
<1>5. <<d>> \in DOMAIN Static
  BY <1>2, StaticEntries
<1>6. e \notin DOMAIN Static
  <2>1. e \in DOMAIN Static => Len(e) \in {0, 1}
    BY StaticEntries
  <2>2. QED
    BY <1>4, <2>1
<1>7. QED
  BY <1>1, <1>2, <1>4, <1>5, <1>6

(* What o_lookup makes an entry for. *)
LEMMA OLookupPends ==
  ASSUME NEW t, NEW e, NEW names, NEW m
  PROVE  OLookup(t, e, names, m) = Pending
           <=> t[e].ops = "dir" /\ Keeps(t[e].data, names[1])
<1>1. ASSUME NEW x, NEW rest
      PROVE  /\ BelowNode(x, rest, m) # Pending /\ ServEntryLookup(x, rest, m) # Pending
             /\ FsEntryLookup(x, rest, m) # Pending /\ DirDefault(x, rest, m) # Pending
  BY DEF BelowNode, ServEntryLookup, FsEntryLookup, DirDefault, IfGet, Answer, Pending,
         NotFound, Forbidden
<1>2. QED
  BY <1>1 DEF OLookup, NotFound, Answer, Pending

-----------------------------------------------------------------------------
(* The walk keeps the table good. *)

LEMMA GoodEntry ==
  ASSUME NEW t, GoodTable(t), NEW e \in DOMAIN t
  PROVE  /\ e \in Seq(Names) /\ t[e].parent \in DOMAIN t
         /\ t[e].ops = "dir" => e = <<t[e].data>> /\ t[e].data \in Dirs
<1>1. CASE e \in DOMAIN Static /\ t[e] = Static[e]
  <2>1. e \in Seq(Names) /\ Static[e].parent = Root /\ Root \in DOMAIN Static
    BY <1>1, StaticEntries
  <2>2. Static[e].ops = "dir" => e = <<Static[e].data>> /\ Static[e].data \in Dirs
    BY <1>1, StaticEntries
  <2>3. QED
    BY <1>1, <2>1, <2>2 DEF GoodTable
<1>2. CASE Lasting(e) /\ t[e] = Entry(<<e[1]>>, e[1], e[2])
  <2>1. e \in Seq(Names) /\ <<e[1]>> \in DOMAIN Static /\ e[1] \in LastingDirs
    BY <1>2, LastingEntry
  <2>2. t[e].parent = <<e[1]>> /\ t[e].ops = e[1]
    BY <1>2, EntryFields
  <2>3. t[e].ops # "dir"
    BY <2>1, <2>2 DEF LastingDirs
  <2>4. QED
    BY <2>1, <2>2, <2>3 DEF GoodTable
<1>3. QED
  BY <1>1, <1>2 DEF GoodTable

(* What an entry holds is decided by its name. *)
LEMMA SameEntry ==
  ASSUME NEW t, GoodTable(t), NEW u, GoodTable(u), NEW e \in DOMAIN t, e \in DOMAIN u
  PROVE  t[e] = u[e]
BY DEF GoodTable

(* A lookup that pends is one for a name the configuration gave. *)
LEMMA PendingLasts ==
  ASSUME NEW t, GoodTable(t), NEW e \in DOMAIN t, NEW names, NEW m,
         names[1] \in Names \ {".", ".."}, OLookup(t, e, names, m) = Pending
  PROVE  /\ Lasting(Append(e, names[1]))
         /\ Append(e, names[1]) = <<t[e].data, names[1]>> /\ e = <<t[e].data>>
<1> DEFINE d == t[e].data
           x == names[1]
<1>1. t[e].ops = "dir" /\ Keeps(d, x)
  BY OLookupPends
<1>2. d \in LastingDirs /\ x \in nodes[d]
  BY <1>1 DEF Keeps, LastingDirs
<1>3. e = <<d>> /\ d \in Dirs /\ d \in Names /\ x \in Names
  BY <1>1, GoodEntry, SomeNames
<1> HIDE DEF d, x
<1>4. <<d>> \in Seq(Names)
  BY <1>3
<1>5. Append(e, x) = <<d, x>>
  BY <1>3, <1>4, AppendToOne
<1>6. x \in Names \ {".", ".."}
  BY DEF x
<1>7. Lasting(Append(e, x))
  BY <1>2, <1>5, <1>6 DEF Lasting
<1>8. QED
  BY <1>3, <1>5, <1>7 DEF d, x

IsState(w) == w = [at |-> w.at, answer |-> w.answer, tab |-> w.tab]

LEMMA TurnGood ==
  ASSUME NEW w, IsState(w), GoodWalk(w), NEW names, NEW m, NEW ok, names[1] \in Names
  PROVE  IsState(Turn(w, names, m, ok)) /\ GoodWalk(Turn(w, names, m, ok))
<1> DEFINE n == names[1]
           below == Append(w.at, n)
           found == OLookup(w.tab, w.at, names, m)
           next == Turn(w, names, m, ok)
<1>1. CASE n = "."
  BY <1>1 DEF Turn
<1>2. CASE n = ".."
  <2>1. next = [w EXCEPT !.at = w.tab[w.at].parent]
    BY <1>2 DEF Turn
  <2>2. next = [at |-> w.tab[w.at].parent, answer |-> w.answer, tab |-> w.tab]
    BY <2>1 DEF IsState
  <2>3. w.tab[w.at].parent \in DOMAIN w.tab
    BY GoodEntry DEF GoodWalk
  <2>4. QED
    BY <2>2, <2>3 DEF IsState, GoodWalk
<1>3. CASE n \notin {".", ".."} /\ below \in DOMAIN w.tab
  <2>1. next = [w EXCEPT !.at = below]
    BY <1>3 DEF Turn
  <2>2. next = [at |-> below, answer |-> w.answer, tab |-> w.tab]
    BY <2>1 DEF IsState
  <2>3. QED
    BY <1>3, <2>2 DEF IsState, GoodWalk
<1>4. CASE n \notin {".", ".."} /\ below \notin DOMAIN w.tab /\ (found # Pending \/ ~ok)
  <2>1. PICK r : next = [w EXCEPT !.answer = r]
    BY <1>4 DEF Turn
  <2>2. next = [at |-> w.at, answer |-> r, tab |-> w.tab]
    BY <2>1 DEF IsState
  <2>3. QED
    BY <2>2 DEF IsState, GoodWalk
<1>5. CASE n \notin {".", ".."} /\ below \notin DOMAIN w.tab /\ found = Pending /\ ok
  <2> DEFINE d == w.tab[w.at].data
             new == [e \in DOMAIN w.tab \cup {below} |->
                       IF e = below THEN Entry(ParentOfNew(w.at), d, n) ELSE w.tab[e]]
  <2>1. next = [at |-> below, answer |-> Pending, tab |-> new]
    BY <1>5 DEF Turn
  <2>2. Lasting(below) /\ below = <<d, n>> /\ w.at = <<d>>
    BY <1>5, PendingLasts DEF GoodWalk
  <2>3. below \notin DOMAIN Static /\ below[1] = d /\ below[2] = n
    BY <2>2, LastingEntry
  <2> HIDE DEF d, n, below
  <2>4. new[below] = Entry(<<below[1]>>, below[1], below[2])
    BY <2>2, <2>3 DEF ParentOfNew
  <2>5. \A e \in DOMAIN w.tab : e # below => new[e] = w.tab[e]
    OBVIOUS
  <2>6. DOMAIN new = DOMAIN w.tab \cup {below}
    OBVIOUS
  <2> HIDE DEF new
  <2>7. GoodTable(new)
    BY <2>2, <2>3, <2>4, <2>5, <2>6 DEF GoodTable, GoodWalk
  <2>8. QED
    BY <2>1, <2>6, <2>7 DEF IsState, GoodWalk
<1>6. QED
  BY <1>1, <1>2, <1>3, <1>4, <1>5

(* The names that are left start with the i-th. *)
LEMMA NamesLeft ==
  ASSUME NEW path \in Seq(Names), NEW i \in 1..Len(path)
  PROVE  SubSeq(path, i, Len(path))[1] = path[i] /\ path[i] \in Names
<1>1. Len(path) \in Nat /\ \A j \in i..Len(path) : path[j] \in Names
  BY LenProperties, ElementOfSeq
<1>2. \A j \in 1..Len(path) - i + 1 : SubSeq(path, i, Len(path))[j] = path[i + j - 1]
  BY <1>1, SubSeqProperties
<1>3. 1 \in 1..Len(path) - i + 1 /\ i + 1 - 1 = i /\ i \in i..Len(path)
  BY <1>1
<1>4. QED
  BY <1>1, <1>2, <1>3

LEMMA WalkGood ==
  ASSUME NEW t, GoodTable(t), NEW path \in Seq(Names), NEW m, NEW ok
  PROVE  \A i \in 0..Len(path) :
           IsState(Walk(t, path, m, ok)[i]) /\ GoodWalk(Walk(t, path, m, ok)[i])
<1> DEFINE walk == Walk(t, path, m, ok)
           S == {i \in Nat : i <= Len(path) => IsState(walk[i]) /\ GoodWalk(walk[i])}
<1>1. Len(path) \in Nat
  BY LenProperties
<1>2. walk[0] = Start(t) /\ \A i \in 1..Len(path) : walk[i] = Step(walk[i - 1], path, i, m, ok)
  BY <1>1, WalkSteps
<1> HIDE DEF walk
<1>3. 0 \in S
  <2>1. IsState(Start(t))
    BY DEF IsState, Start
  <2>2. Start(t).tab = t /\ Start(t).at = Root
    BY DEF Start
  <2>3. GoodWalk(Start(t))
    BY <2>2, StaticEntries DEF GoodWalk, GoodTable
  <2>4. QED
    BY <1>2, <2>1, <2>3
<1>4. ASSUME NEW i \in Nat, i \in S
      PROVE  i + 1 \in S
  <2>1. SUFFICES ASSUME i + 1 <= Len(path)
                 PROVE  IsState(walk[i + 1]) /\ GoodWalk(walk[i + 1])
    OBVIOUS
  <2>2. i + 1 \in 1..Len(path) /\ i + 1 - 1 = i /\ i <= Len(path)
    BY <1>1, <2>1
  <2>3. IsState(walk[i]) /\ GoodWalk(walk[i])
    BY <1>4, <2>2
  <2>4. walk[i + 1] = Step(walk[i], path, i + 1, m, ok)
    BY <1>2, <2>2
  <2>5. SubSeq(path, i + 1, Len(path))[1] \in Names
    BY <2>2, NamesLeft
  <2>6. QED
    BY <2>3, <2>4, <2>5, TurnGood DEF Step
<1>5. Nat \subseteq S
  BY <1>3, <1>4, AllNumbers
<1>6. QED
  BY <1>1, <1>5 DEF walk

LEMMA LookupGood ==
  ASSUME NEW t, GoodTable(t), NEW path \in Seq(Names), NEW m, NEW ok
  PROVE  IsState(BxLookup(t, path, m, ok)) /\ GoodWalk(BxLookup(t, path, m, ok))
<1>1. Len(path) \in Nat /\ Len(path) \in 0..Len(path)
  BY LenProperties
<1>2. IsState(Walk(t, path, m, ok)[Len(path)]) /\ GoodWalk(Walk(t, path, m, ok)[Len(path)])
  BY <1>1, WalkGood
<1>3. BxLookup(t, path, m, ok) = Walk(t, path, m, ok)[Len(path)]
  BY <1>1, WalkSteps
<1>4. QED
  BY <1>2, <1>3

-----------------------------------------------------------------------------
(* The entries.  There is a table of names for each directory, and the     *)
(* table of entries is good: a lookup adds only entries that last.         *)
EntriesInv ==
  /\ nodes = [d \in Dirs |-> nodes[d]]
  /\ GoodTable(entries)

LEMMA LastingNodesStay ==
  ASSUME nodes = [d \in Dirs |-> nodes[d]], GoodTable(entries'),
         nodes' = [d \in Dirs |-> nodes'[d]], \A d \in LastingDirs : nodes'[d] = nodes[d]
  PROVE  EntriesInv'
<1>1. \A e : Lasting(e) => Lasting(e)'
  BY DEF Lasting
<1>2. QED
  BY <1>1 DEF EntriesInv, GoodTable

LEMMA EntriesInductive == Init /\ [][Next]_vars => []EntriesInv
<1>1. Init => EntriesInv
  <2>1. SUFFICES ASSUME Init
                 PROVE  EntriesInv
    OBVIOUS
  <2> DEFINE names(d) == CASE d = "clus" -> Clusters [] d = "serv" -> Servs
                           [] d = "fs" -> Filesystems [] OTHER -> {}
  <2>2. nodes = [d \in Dirs |-> names(d)] /\ entries = Static
    BY <2>1 DEF Init
  <2> HIDE DEF names
  <2>3. nodes = [d \in Dirs |-> nodes[d]]
    BY <2>2
  <2>4. GoodTable(entries)
    BY <2>2 DEF GoodTable
  <2>5. QED
    BY <2>3, <2>4 DEF EntriesInv
<1>2. EntriesInv /\ [Next]_vars => EntriesInv'
  <2>1. SUFFICES ASSUME EntriesInv, [Next]_vars
                 PROVE  EntriesInv'
    OBVIOUS
  <2>2. nodes = [d \in Dirs |-> nodes[d]] /\ GoodTable(entries)
    BY <2>1 DEF EntriesInv
  <2>3. "host" \notin LastingDirs /\ "job" \notin LastingDirs /\ LastingDirs \subseteq Dirs
    BY DEF LastingDirs, Dirs
  <2>4. ASSUME NEW path \in Paths, NEW m \in Methods, Handle(path, m)
        PROVE  EntriesInv'
    <3>1. PICK ok : entries' = BxLookup(entries, path, m, ok).tab
      BY <2>4 DEF Handle
    <3>2. GoodTable(entries')
      BY <2>2, <3>1, LookupGood, PathsOfNames DEF GoodWalk
    <3>3. \/ nodes' = nodes
          \/ \E h, j : nodes' = [nodes EXCEPT !["host"] = @ \cup h, !["job"] = @ \cup j]
      <4> DEFINE next(h, j) == [nodes EXCEPT !["host"] = @ \cup h, !["job"] = @ \cup j]
                 r(k) == BxHandle(entries, path, m, k)
                 put(k) == m = "PUT" /\ r(k).status = 200
                 new(k) == put(k) /\ r(k).shows # <<>> /\ r(k).shows[1] = "PUT"
                 js(k) == IF r(k).shows[2] = "clus" THEN SUBSET Jobs ELSE {{}}
      <4>1. PICK k : IF new(k)
                     THEN \E h \in SUBSET Hosts, j \in js(k) : nodes' = next(h, j)
                     ELSE nodes' = nodes
        BY <2>4 DEF Handle
      <4> HIDE DEF next, new, js
      <4>2. nodes' = nodes \/ \E h, j : nodes' = next(h, j)
        BY <4>1
      <4>3. QED
        BY <4>2 DEF next
    <3>4. CASE nodes' = nodes
      BY <2>2, <3>2, <3>4, LastingNodesStay
    <3>5. ASSUME NEW h, NEW j,
                 nodes' = [nodes EXCEPT !["host"] = @ \cup h, !["job"] = @ \cup j]
          PROVE  EntriesInv'
      <4>1. nodes' = [d \in Dirs |-> nodes'[d]] /\ \A d \in LastingDirs : nodes'[d] = nodes[d]
        BY <2>2, <2>3, <3>5
      <4>2. QED
        BY <2>2, <3>2, <4>1, LastingNodesStay
    <3>6. QED
      BY <3>3, <3>4, <3>5
  <2>5. ASSUME NEW j \in Jobs, JobFreed(j)
        PROVE  EntriesInv'
    <3>1. entries' = entries /\ nodes' = [nodes EXCEPT !["job"] = @ \ {j}]
      BY <2>5 DEF JobFreed
    <3>2. nodes' = [d \in Dirs |-> nodes'[d]] /\ \A d \in LastingDirs : nodes'[d] = nodes[d]
      BY <2>2, <2>3, <3>1
    <3>3. GoodTable(entries')
      BY <2>2, <3>1
    <3>4. QED
      BY <2>2, <3>2, <3>3, LastingNodesStay
  <2>6. CASE UNCHANGED vars
    BY <2>2, <2>6, LastingNodesStay DEF vars
  <2>7. QED
    BY <2>1, <2>4, <2>5, <2>6 DEF Next
<1>3. QED
  BY <1>1, <1>2, PTL

(* Whatever is asked for, in any order, the table holds the entries of the *)
(* start and those of clusters, servers and filesystems, which stay: none  *)
(* for a node that can be freed and none for a name nobody knows.          *)
THEOREM OnlyLastingEntriesEver == Spec => []OnlyLastingEntries
<1>1. EntriesInv => OnlyLastingEntries
  <2>1. SUFFICES ASSUME EntriesInv, NEW e \in DOMAIN entries, e \notin DOMAIN Static
                 PROVE  /\ Len(e) = 2
                        /\ e[1] \in {"clus", "serv", "fs"} /\ e[2] \in nodes[e[1]]
                        /\ entries[e] = Entry(<<e[1]>>, e[1], e[2])
    BY DEF OnlyLastingEntries
  <2>2. Lasting(e) /\ entries[e] = Entry(<<e[1]>>, e[1], e[2])
    BY <2>1 DEF EntriesInv, GoodTable
  <2>3. QED
    BY <2>2, LastingEntry DEF LastingDirs
<1>2. QED
  BY <1>1, EntriesInductive, PTL DEF Spec

-----------------------------------------------------------------------------
(* Two walks over good tables that stand at the same entry do the same     *)
(* with the same names: a name one of the tables lacks is then made there. *)
Alike(v, w) == v.at = w.at /\ v.answer = w.answer

(* New entries can be allocated. *)
Allocates(ok) == ok = TRUE

LEMMA OneMakesIt ==
  ASSUME NEW t, GoodTable(t), NEW u, GoodTable(u), NEW e \in DOMAIN t, NEW names, NEW m,
         names[1] \in Names \ {".", ".."},
         Append(e, names[1]) \in DOMAIN u, Append(e, names[1]) \notin DOMAIN t
  PROVE  OLookup(t, e, names, m) = Pending
<1> DEFINE n == names[1]
           below == Append(e, n)
<1>1. Lasting(below) /\ below \notin DOMAIN Static
  BY DEF GoodTable
<1>2. PICK d \in LastingDirs, x \in Names \ {".", ".."} : x \in nodes[d] /\ below = <<d, x>>
  BY <1>1 DEF Lasting
<1>3. d \in Dirs /\ d \in Names /\ x \in Names /\ e \in Seq(Names) /\ n \in Names
  BY <1>2, SomeNames, GoodEntry DEF LastingDirs, Dirs
<1> HIDE DEF n
<1>4. e = <<d>> /\ n = x
  BY <1>2, <1>3, AppendToOne
<1>5. e \in DOMAIN Static /\ Static[e] = Entry(Root, "dir", d)
  BY <1>3, <1>4, StaticEntries
<1>6. t[e] = Static[e]
  BY <1>5 DEF GoodTable
<1>7. t[e].ops = "dir" /\ t[e].data = d
  BY <1>5, <1>6, EntryFields
<1>8. Keeps(d, n)
  BY <1>2, <1>4 DEF Keeps, LastingDirs
<1>9. QED
  BY <1>7, <1>8, OLookupPends DEF n

LEMMA TurnsAlike ==
  ASSUME NEW v, IsState(v), GoodWalk(v), NEW w, IsState(w), GoodWalk(w), Alike(v, w),
         v.answer = Pending, NEW names, NEW m, NEW ok, ok = TRUE, names[1] \in Names
  PROVE  Alike(Turn(v, names, m, ok), Turn(w, names, m, ok))
<1> DEFINE n == names[1]
           below == Append(v.at, n)
           a == Turn(v, names, m, ok)
           b == Turn(w, names, m, ok)
<1>1. /\ v.at = w.at /\ w.answer = Pending /\ v.tab[v.at] = w.tab[v.at]
      /\ GoodTable(v.tab) /\ GoodTable(w.tab) /\ v.at \in DOMAIN v.tab /\ v.at \in DOMAIN w.tab
  BY SameEntry DEF Alike, GoodWalk
<1>2. CASE n = "."
  BY <1>2 DEF Turn
<1>3. CASE n = ".."
  <2>1. a = [v EXCEPT !.at = v.tab[v.at].parent] /\ b = [w EXCEPT !.at = w.tab[w.at].parent]
    BY <1>3 DEF Turn
  <2>2. a.at = v.tab[v.at].parent /\ a.answer = v.answer
    BY <2>1 DEF IsState
  <2>3. b.at = w.tab[w.at].parent /\ b.answer = w.answer
    BY <2>1 DEF IsState
  <2>4. QED
    BY <1>1, <2>2, <2>3 DEF Alike
<1>4. CASE n \notin {".", ".."}
  <2>1. ASSUME NEW x, IsState(x), x.answer = Pending, x.at = v.at,
               below \in DOMAIN x.tab \/ OLookup(x.tab, x.at, names, m) = Pending
        PROVE  Turn(x, names, m, ok).at = below /\ Turn(x, names, m, ok).answer = Pending
    <3>1. CASE below \in DOMAIN x.tab
      <4>1. Turn(x, names, m, ok) = [x EXCEPT !.at = below]
        BY <1>4, <2>1, <3>1 DEF Turn
      <4>2. QED
        BY <2>1, <4>1 DEF IsState
    <3>2. CASE below \notin DOMAIN x.tab
      <4> DEFINE new == [e \in DOMAIN x.tab \cup {below} |->
                           IF e = below THEN Entry(ParentOfNew(x.at), x.tab[x.at].data, n)
                           ELSE x.tab[e]]
      <4>1. Turn(x, names, m, ok) = [at |-> below, answer |-> Pending, tab |-> new]
        BY <1>4, <2>1, <3>2 DEF Turn
      <4> HIDE DEF new, below
      <4>2. QED
        BY <4>1
    <3>3. QED
      BY <3>1, <3>2
  <2>2. OLookup(v.tab, v.at, names, m) = OLookup(w.tab, w.at, names, m)
    BY <1>1 DEF OLookup
  <2>3. CASE below \in DOMAIN v.tab \/ below \in DOMAIN w.tab
    <3>1. below \in DOMAIN v.tab \/ OLookup(v.tab, v.at, names, m) = Pending
      BY <1>1, <1>4, <2>3, OneMakesIt
    <3>2. below \in DOMAIN w.tab \/ OLookup(w.tab, w.at, names, m) = Pending
      BY <1>1, <1>4, <2>3, OneMakesIt
    <3>3. QED
      BY <1>1, <2>1, <3>1, <3>2 DEF Alike
  <2>4. CASE below \notin DOMAIN v.tab /\ below \notin DOMAIN w.tab
    <3>1. CASE OLookup(v.tab, v.at, names, m) = Pending
      BY <1>1, <2>1, <2>2, <3>1 DEF Alike
    <3>2. CASE OLookup(v.tab, v.at, names, m) # Pending
      <4> DEFINE r == OLookup(v.tab, v.at, names, m)
      <4>1. a = [v EXCEPT !.answer = r] /\ b = [w EXCEPT !.answer = r]
        BY <1>1, <1>4, <2>2, <2>4, <3>2 DEF Turn
      <4> HIDE DEF r
      <4>2. a.at = v.at /\ a.answer = r
        BY <4>1 DEF IsState
      <4>3. b.at = w.at /\ b.answer = r
        BY <4>1 DEF IsState
      <4>4. QED
        BY <1>1, <4>2, <4>3 DEF Alike
    <3>3. QED
      BY <3>1, <3>2
  <2>5. QED
    BY <2>3, <2>4
<1>5. QED
  BY <1>2, <1>3, <1>4

LEMMA LookupsAlike ==
  ASSUME NEW t, GoodTable(t), NEW u, GoodTable(u), NEW path \in Seq(Names), NEW m,
         NEW ok, Allocates(ok)
  PROVE  Alike(BxLookup(t, path, m, ok), BxLookup(u, path, m, ok))
<1> DEFINE v == Walk(t, path, m, ok)
           w == Walk(u, path, m, ok)
           S == {i \in Nat : i <= Len(path) => Alike(v[i], w[i])}
<1>1. Len(path) \in Nat
  BY LenProperties
<1>2. v[0] = Start(t) /\ \A i \in 1..Len(path) : v[i] = Step(v[i - 1], path, i, m, ok)
  BY <1>1, WalkSteps
<1>3. w[0] = Start(u) /\ \A i \in 1..Len(path) : w[i] = Step(w[i - 1], path, i, m, ok)
  BY <1>1, WalkSteps
<1>4. BxLookup(t, path, m, ok) = v[Len(path)] /\ BxLookup(u, path, m, ok) = w[Len(path)]
  BY <1>1, WalkSteps
<1>5. \A i \in 0..Len(path) : IsState(v[i]) /\ GoodWalk(v[i])
  BY WalkGood
<1>6. \A i \in 0..Len(path) : IsState(w[i]) /\ GoodWalk(w[i])
  BY WalkGood
<1> HIDE DEF v, w
<1>7. 0 \in S
  BY <1>2, <1>3 DEF Start, Alike
<1>8. ASSUME NEW i \in Nat, i \in S
      PROVE  i + 1 \in S
  <2>1. SUFFICES ASSUME i + 1 <= Len(path)
                 PROVE  Alike(v[i + 1], w[i + 1])
    OBVIOUS
  <2>2. i + 1 \in 1..Len(path) /\ i + 1 - 1 = i /\ i \in 0..Len(path)
    BY <1>1, <2>1
  <2> DEFINE names == SubSeq(path, i + 1, Len(path))
  <2>3. Alike(v[i], w[i])
    BY <1>8, <2>2
  <2>4. v[i + 1] = Step(v[i], path, i + 1, m, ok) /\ w[i + 1] = Step(w[i], path, i + 1, m, ok)
    BY <1>2, <1>3, <2>2
  <2>5. names[1] \in Names
    BY <2>2, NamesLeft
  <2>6. v[i].answer = w[i].answer
    BY <2>3 DEF Alike
  <2>7. CASE v[i].answer = Pending
    <3>1. v[i + 1] = Turn(v[i], names, m, ok) /\ w[i + 1] = Turn(w[i], names, m, ok)
      BY <2>4, <2>6, <2>7 DEF Step
    <3>2. IsState(v[i]) /\ GoodWalk(v[i])
      BY <1>5, <2>2
    <3>3. IsState(w[i]) /\ GoodWalk(w[i])
      BY <1>6, <2>2
    <3> HIDE DEF names
    <3>4. Alike(Turn(v[i], names, m, ok), Turn(w[i], names, m, ok))
      BY <2>3, <2>5, <2>7, <3>2, <3>3, TurnsAlike DEF Allocates
    <3>5. QED
      BY <3>1, <3>4
  <2>8. CASE v[i].answer # Pending
    BY <2>3, <2>4, <2>6, <2>8 DEF Step
  <2>9. QED
    BY <2>7, <2>8
<1>9. Nat \subseteq S
  BY <1>7, <1>8, AllNumbers
<1>10. Len(path) \in S
  BY <1>1, <1>9
<1> HIDE DEF S
<1>11. Alike(v[Len(path)], w[Len(path)])
  BY <1>1, <1>10 DEF S
<1>12. QED
  BY <1>4, <1>11

(* Lookups that end alike are answered alike. *)
LEMMA HandledAlike ==
  ASSUME NEW t, GoodTable(t), NEW u, GoodTable(u), NEW p \in Seq(Names), NEW q \in Seq(Names),
         NEW m, NEW ok, Alike(BxLookup(t, p, m, ok), BxLookup(u, q, m, ok))
  PROVE  BxHandle(t, p, m, ok) = BxHandle(u, q, m, ok)
<1> DEFINE v == BxLookup(t, p, m, ok)
           w == BxLookup(u, q, m, ok)
<1>1. v.at = w.at /\ v.answer = w.answer
  BY DEF Alike
<1>2. GoodWalk(v)
  BY LookupGood
<1>3. GoodWalk(w)
  BY LookupGood
<1>4. BxHandle(t, p, m, ok) = IF v.answer # Pending THEN v.answer ELSE OMethod(v.tab[v.at], m)
  BY DEF BxHandle
<1>5. BxHandle(u, q, m, ok) = IF w.answer # Pending THEN w.answer ELSE OMethod(w.tab[w.at], m)
  BY DEF BxHandle
<1> HIDE DEF v, w
<1>6. v.tab[v.at] = w.tab[w.at]
  BY <1>1, <1>2, <1>3, SameEntry DEF GoodWalk
<1>7. QED
  BY <1>1, <1>4, <1>5, <1>6

(* Whatever requests have filled the table, each path is answered as over  *)
(* the entries of the start.                                               *)
THEOREM CacheAlwaysTransparent == Spec => []CacheTransparent
<1>1. EntriesInv => CacheTransparent
  <2>1. SUFFICES ASSUME EntriesInv, NEW path \in Paths, NEW m \in Methods
                 PROVE  BxHandle(entries, path, m, TRUE) = BxHandle(Static, path, m, TRUE)
    BY DEF CacheTransparent
  <2>2. GoodTable(entries) /\ GoodTable(Static) /\ path \in Seq(Names)
    BY <2>1, PathsOfNames DEF EntriesInv, GoodTable
  <2> DEFINE ok == TRUE
  <2>3. Allocates(ok)
    BY DEF Allocates
  <2> HIDE DEF ok
  <2>4. Alike(BxLookup(entries, path, m, ok), BxLookup(Static, path, m, ok))
    BY <2>2, <2>3, LookupsAlike
  <2>5. BxHandle(entries, path, m, ok) = BxHandle(Static, path, m, ok)
    BY <2>2, <2>4, HandledAlike
  <2>6. QED
    BY <2>5, Zenon DEF ok
<1>2. QED
  BY <1>1, EntriesInductive, PTL DEF Spec

-----------------------------------------------------------------------------
(* Walks that meet with the same names left end at the same place.         *)

LEMMA SameRest ==
  ASSUME NEW p \in Seq(Names), NEW q \in Seq(Names), NEW x \in 1..Len(p), NEW y \in 1..Len(q),
         Len(p) - x = Len(q) - y, \A j \in 0..Len(p) - x : p[x + j] = q[y + j]
  PROVE  SubSeq(p, x, Len(p)) = SubSeq(q, y, Len(q))
<1> DEFINE r == SubSeq(p, x, Len(p))
           u == SubSeq(q, y, Len(q))
           l == Len(p) - x + 1
<1>1. /\ Len(p) \in Nat /\ Len(q) \in Nat
      /\ \A j \in x..Len(p) : p[j] \in Names
      /\ \A j \in y..Len(q) : q[j] \in Names
  BY LenProperties, ElementOfSeq
<1>2. r \in Seq(Names) /\ Len(r) = l /\ \A j \in 1..l : r[j] = p[x + j - 1]
  BY <1>1, SubSeqProperties
<1>3. Len(q) - y + 1 = l /\ l \in Nat
  BY <1>1
<1>4. u \in Seq(Names) /\ Len(u) = l /\ \A j \in 1..l : u[j] = q[y + j - 1]
  BY <1>1, <1>3, SubSeqProperties
<1>5. ASSUME NEW j \in 1..l
      PROVE  r[j] = u[j]
  <2>1. j - 1 \in 0..Len(p) - x /\ x + j - 1 = x + (j - 1) /\ y + j - 1 = y + (j - 1)
    BY <1>1
  <2>2. p[x + (j - 1)] = q[y + (j - 1)]
    BY <2>1
  <2>3. QED
    BY <1>2, <1>4, <2>1, <2>2
<1> HIDE DEF r, u, l
<1>6. r = u
  BY <1>2, <1>4, <1>5, SeqEqual
<1>7. QED
  BY <1>6 DEF r, u

(* After the first a names of p come the same as after the first b of q.   *)
SameAfter(p, a, q, b) ==
  /\ a \in 0..Len(p) /\ b \in 0..Len(q) /\ Len(p) - a = Len(q) - b
  /\ \A j \in 1..Len(p) - a : p[a + j] = q[b + j]

LEMMA WalksMeet ==
  ASSUME NEW t, NEW p \in Seq(Names), NEW q \in Seq(Names), NEW m, NEW ok,
         NEW a, NEW b, SameAfter(p, a, q, b)
  PROVE  Walk(t, p, m, ok)[a] = Walk(t, q, m, ok)[b]
           => BxHandle(t, p, m, ok) = BxHandle(t, q, m, ok)
<1> DEFINE v == Walk(t, p, m, ok)
           w == Walk(t, q, m, ok)
           S == {i \in Nat : i <= Len(p) - a => v[a + i] = w[b + i]}
<1>1. Len(p) \in Nat /\ Len(q) \in Nat
  BY LenProperties
<1>2. v[0] = Start(t) /\ \A i \in 1..Len(p) : v[i] = Step(v[i - 1], p, i, m, ok)
  BY <1>1, WalkSteps
<1>3. w[0] = Start(t) /\ \A i \in 1..Len(q) : w[i] = Step(w[i - 1], q, i, m, ok)
  BY <1>1, WalkSteps
<1>4. BxLookup(t, p, m, ok) = v[Len(p)] /\ BxLookup(t, q, m, ok) = w[Len(q)]
  BY <1>1, WalkSteps, ZenonT(30)
<1> HIDE DEF v, w
<1>5. /\ a \in 0..Len(p) /\ b \in 0..Len(q) /\ Len(p) - a = Len(q) - b
      /\ \A j \in 1..Len(p) - a : p[a + j] = q[b + j]
  BY DEF SameAfter
<1>6. SUFFICES ASSUME v[a] = w[b]
               PROVE  BxHandle(t, p, m, ok) = BxHandle(t, q, m, ok)
  BY DEF v, w
<1>7. 0 \in S
  BY <1>5, <1>1, <1>6
<1>8. ASSUME NEW i \in Nat, i \in S
      PROVE  i + 1 \in S
  <2>1. SUFFICES ASSUME i + 1 <= Len(p) - a
                 PROVE  v[a + (i + 1)] = w[b + (i + 1)]
    OBVIOUS
  <2> DEFINE x == a + (i + 1)
             y == b + (i + 1)
  <2>2. /\ x \in 1..Len(p) /\ y \in 1..Len(q) /\ x - 1 = a + i /\ y - 1 = b + i
        /\ Len(p) - x = Len(q) - y
    BY <1>5, <1>1, <2>1
  <2>3. v[a + i] = w[b + i]
    BY <1>5, <1>1, <1>8, <2>1
  <2>4. ASSUME NEW j \in 0..Len(p) - x
        PROVE  p[x + j] = q[y + j]
    <3>1. i + 1 + j \in 1..Len(p) - a
      BY <1>5, <1>1, <2>1
    <3>2. p[a + (i + 1 + j)] = q[b + (i + 1 + j)]
      BY <1>5, <3>1
    <3>3. a + (i + 1 + j) = x + j /\ b + (i + 1 + j) = y + j
      BY <1>5, <1>1
    <3>4. QED
      BY <3>2, <3>3
  <2> HIDE DEF x, y
  <2>5. SubSeq(p, x, Len(p)) = SubSeq(q, y, Len(q))
    BY <2>2, <2>4, SameRest
  <2>6. v[x] = Step(v[a + i], p, x, m, ok) /\ w[y] = Step(w[b + i], q, y, m, ok)
    BY <1>2, <1>3, <2>2
  <2>7. v[x] = w[y]
    BY <2>3, <2>5, <2>6 DEF Step
  <2>8. QED
    BY <2>7 DEF x, y
<1>9. Nat \subseteq S
  BY <1>7, <1>8, AllNumbers
<1>10. Len(p) - a \in Nat /\ a + (Len(p) - a) = Len(p) /\ b + (Len(p) - a) = Len(q)
  BY <1>5, <1>1
<1>11. v[Len(p)] = w[Len(q)]
  BY <1>9, <1>10
<1>12. QED
  BY <1>4, <1>11 DEF BxHandle

(* Steps down to an entry that is there and back up. *)
At(t, e) == [at |-> e, answer |-> Pending, tab |-> t]

LEMMA StepDown ==
  ASSUME NEW t, NEW e, NEW path \in Seq(Names), NEW i \in 1..Len(path), NEW m, NEW ok,
         path[i] \notin {".", ".."}, Append(e, path[i]) \in DOMAIN t
  PROVE  Step(At(t, e), path, i, m, ok) = At(t, Append(e, path[i]))
<1> DEFINE names == SubSeq(path, i, Len(path))
           n == path[i]
           w == At(t, e)
<1>1. names[1] = n /\ n \notin {".", ".."} /\ Append(e, n) \in DOMAIN t
  BY NamesLeft
<1>2. w.answer = Pending /\ w.at = e /\ w.tab = t
  BY DEF At
<1>3. Step(w, path, i, m, ok) = Turn(w, names, m, ok)
  BY <1>2 DEF Step
<1>4. [w EXCEPT !.at = Append(e, n)] = At(t, Append(e, n))
  BY SMTT(30) DEF At
<1> HIDE DEF names, n, w
<1>5. Turn(w, names, m, ok) = [w EXCEPT !.at = Append(e, n)]
  BY <1>1, <1>2 DEF Turn
<1>6. QED
  BY <1>3, <1>4, <1>5 DEF n, w

LEMMA StepUp ==
  ASSUME NEW t, NEW e, NEW path \in Seq(Names), NEW i \in 1..Len(path), NEW m, NEW ok,
         path[i] = ".."
  PROVE  Step(At(t, e), path, i, m, ok) = At(t, t[e].parent)
<1> DEFINE names == SubSeq(path, i, Len(path))
           w == At(t, e)
<1>1. names[1] = ".."
  BY NamesLeft
<1>2. w.answer = Pending /\ w.at = e /\ w.tab = t
  BY DEF At
<1>3. Step(w, path, i, m, ok) = Turn(w, names, m, ok)
  BY <1>2 DEF Step
<1>4. [w EXCEPT !.at = t[e].parent] = At(t, t[e].parent)
  BY DEF At
<1> HIDE DEF names, w
<1>5. Turn(w, names, m, ok) = [w EXCEPT !.at = t[e].parent]
  BY <1>1, <1>2 DEF Turn
<1>6. QED
  BY <1>3, <1>4, <1>5 DEF w

-----------------------------------------------------------------------------
(* ".." goes back. *)

LEMMA WalkOf ==
  ASSUME NEW t, NEW path \in Seq(Names), NEW m, NEW ok
  PROVE  /\ Walk(t, path, m, ok)[0] = At(t, Root)
         /\ \A i \in 1..Len(path) :
              Walk(t, path, m, ok)[i] = Step(Walk(t, path, m, ok)[i - 1], path, i, m, ok)
<1>1. Len(path) \in Nat /\ Start(t) = At(t, Root)
  BY LenProperties DEF Start, At
<1>2. QED
  BY <1>1, WalkSteps

LEMMA AfterPrefix ==
  ASSUME NEW s \in Seq(Names), NEW path \in Seq(Names)
  PROVE  /\ s \o path \in Seq(Names) /\ Len(s \o path) = Len(s) + Len(path)
         /\ \A j \in 1..Len(s) : (s \o path)[j] = s[j]
         /\ SameAfter(s \o path, Len(s), path, 0)
<1> DEFINE p == s \o path
           l == Len(s)
           k == Len(path)
<1>1. /\ p \in Seq(Names) /\ Len(p) = l + k
      /\ \A j \in 1..l + k : p[j] = IF j <= l THEN s[j] ELSE path[j - l]
  BY ConcatProperties
<1>2. l \in Nat /\ k \in Nat
  BY LenProperties
<1> HIDE DEF p, l
<1>3. \A j \in 1..l : p[j] = s[j]
  BY <1>1, <1>2
<1>4. ASSUME NEW j \in 1..k
      PROVE  p[l + j] = path[0 + j]
  <2> DEFINE x == l + j
  <2>1. x \in 1..l + k /\ ~(x <= l) /\ x - l = j /\ 0 + j = j
    BY <1>2
  <2> HIDE DEF x
  <2>2. p[x] = path[x - l]
    BY <1>1, <2>1
  <2>3. QED
    BY <2>1, <2>2 DEF x
<1>5. l \in 0..Len(p) /\ 0 \in 0..k /\ Len(p) - l = k - 0 /\ Len(p) - l = k
  BY <1>1, <1>2
<1>6. SameAfter(p, l, path, 0)
  BY <1>4, <1>5 DEF SameAfter
<1>7. QED
  BY <1>1, <1>3, <1>6 DEF p, l

(* From the root ".." leads to the root. *)
LEMMA UpFromRoot ==
  ASSUME NEW t, GoodTable(t), NEW path \in Seq(Names), NEW m, NEW ok
  PROVE  BxHandle(t, <<"..">> \o path, m, ok) = BxHandle(t, path, m, ok)
<1> DEFINE up == <<"..">>
           p == up \o path
           walk == Walk(t, p, m, ok)
<1>1. up \in Seq(Names) /\ Len(up) = 1 /\ up[1] = ".."
  BY SomeNames
<1>2. t[Root].parent = Root
  <2>1. t[Root] = Static[Root] /\ Static[Root].parent = Root
    BY StaticEntries DEF GoodTable
  <2>2. QED
    BY <2>1
<1> HIDE DEF up
<1>3. Len(path) \in Nat
  BY LenProperties
<1>4. p \in Seq(Names) /\ Len(p) = 1 + Len(path) /\ p[1] = ".." /\ SameAfter(p, 1, path, 0)
  <2>1. /\ p \in Seq(Names) /\ Len(p) = Len(up) + Len(path)
        /\ (\A j \in 1..Len(up) : p[j] = up[j]) /\ SameAfter(p, Len(up), path, 0)
    BY <1>1, AfterPrefix
  <2>2. QED
    BY <1>1, <1>3, <2>1
<1> HIDE DEF p
<1>5. walk[0] = At(t, Root) /\ \A i \in 1..Len(p) : walk[i] = Step(walk[i - 1], p, i, m, ok)
  BY <1>4, WalkOf
<1>6. 1 \in 1..Len(p) /\ 1 - 1 = 0
  BY <1>3, <1>4
<1>7. walk[1] = At(t, Root)
  BY <1>2, <1>4, <1>5, <1>6, StepUp
<1>8. Walk(t, path, m, ok)[0] = At(t, Root)
  BY WalkOf
<1>9. BxHandle(t, p, m, ok) = BxHandle(t, path, m, ok)
  <2>1. Walk(t, p, m, ok)[1] = Walk(t, path, m, ok)[0]
    BY <1>7, <1>8
  <2>2. QED
    BY <1>4, <2>1, WalksMeet
<1>10. QED
  BY <1>9 DEF p, up

Has(t, e, parent) == e \in DOMAIN t /\ t[e].parent = parent

(* From an entry below the root it leads to the root. *)
LEMMA UpFromFirst ==
  ASSUME NEW t, GoodTable(t), NEW d \in Names \ {".", ".."},
         Has(t, <<d>>, Root), NEW path \in Seq(Names), NEW m, NEW ok
  PROVE  BxHandle(t, <<d>> \o <<"..">> \o path, m, ok) = BxHandle(t, path, m, ok)
<1> DEFINE down == <<d>> \o <<"..">>
           one == <<d>>
           p == down \o path
           walk == Walk(t, p, m, ok)
<1>1. down \in Seq(Names) /\ Len(down) = 2 /\ down[1] = d /\ down[2] = ".."
  BY SomeNames
<1>2. Append(Root, d) = one
  BY DEF Root
<1> HIDE DEF down, one
<1>3. Len(path) \in Nat
  BY LenProperties
<1>4. /\ p \in Seq(Names) /\ Len(p) = 2 + Len(path) /\ p[1] = d /\ p[2] = ".."
      /\ SameAfter(p, 2, path, 0)
  <2>1. /\ p \in Seq(Names) /\ Len(p) = Len(down) + Len(path)
        /\ (\A j \in 1..Len(down) : p[j] = down[j]) /\ SameAfter(p, Len(down), path, 0)
    BY <1>1, AfterPrefix
  <2>2. QED
    BY <1>1, <1>3, <2>1
<1> HIDE DEF p
<1>5. walk[0] = At(t, Root) /\ \A i \in 1..Len(p) : walk[i] = Step(walk[i - 1], p, i, m, ok)
  BY <1>4, WalkOf
<1> HIDE DEF walk
<1>6. 1 \in 1..Len(p) /\ 1 - 1 = 0 /\ 2 \in 1..Len(p) /\ 2 - 1 = 1
  BY <1>3, <1>4
<1>7. d \notin {".", ".."} /\ one \in DOMAIN t /\ t[one].parent = Root
  BY DEF one, Has
<1>8. walk[1] = At(t, one)
  <2>1. Append(Root, p[1]) = one
    BY <1>2, <1>4, <1>7
  <2>2. p[1] \notin {".", ".."} /\ Append(Root, p[1]) \in DOMAIN t
    BY <1>2, <1>4, <1>7, <2>1
  <2>3. Step(At(t, Root), p, 1, m, ok) = At(t, one)
    <3>1. p \in Seq(Names) /\ 1 \in 1..Len(p)
      BY <1>4, <1>6
    <3>2. Step(At(t, Root), p, 1, m, ok) = At(t, Append(Root, p[1]))
      BY <2>2, <3>1, StepDown
    <3>3. QED
      BY <2>1, <3>2
  <2>4. walk[1] = Step(walk[0], p, 1, m, ok)
    <3>1. walk[1] = Step(walk[1 - 1], p, 1, m, ok)
      BY <1>5, <1>6
    <3>2. QED
      BY <3>1
  <2>5. QED
    BY <1>5, <2>3, <2>4
<1>9. walk[2] = At(t, Root)
  BY <1>4, <1>5, <1>6, <1>7, <1>8, StepUp
<1>10. Walk(t, path, m, ok)[0] = At(t, Root)
  BY WalkOf
<1>11. BxHandle(t, p, m, ok) = BxHandle(t, path, m, ok)
  <2>1. Walk(t, p, m, ok)[2] = Walk(t, path, m, ok)[0]
    BY <1>9, <1>10 DEF walk
  <2>2. QED
    BY <1>4, <2>1, WalksMeet
<1>12. QED
  BY <1>11 DEF p, down

(* From an entry below the first names it leads back to theirs. *)
LEMMA UpFromSecond ==
  ASSUME NEW t, GoodTable(t), NEW d \in Names \ {".", ".."}, NEW x \in Names \ {".", ".."},
         Has(t, <<d>>, Root), Has(t, <<d, x>>, <<d>>),
         NEW path \in Seq(Names), NEW m, NEW ok
  PROVE  BxHandle(t, <<d, x>> \o <<"..">> \o path, m, ok) = BxHandle(t, <<d>> \o path, m, ok)
<1> DEFINE down == <<d, x>> \o <<"..">>
           one == <<d>>
           two == <<d, x>>
           p == down \o path
           q == one \o path
           v == Walk(t, p, m, ok)
           w == Walk(t, q, m, ok)
<1>1. /\ down \in Seq(Names) /\ Len(down) = 3
      /\ down[1] = d /\ down[2] = x /\ down[3] = ".."
  BY SomeNames
<1>2. one \in Seq(Names) /\ Len(one) = 1 /\ one[1] = d
  OBVIOUS
<1>3. Append(Root, d) = one
  BY DEF Root
<1>4. Append(one, x) = two
  <2>1. d \in Names /\ x \in Names
    OBVIOUS
  <2> HIDE DEF two
  <2>2. Append(one, x) = two <=> one = <<d>> /\ x = x
    BY <1>2, <2>1, AppendToOne DEF two
  <2>3. QED
    BY <2>2
<1>5. d \notin {".", ".."} /\ x \notin {".", ".."}
  OBVIOUS
<1>6. one \in DOMAIN t /\ two \in DOMAIN t /\ t[two].parent = one
  BY DEF Has
<1> HIDE DEF down, one, two
<1>7. Len(path) \in Nat
  BY LenProperties
<1>8. /\ p \in Seq(Names) /\ Len(p) = 3 + Len(path) /\ p[1] = d /\ p[2] = x /\ p[3] = ".."
      /\ SameAfter(p, 3, path, 0)
  <2>1. /\ p \in Seq(Names) /\ Len(p) = Len(down) + Len(path)
        /\ (\A j \in 1..Len(down) : p[j] = down[j]) /\ SameAfter(p, Len(down), path, 0)
    BY <1>1, AfterPrefix
  <2>2. QED
    BY <1>1, <1>7, <2>1
<1>9. q \in Seq(Names) /\ Len(q) = 1 + Len(path) /\ q[1] = d /\ SameAfter(q, 1, path, 0)
  <2>1. /\ q \in Seq(Names) /\ Len(q) = Len(one) + Len(path)
        /\ (\A j \in 1..Len(one) : q[j] = one[j]) /\ SameAfter(q, Len(one), path, 0)
    BY <1>2, AfterPrefix
  <2>2. QED
    BY <1>2, <1>7, <2>1
<1> HIDE DEF p, q
<1>10. SameAfter(p, 3, q, 1)
  <2>1. Len(p) - 3 = Len(path) /\ Len(q) - 1 = Len(path) /\ 3 \in 0..Len(p) /\ 1 \in 0..Len(q)
    BY <1>7, <1>8, <1>9
  <2>2. \A j \in 1..Len(p) - 3 : p[3 + j] = path[0 + j]
    BY <1>8 DEF SameAfter
  <2>3. \A j \in 1..Len(q) - 1 : q[1 + j] = path[0 + j]
    BY <1>9 DEF SameAfter
  <2>4. QED
    BY <2>1, <2>2, <2>3 DEF SameAfter
<1>11. v[0] = At(t, Root) /\ \A i \in 1..Len(p) : v[i] = Step(v[i - 1], p, i, m, ok)
  BY <1>8, WalkOf
<1>12. w[0] = At(t, Root) /\ \A i \in 1..Len(q) : w[i] = Step(w[i - 1], q, i, m, ok)
  BY <1>9, WalkOf
<1> HIDE DEF v, w
<1>13. /\ 1 \in 1..Len(p) /\ 1 - 1 = 0 /\ 2 \in 1..Len(p) /\ 2 - 1 = 1
       /\ 3 \in 1..Len(p) /\ 3 - 1 = 2 /\ 1 \in 1..Len(q)
  BY <1>7, <1>8, <1>9
<1>14. v[1] = At(t, one)
  <2>1. Append(Root, p[1]) = one
    BY <1>3, <1>5, <1>6, <1>8
  <2>2. p[1] \notin {".", ".."} /\ Append(Root, p[1]) \in DOMAIN t
    BY <1>3, <1>5, <1>6, <1>8, <2>1
  <2>3. Step(At(t, Root), p, 1, m, ok) = At(t, one)
    <3>1. p \in Seq(Names) /\ 1 \in 1..Len(p)
      BY <1>8, <1>13
    <3>2. Step(At(t, Root), p, 1, m, ok) = At(t, Append(Root, p[1]))
      BY <2>2, <3>1, StepDown
    <3>3. QED
      BY <2>1, <3>2
  <2>4. v[1] = Step(v[0], p, 1, m, ok)
    BY <1>11, <1>13
  <2>5. QED
    BY <1>11, <2>3, <2>4
<1>15. v[2] = At(t, two)
  <2>1. Append(one, p[2]) = two
    BY <1>4, <1>5, <1>6, <1>8
  <2>2. p[2] \notin {".", ".."} /\ Append(one, p[2]) \in DOMAIN t
    BY <1>4, <1>5, <1>6, <1>8, <2>1
  <2>3. Step(At(t, one), p, 2, m, ok) = At(t, two)
    <3>1. p \in Seq(Names) /\ 2 \in 1..Len(p)
      BY <1>8, <1>13
    <3>2. Step(At(t, one), p, 2, m, ok) = At(t, Append(one, p[2]))
      BY <2>2, <3>1, StepDown
    <3>3. QED
      BY <2>1, <3>2
  <2>4. v[2] = Step(v[1], p, 2, m, ok)
    BY <1>11, <1>13
  <2>5. QED
    BY <1>14, <2>3, <2>4
<1>16. v[3] = At(t, one)
  <2>1. Step(At(t, two), p, 3, m, ok) = At(t, one)
    <3>1. Step(At(t, two), p, 3, m, ok) = At(t, t[two].parent)
      BY <1>8, <1>13, StepUp
    <3>2. QED
      BY <1>6, <3>1
  <2>2. v[3] = Step(v[2], p, 3, m, ok)
    BY <1>11, <1>13
  <2>3. QED
    BY <1>15, <2>1, <2>2
<1>17. w[1] = At(t, one)
  <2>1. Append(Root, q[1]) = one
    BY <1>3, <1>5, <1>6, <1>9
  <2>2. q[1] \notin {".", ".."} /\ Append(Root, q[1]) \in DOMAIN t
    BY <1>3, <1>5, <1>6, <1>9, <2>1
  <2>3. Step(At(t, Root), q, 1, m, ok) = At(t, one)
    <3>1. q \in Seq(Names) /\ 1 \in 1..Len(q)
      BY <1>9, <1>13
    <3>2. Step(At(t, Root), q, 1, m, ok) = At(t, Append(Root, q[1]))
      BY <2>2, <3>1, StepDown
    <3>3. QED
      BY <2>1, <3>2
  <2>4. w[1] = Step(w[0], q, 1, m, ok)
    BY <1>12, <1>13
  <2>5. QED
    BY <1>12, <2>3, <2>4
<1>18. BxHandle(t, p, m, ok) = BxHandle(t, q, m, ok)
  <2>1. Walk(t, p, m, ok)[3] = Walk(t, q, m, ok)[1]
    BY <1>16, <1>17 DEF v, w
  <2>2. QED
    BY <1>8, <1>9, <1>10, <2>1, WalksMeet
<1>19. QED
  BY <1>18 DEF p, q, down, one

LEMMA FirstOfTwo ==
  ASSUME NEW d \in Names, NEW x \in Names
  PROVE  SubSeq(<<d, x>>, 1, Len(<<d, x>>) - 1) = <<d>>
<1> DEFINE one == <<d>>
           two == <<d, x>>
<1>1. one \in Seq(Names) /\ Len(one) = 1 /\ one[1] = d
  OBVIOUS
<1>2. Len(two) = 2 /\ two[1] = d
  OBVIOUS
<1> HIDE DEF one, two
<1> DEFINE first == SubSeq(two, 1, 1)
<1>3. \A i \in 1..1 : two[i] \in Names
  BY <1>2
<1>4. first \in Seq(Names) /\ Len(first) = 1 /\ \A i \in 1..1 : first[i] = two[1 + i - 1]
  BY <1>3, SubSeqProperties
<1>5. first[1] = d
  BY <1>2, <1>4
<1> HIDE DEF first
<1>6. first = one
  BY <1>1, <1>4, <1>5, SeqEqual
<1>7. Len(two) - 1 = 1
  BY <1>2
<1>8. QED
  BY <1>6, <1>7 DEF first, one, two

(* From wherever a walk may stand, ".." goes back to where it came from    *)
(* and the rest of the path is answered from there.                        *)
THEOREM DotDotAlwaysReturns == Spec => []DotDotReturns
<1>1. EntriesInv => DotDotReturns
  <2> DEFINE ok == TRUE
             to(p, m) == BxHandle(entries, p, m, ok)
  <2> HIDE DEF ok
  <2>1. SUFFICES ASSUME EntriesInv, NEW path \in Paths, NEW m \in Methods
                 PROVE  /\ to(<<"..">> \o path, m) = to(path, m)
                        /\ \A e \in DOMAIN entries \ {Root} :
                             to(e \o <<"..">> \o path, m) = to(SubSeq(e, 1, Len(e) - 1) \o path, m)
    BY DEF DotDotReturns, ok
  <2>2. GoodTable(entries) /\ path \in Seq(Names)
    BY <2>1, PathsOfNames DEF EntriesInv
  <2>3. to(<<"..">> \o path, m) = to(path, m)
    BY <2>2, UpFromRoot
  <2>4. ASSUME NEW e \in DOMAIN entries, e # Root, e \in DOMAIN Static
        PROVE  to(e \o <<"..">> \o path, m) = to(SubSeq(e, 1, Len(e) - 1) \o path, m)
    <3>1. PICK d \in Names \ {".", ".."} : e = <<d>>
      BY <2>4, StaticEntries
    <3>2. entries[e].parent = Root
      <4>1. entries[e] = Static[e] /\ Static[e].parent = Root
        BY <2>2, <2>4, StaticEntries DEF GoodTable
      <4>2. QED
        BY <4>1
    <3>3. to(<<d>> \o <<"..">> \o path, m) = to(path, m)
      <4>1. Has(entries, <<d>>, Root)
        BY <2>4, <3>1, <3>2 DEF Has
      <4>2. QED
        BY <2>2, <4>1, UpFromFirst
    <3>4. SubSeq(<<d>>, 1, Len(<<d>>) - 1) = <<>>
      BY SubSeqEmpty
    <3>5. <<>> \o path = path
      BY <2>2, ConcatEmptySeq
    <3>6. QED
      BY <3>1, <3>3, <3>4, <3>5
  <2>5. ASSUME NEW e \in DOMAIN entries, e # Root, e \notin DOMAIN Static
        PROVE  to(e \o <<"..">> \o path, m) = to(SubSeq(e, 1, Len(e) - 1) \o path, m)
    <3>1. Lasting(e) /\ entries[e] = Entry(<<e[1]>>, e[1], e[2])
      BY <2>2, <2>5 DEF GoodTable
    <3> DEFINE d == e[1]
               x == e[2]
    <3>2. /\ e = <<d, x>> /\ x \in Names \ {".", ".."} /\ d \in Names /\ d \in LastingDirs
          /\ <<d>> \in DOMAIN Static
      BY <3>1, LastingEntry
    <3>3. d \notin {".", ".."}
      BY <3>2 DEF LastingDirs
    <3>4. /\ entries[e].parent = <<d>>
          /\ <<d>> \in DOMAIN entries /\ entries[<<d>>].parent = Root
      <4>1. entries[e].parent = <<d>>
        BY <3>1, EntryFields
      <4>2. <<d>> \in DOMAIN entries /\ entries[<<d>>] = Static[<<d>>]
        BY <2>2, <3>2 DEF GoodTable
      <4>3. Static[<<d>>].parent = Root
        BY <3>2, StaticEntries
      <4>4. QED
        BY <4>1, <4>2, <4>3
    <3> HIDE DEF d, x
    <3>5. to(<<d, x>> \o <<"..">> \o path, m) = to(<<d>> \o path, m)
      <4>1. Has(entries, <<d, x>>, <<d>>)
        BY <2>5, <3>2, <3>4 DEF Has
      <4>2. Has(entries, <<d>>, Root)
        BY <3>4 DEF Has
      <4>3. QED
        BY <2>2, <3>2, <3>3, <4>1, <4>2, UpFromSecond
    <3>6. SubSeq(<<d, x>>, 1, Len(<<d, x>>) - 1) = <<d>>
      BY <3>2, FirstOfTwo
    <3>7. QED
      BY <3>2, <3>5, <3>6
  <2>6. QED
    BY <2>3, <2>4, <2>5
<1>2. QED
  BY <1>1, EntriesInductive, PTL DEF Spec
=============================================================================
