--------------------------- MODULE CollectorProofs ---------------------------
(***************************************************************************)
(* Theorems about the collector between Lustre and the master, for any     *)
(* targets, nids and bounds: what it reports of itself is true, what it    *)
(* sends is exact, and what the master adds up is never more than there    *)
(* was.                                                                    *)
(***************************************************************************)
EXTENDS Servd, Clusd, FiniteSetTheorems, SequenceTheorems, WellFoundedInduction, TLAPS

Counter == Nat \cup {Absent}
Table == [Lxts -> [Nids -> Counter]]

-----------------------------------------------------------------------------
(* The units of traffic of a nid that are in a file e and above the        *)
(* baseline t there, each a pair of the target and the number of the unit. *)
(* A file that was reset is below its baseline and has none.               *)
Unread(e, t, n) ==
  {u \in Lxts \X Nat : /\ t[u[1]][n] # Absent
                       /\ t[u[1]][n] < u[2] /\ u[2] <= e[u[1]][n]}

LEMMA UnreadFinite ==
  ASSUME NEW e \in Table, NEW t \in Table, NEW n \in Nids, NEW c \in Nat,
         \A l \in Lxts : e[l][n] <= c
  PROVE  IsFiniteSet(Unread(e, t, n)) /\ Cardinality(Unread(e, t, n)) \in Nat
<1>1. IsFiniteSet(0..c)
  BY FS_Interval
<1>2. IsFiniteSet(Lxts \X (0..c))
  BY <1>1, FS_Product, BoundsAssumption
<1>3. \A l \in Lxts : e[l][n] \in Counter
  BY DEF Table
<1>4. Unread(e, t, n) \subseteq Lxts \X (0..c)
  <2>1. ASSUME NEW u \in Unread(e, t, n)
        PROVE  u[1] \in Lxts /\ u[2] \in 0..c /\ u = <<u[1], u[2]>>
    BY <1>3 DEF Unread, Counter, Absent
  <2>2. QED
    BY <2>1
<1>5. IsFiniteSet(Unread(e, t, n))
  BY <1>2, <1>4, FS_Subset
<1>6. QED
  BY <1>5, FS_CardinalityType

(* A unit of traffic adds at most itself.                                  *)
LEMMA TrafficAdds ==
  ASSUME NEW e \in Table, NEW t \in Table, NEW n \in Nids, NEW l \in Lxts,
         IsFiniteSet(Unread(e, t, n))
  PROVE  LET f == [e EXCEPT ![l][n] = @ + 1]
         IN Cardinality(Unread(f, t, n)) <= Cardinality(Unread(e, t, n)) + 1
<1> DEFINE f == [e EXCEPT ![l][n] = @ + 1]
           unit == <<l, e[l][n] + 1>>
           more == Unread(e, t, n) \cup {unit}
<1>1. IsFiniteSet(more) /\ Cardinality(more) <= Cardinality(Unread(e, t, n)) + 1
  <2> HIDE DEF unit
  <2>1. Cardinality(Unread(e, t, n)) \in Nat
    BY FS_CardinalityType
  <2>2. IsFiniteSet(more)
    BY FS_AddElement
  <2>3. Cardinality(more) = IF unit \in Unread(e, t, n) THEN Cardinality(Unread(e, t, n))
                            ELSE Cardinality(Unread(e, t, n)) + 1
    BY FS_AddElement
  <2> HIDE DEF more
  <2>4. QED
    BY <2>1, <2>2, <2>3
<1>2. \A k \in Lxts : f[k][n] = IF k = l THEN e[l][n] + 1 ELSE e[k][n]
  BY DEF Table
<1>3. \A k \in Lxts : e[k][n] \in Counter /\ t[k][n] \in Counter
  BY DEF Table
<1> HIDE DEF f
<1>4. Unread(f, t, n) \subseteq more
  <2>1. ASSUME NEW u \in Unread(f, t, n)
        PROVE  u \in more
    <3>1. u[1] \in Lxts /\ u[2] \in Nat /\ u = <<u[1], u[2]>>
      BY DEF Unread
    <3>2. CASE u[1] = l /\ u[2] = e[l][n] + 1
      BY <3>1, <3>2
    <3>3. CASE ~(u[1] = l /\ u[2] = e[l][n] + 1)
      <4>1. u[2] <= e[u[1]][n]
        BY <1>2, <1>3, <3>1, <3>3 DEF Unread, Counter, Absent
      <4>2. u \in Unread(e, t, n)
        BY <3>1, <4>1 DEF Unread
      <4>3. QED
        BY <4>2
    <3>4. QED
      BY <3>2, <3>3
  <2>2. QED
    BY <2>1
<1> HIDE DEF more
<1>5. Cardinality(Unread(f, t, n)) <= Cardinality(more)
  BY <1>1, <1>4, FS_Subset
<1>6. IsFiniteSet(Unread(f, t, n))
  BY <1>1, <1>4, FS_Subset
<1>7. QED
  BY <1>1, <1>5, <1>6, FS_CardinalityType DEF f

LEMMA SpanCount ==
  ASSUME NEW a \in Int, NEW b \in Int, a <= b
  PROVE  Cardinality(a + 1..b) = b - a
<1>1. Cardinality(a + 1..b) = IF a + 1 > b THEN 0 ELSE b - (a + 1) + 1
  BY FS_Interval
<1> DEFINE c == Cardinality(a + 1..b)
<1> HIDE DEF c
<1>2. c = IF a + 1 > b THEN 0 ELSE b - (a + 1) + 1
  BY <1>1 DEF c
<1>3. c = b - a
  BY <1>2
<1>4. QED
  BY <1>3 DEF c

(* Reading a file takes all its units, as many as the difference says; if  *)
(* the file was reset the difference is negative and there are none.       *)
LEMMA ReadTakes ==
  ASSUME NEW e \in Table, NEW t \in Table, NEW n \in Nids, NEW l \in Lxts,
         e[l][n] # Absent, IsFiniteSet(Unread(e, t, n))
  PROVE  LET r == [t EXCEPT ![l][n] = e[l][n]] IN
         /\ IsFiniteSet(Unread(e, r, n))
         /\ Cardinality(Unread(e, r, n)) <= Cardinality(Unread(e, t, n))
         /\ t[l][n] # Absent =>
              Cardinality(Unread(e, r, n)) + e[l][n] - t[l][n]
                <= Cardinality(Unread(e, t, n))
<1> DEFINE r == [t EXCEPT ![l][n] = e[l][n]]
           taken == {l} \X (t[l][n] + 1..e[l][n])
           U1 == Unread(e, t, n)
           U2 == Unread(e, r, n)
<1>1. e[l][n] \in Nat /\ t[l][n] \in Counter /\ t[l][n] \in Int /\ t[l][n] + 1 \in Int
  BY DEF Table, Counter, Absent
<1>2. \A k \in Lxts : r[k][n] = IF k = l THEN e[l][n] ELSE t[k][n]
  BY DEF Table
<1>3. \A k \in Lxts : e[k][n] \in Counter /\ t[k][n] \in Counter
  BY DEF Table
<1> HIDE DEF r
<1>4. U2 = {u \in U1 : u[1] # l}
  BY <1>2, <1>3 DEF Unread, Counter, Absent
<1>5. U2 \subseteq U1
  BY <1>4
<1>6. IsFiniteSet(U2) /\ Cardinality(U2) <= Cardinality(U1)
      /\ Cardinality(U2) \in Nat /\ Cardinality(U1) \in Nat
  BY <1>5, FS_Subset, FS_CardinalityType
<1>7. ASSUME t[l][n] # Absent, t[l][n] <= e[l][n]
      PROVE  Cardinality(U2) + e[l][n] - t[l][n] <= Cardinality(U1)
  <2>1. taken \subseteq U1
    <3>1. ASSUME NEW u \in taken
          PROVE  u \in U1
      <4>1. u[1] = l /\ u[2] \in Nat /\ t[l][n] < u[2] /\ u[2] <= e[l][n] /\ u = <<u[1], u[2]>>
        BY <1>1 DEF Counter, Absent
      <4>2. QED
        BY <1>7, <4>1 DEF Unread
    <3>2. QED
      BY <3>1
  <2>2. U1 \ taken = U2
    <3>1. ASSUME NEW u \in U1, u[1] = l
          PROVE  u \in taken
      <4>1. u[2] \in Nat /\ u = <<u[1], u[2]>> /\ t[l][n] < u[2] /\ u[2] <= e[l][n]
        BY <3>1 DEF Unread
      <4>2. QED
        BY <1>1, <3>1, <4>1 DEF Counter, Absent
    <3>2. \A u \in taken : u[1] = l
      OBVIOUS
    <3> HIDE DEF taken
    <3>3. QED
      BY <1>4, <3>1, <3>2
  <2>3. Cardinality(taken) = e[l][n] - t[l][n]
    <3> DEFINE span == t[l][n] + 1..e[l][n]
    <3>1. IsFiniteSet(span)
      BY <1>1, FS_Interval
    <3>2. Cardinality(span) = e[l][n] - t[l][n]
      BY <1>1, <1>7, SpanCount
    <3>3. IsFiniteSet({l}) /\ Cardinality({l}) = 1
      BY FS_Singleton
    <3> HIDE DEF span
    <3>4. Cardinality({l} \X span) = 1 * Cardinality(span)
      BY <3>1, <3>3, FS_Product
    <3>5. QED
      BY <1>1, <3>2, <3>4 DEF span, Counter, Absent
  <2> HIDE DEF taken
  <2>4. Cardinality(U1 \ taken) = Cardinality(U1) - Cardinality(U1 \cap taken)
    BY FS_Difference
  <2>5. U1 \cap taken = taken
    BY <2>1
  <2>6. Cardinality(U2) = Cardinality(U1) - Cardinality(taken)
    BY <2>2, <2>4, <2>5
  <2> HIDE DEF U1, U2
  <2>7. QED
    BY <1>1, <1>6, <2>3, <2>6
<1>8. ASSUME t[l][n] # Absent, ~(t[l][n] <= e[l][n])
      PROVE  Cardinality(U2) + e[l][n] - t[l][n] <= Cardinality(U1)
  BY <1>1, <1>6, <1>8 DEF Counter, Absent
<1>9. QED
  BY <1>6, <1>7, <1>8 DEF r

-----------------------------------------------------------------------------
(* The types of servd's tables.                                            *)

ServdType ==
  /\ TypeOK
  /\ reading \in [lxt: Lxts \cup {Absent}, nids: SUBSET Nids]
  /\ \A l \in Lxts, n \in Nids : exp[l][n] <= traffic[n]

LEMMA InitType == Init => ServdType
<1> SUFFICES ASSUME Init PROVE ServdType
  OBVIOUS
<1>1. exp \in Table /\ ts \in Table
  BY DEF Init, NoCounters, Table, Counter
<1>2. reading \in [lxt: Lxts \cup {Absent}, nids: SUBSET Nids]
  BY DEF Init, NotReading
<1>3. \A l \in Lxts, n \in Nids : exp[l][n] <= traffic[n]
  BY DEF Init, Absent
<1>4. ns \in [DOMAIN ns -> Int] /\ cur \subseteq DOMAIN ns /\ DOMAIN ns \subseteq Nids
  BY DEF Init
<1>5. QED
  BY <1>1, <1>2, <1>3, <1>4 DEF Init, ServdType, TypeOK, Table, Counter, Idle

(* Only Lustre changes its files, and the counters of a file never exceed  *)
(* what its client did.                                                    *)
LEMMA LustreType ==
  ASSUME ServdType, Lustre
  PROVE  ServdType'
<1>1. exp \in Table /\ traffic \in [Nids -> Nat]
  BY DEF ServdType, TypeOK, Table, Counter
<1>2. ASSUME NEW l \in Lxts, NEW n \in Nids, Traffic(l, n)
      PROVE  /\ exp' \in Table /\ traffic' \in [Nids -> Nat]
             /\ \A k \in Lxts, m \in Nids : exp'[k][m] <= traffic'[m]
             /\ UNCHANGED <<targets, servd, master>>
  <2>1. exp[l][n] \in Nat
    BY <1>1, <1>2 DEF Traffic, Table, Counter
  <2>2. exp' \in Table /\ traffic' \in [Nids -> Nat]
    BY <1>1, <1>2, <2>1 DEF Traffic, Table, Counter
  <2>3. \A k \in Lxts, m \in Nids : exp[k][m] \in Int /\ exp[k][m] <= traffic[m]
    BY <1>1 DEF ServdType, Table, Counter, Absent
  <2>4. \A k \in Lxts, m \in Nids :
          /\ exp'[k][m] = IF k = l /\ m = n THEN exp[k][m] + 1 ELSE exp[k][m]
          /\ traffic'[m] = IF m = n THEN traffic[m] + 1 ELSE traffic[m]
    BY <1>1, <1>2 DEF Traffic, Table
  <2>5. QED
    BY <1>1, <1>2, <2>2, <2>3, <2>4 DEF Traffic
<1>3. ASSUME NEW l \in Lxts, NEW n \in Nids, ExportComes(l, n) \/ ExportGoes(l, n)
      PROVE  /\ exp' \in Table /\ traffic' \in [Nids -> Nat]
             /\ \A k \in Lxts, m \in Nids : exp'[k][m] <= traffic'[m]
             /\ UNCHANGED <<targets, servd, master>>
  <2>1. exp' \in Table
    BY <1>1, <1>3 DEF ExportComes, ExportGoes, Table, Counter
  <2>2. \A k \in Lxts, m \in Nids : exp'[k][m] = exp[k][m] \/ exp'[k][m] \in {0, Absent}
    BY <1>1, <1>3 DEF ExportComes, ExportGoes, Table
  <2>3. QED
    BY <1>1, <1>3, <2>1, <2>2 DEF ServdType, ExportComes, ExportGoes, Absent
<1>4. ASSUME NEW l \in Lxts, TargetComes(l) \/ TargetGoes(l)
      PROVE  /\ exp' \in Table /\ traffic' \in [Nids -> Nat]
             /\ \A k \in Lxts, m \in Nids : exp'[k][m] <= traffic'[m]
             /\ targets' \subseteq Lxts
             /\ UNCHANGED <<servd, master>>
  <2>1. exp' \in Table
    BY <1>1, <1>4 DEF TargetComes, TargetGoes, Table, Counter
  <2>2. \A k \in Lxts, m \in Nids : exp'[k][m] = exp[k][m] \/ exp'[k][m] = Absent
    BY <1>1, <1>4 DEF TargetComes, TargetGoes, Table
  <2>3. targets' \subseteq Lxts
    BY <1>4 DEF ServdType, TypeOK, TargetComes, TargetGoes
  <2>4. QED
    BY <1>1, <1>4, <2>1, <2>2, <2>3 DEF ServdType, TargetComes, TargetGoes, Absent
<1>5. /\ exp' \in Table /\ traffic' \in [Nids -> Nat]
      /\ \A k \in Lxts, m \in Nids : exp'[k][m] <= traffic'[m]
      /\ targets' \subseteq Lxts
      /\ UNCHANGED <<servd, master>>
  BY <1>2, <1>3, <1>4 DEF Lustre, ServdType, TypeOK
<1>6. QED
  BY <1>5 DEF ServdType, TypeOK, servd, master, Table, Counter

(* What reading a file changes in the tables, whatever was read.           *)
LEMMA CollectNidType ==
  ASSUME ServdType, NEW n \in Nids, NEW stats \in Nat, reading # NotReading,
         LxtCollectNid(n, stats), UNCHANGED <<targets, exp, traffic>>
  PROVE  ServdType'
<1> DEFINE l == reading.lxt
<1>1. /\ l \in known /\ l \in Lxts /\ ts \in Table
      /\ reading \in [lxt: Lxts \cup {Absent}, nids: SUBSET Nids]
      /\ ns \in [DOMAIN ns -> Int] /\ cur \subseteq DOMAIN ns /\ DOMAIN ns \subseteq Nids
  BY DEF ServdType, TypeOK, Table, Counter
<1>2. /\ reading' \in [lxt: Lxts \cup {Absent}, nids: SUBSET Nids]
      /\ reading'.lxt = l /\ reading'.nids \subseteq Nids
  BY <1>1 DEF LxtCollectNid
<1>3. ts' \in Table
  BY <1>1 DEF LxtCollectNid, Baseline, Table, Counter
<1>4. ns' \in [DOMAIN ns' -> Int] /\ cur' \subseteq DOMAIN ns' /\ DOMAIN ns' \subseteq Nids
  <2>1. CASE ts[l][n] = Absent
    BY <1>1, <2>1 DEF LxtCollectNid
  <2>2. CASE ts[l][n] # Absent
    <3>1. ts[l][n] \in Nat
      BY <1>1, <2>2 DEF Table, Counter
    <3>2. Difference(l, n, stats) \in [DOMAIN ns \cup {n} -> Int]
      <4>1. (IF n \in cur THEN ns[n] ELSE 0) \in Int
        BY <1>1
      <4>2. (IF n \in cur THEN ns[n] ELSE 0) + stats - ts[l][n] \in Int
        BY <3>1, <4>1
      <4>3. QED
        BY <1>1, <4>2 DEF Difference
    <3>3. ns' = Difference(l, n, stats) /\ cur' = cur \cup {n}
      BY <2>2 DEF LxtCollectNid
    <3>4. QED
      BY <1>1, <3>2, <3>3
  <2>3. QED
    BY <2>1, <2>2
<1>5. UNCHANGED <<pc, known, tmp, todo, sched, config, total>>
  BY DEF LxtCollectNid, master
<1>6. QED
  BY <1>1, <1>2, <1>3, <1>4, <1>5 DEF ServdType, TypeOK, Table, Counter

LEMMA StepType ==
  ASSUME ServdType, Step
  PROVE  ServdType'
<1>1. CASE ClockCb
  BY <1>1 DEF ClockCb, ServdType, TypeOK, lustre, master, Idle
<1>2. ASSUME NEW l \in Lxts, LxtLookup(l)
      PROVE  ServdType'
  <2>1. reading' = NotReading \/ (reading'.lxt = l /\ reading'.nids \subseteq Nids)
    BY <1>2 DEF LxtLookup
  <2>2. reading' \in [lxt: Lxts \cup {Absent}, nids: SUBSET Nids]
    BY <1>2 DEF LxtLookup, NotReading
  <2>3. UNCHANGED <<targets, exp, traffic, pc, tmp, ts, ns, cur, sched, config, total>>
    BY <1>2 DEF LxtLookup, lustre, master
  <2>4. known' = known \cup {l} /\ todo' \subseteq todo
    BY <1>2 DEF LxtLookup
  <2>5. QED
    BY <2>1, <2>2, <2>3, <2>4 DEF ServdType, TypeOK
<1>3. ASSUME NEW n \in Nids, ReadsNid(n)
      PROVE  ServdType'
  <2>1. exp[reading.lxt][n] \in Nat
    BY <1>3 DEF ReadsNid, ServdType, TypeOK
  <2>2. QED
    BY <1>3, <2>1, CollectNidType DEF ReadsNid, lustre
<1>4. ASSUME NEW n \in Nids, ReadFails(n)
      PROVE  ServdType'
  BY <1>4, CollectNidType DEF ReadFails
<1>5. ASSUME NEW n \in Nids, ReadGivenUp(n)
      PROVE  ServdType'
  <2>1. /\ reading' \in [lxt: Lxts \cup {Absent}, nids: SUBSET Nids]
        /\ reading'.lxt = reading.lxt /\ reading'.nids \subseteq Nids
    BY <1>5 DEF ReadGivenUp, ServdType
  <2>2. UNCHANGED <<lustre, pc, known, tmp, todo, ts, ns, cur, sched, master>>
    BY <1>5 DEF ReadGivenUp
  <2>3. QED
    BY <1>5, <2>1, <2>2 DEF ReadGivenUp, ServdType, TypeOK, lustre, master
<1>6. CASE LxtCollected
  <2>1. reading' \in [lxt: Lxts \cup {Absent}, nids: SUBSET Nids]
    BY <1>6 DEF LxtCollected, NotReading
  <2>2. QED
    BY <1>6, <2>1 DEF LxtCollected, ServdType, TypeOK, lustre, master
<1>7. CASE KillUnseen
  <2>1. ts' \in Table
    BY <1>7 DEF KillUnseen, Forget, ServdType, TypeOK, Table, Counter
  <2>2. QED
    BY <1>7, <2>1 DEF KillUnseen, ServdType, TypeOK, lustre, master, Table, Counter
<1>8. CASE SendStats
  <2>1. total' \in [Nids -> Int]
    BY <1>8 DEF SendStats, ServdType, TypeOK
  <2>2. ns' \in [DOMAIN ns' -> Int] /\ cur' \subseteq DOMAIN ns' /\ DOMAIN ns' \subseteq Nids
    BY <1>8 DEF SendStats, ServdType, TypeOK
  <2>3. UNCHANGED <<targets, exp, traffic, known, tmp, todo, reading, ts, sched, config>>
        /\ pc' = "status"
    BY <1>8 DEF SendStats, lustre
  <2>4. QED
    BY <2>1, <2>2, <2>3 DEF ServdType, TypeOK
<1>9. CASE StatusAnswered \/ StatusUnanswered
  <2>1. sched' \in Schedules \cup {OwnSchedule}
    BY <1>9 DEF StatusAnswered, StatusUnanswered, Adopt, ServdType, TypeOK
  <2>2. UNCHANGED <<lustre, known, tmp, todo, reading, ts, ns, cur, master>> /\ pc' = Idle
    BY <1>9 DEF StatusAnswered, StatusUnanswered
  <2>3. QED
    BY <2>1, <2>2 DEF ServdType, TypeOK, lustre, master
<1>10. QED
  BY <1>1, <1>2, <1>3, <1>4, <1>5, <1>6, <1>7, <1>8, <1>9 DEF Step

LEMMA NextType == ServdType /\ [Next]_vars => ServdType'
<1> SUFFICES ASSUME ServdType, [Next]_vars PROVE ServdType'
  OBVIOUS
<1>1. ASSUME NEW c \in Schedules, MasterRestarts(c)
      PROVE  ServdType'
  <2>1. total' \in [Nids -> Int]
    BY <1>1 DEF MasterRestarts
  <2>2. QED
    BY <1>1, <2>1 DEF MasterRestarts, ServdType, TypeOK, lustre, servd
<1>2. CASE UNCHANGED vars
  BY <1>2 DEF vars, lustre, servd, master, ServdType, TypeOK
<1>3. QED
  BY <1>1, <1>2, LustreType, StepType DEF Next

LEMMA TypeAlways == Spec => []ServdType
BY InitType, NextType, PTL DEF Spec

-----------------------------------------------------------------------------
(* The counts that are kept beside the tables.                             *)

LEMMA TablesFinite ==
  ASSUME ServdType
  PROVE  /\ IsFiniteSet(DOMAIN ns) /\ IsFiniteSet(known)
         /\ Cardinality(DOMAIN ns) \in Nat /\ Cardinality(known) \in Nat
<1>1. DOMAIN ns \subseteq Nids /\ known \subseteq Lxts
  BY DEF ServdType, TypeOK
<1>2. IsFiniteSet(DOMAIN ns) /\ IsFiniteSet(known)
  BY <1>1, BoundsAssumption, FS_Subset
<1>3. QED
  BY <1>2, FS_CardinalityType

LEMMA CollectNidCounts ==
  ASSUME ServdType, StatusCounts, NEW n \in Nids, NEW stats, LxtCollectNid(n, stats)
  PROVE  StatusCounts'
<1> DEFINE l == reading.lxt
<1>1. UNCHANGED <<known, nrLxt>>
  BY DEF LxtCollectNid
<1>2. CASE ts[l][n] = Absent
  BY <1>1, <1>2, TablesFinite DEF LxtCollectNid, StatusCounts
<1>3. CASE ts[l][n] # Absent
  <2>1. DOMAIN ns' = DOMAIN ns \cup {n}
    BY <1>3 DEF LxtCollectNid, Difference
  <2>2. Cardinality(DOMAIN ns \cup {n})
          = IF n \in DOMAIN ns THEN Cardinality(DOMAIN ns) ELSE Cardinality(DOMAIN ns) + 1
    BY TablesFinite, FS_AddElement
  <2>3. nrNid' = nrNid + (IF n \in DOMAIN ns THEN 0 ELSE 1)
    BY <1>3 DEF LxtCollectNid
  <2>4. QED
    BY <1>1, <2>1, <2>2, <2>3, TablesFinite DEF StatusCounts
<1>4. QED
  BY <1>2, <1>3

LEMMA NextCounts == ServdType /\ StatusCounts /\ [Next]_vars => StatusCounts'
<1> SUFFICES ASSUME ServdType, StatusCounts, [Next]_vars PROVE StatusCounts'
  OBVIOUS
<1>1. ASSUME NEW l \in Lxts, LxtLookup(l)
      PROVE  StatusCounts'
  <2>1. known' = known \cup {l} /\ nrLxt' = nrLxt + (IF l \in known THEN 0 ELSE 1)
        /\ UNCHANGED <<ns, nrNid>>
    BY <1>1 DEF LxtLookup
  <2>2. Cardinality(known \cup {l})
          = IF l \in known THEN Cardinality(known) ELSE Cardinality(known) + 1
    BY TablesFinite, FS_AddElement
  <2>3. QED
    BY <2>1, <2>2, TablesFinite DEF StatusCounts
<1>2. ASSUME NEW n \in Nids, ReadsNid(n) \/ ReadFails(n)
      PROVE  StatusCounts'
  BY <1>2, CollectNidCounts DEF ReadsNid, ReadFails
<1>3. CASE KillUnseen
  <2>1. Cardinality(known \ tmp) = Cardinality(known) - Cardinality(known \cap tmp)
    BY TablesFinite, FS_Difference
  <2>2. known \cap tmp = tmp
    BY DEF ServdType, TypeOK
  <2>3. known' = known \ tmp /\ nrLxt' = nrLxt - Cardinality(tmp) /\ UNCHANGED <<ns, nrNid>>
    BY <1>3 DEF KillUnseen
  <2>4. QED
    BY <2>1, <2>2, <2>3 DEF StatusCounts
<1>4. CASE SendStats
  <2>1. Cardinality(DOMAIN ns \ cur) = Cardinality(DOMAIN ns) - Cardinality(DOMAIN ns \cap cur)
    BY TablesFinite, FS_Difference
  <2>2. DOMAIN ns \cap cur = cur /\ IsFiniteSet(cur)
    BY TablesFinite, FS_Subset DEF ServdType, TypeOK
  <2>3. Cardinality(cur) \in Nat
    BY <2>2, FS_CardinalityType
  <2>4. DOMAIN ns' = cur /\ nrNid' = nrNid - Cardinality(DOMAIN ns \ cur)
        /\ UNCHANGED <<known, nrLxt>>
    BY <1>4 DEF SendStats, StaleDeleted
  <2>5. Cardinality(DOMAIN ns \ cur) = Cardinality(DOMAIN ns) - Cardinality(cur)
    BY <2>1, <2>2
  <2>6. QED
    BY <2>3, <2>4, <2>5, TablesFinite DEF StatusCounts
<1>5. ASSUME UNCHANGED <<ns, nrNid, known, nrLxt>>
      PROVE  StatusCounts'
  BY <1>5 DEF StatusCounts
<1>6. CASE Step
  <2>1. ASSUME NEW n \in Nids, ReadGivenUp(n)
        PROVE  StatusCounts'
    BY <1>5, <2>1 DEF ReadGivenUp
  <2>2. CASE ClockCb \/ LxtCollected \/ StatusAnswered \/ StatusUnanswered
    BY <1>5, <2>2 DEF ClockCb, LxtCollected, StatusAnswered, StatusUnanswered
  <2>3. QED
    BY <1>1, <1>2, <1>3, <1>4, <1>6, <2>1, <2>2 DEF Step
<1>7. CASE Lustre
  BY <1>5, <1>7 DEF Lustre, Traffic, ExportComes, ExportGoes, TargetComes, TargetGoes, servd
<1>8. CASE \E c \in Schedules : MasterRestarts(c)
  BY <1>5, <1>8 DEF MasterRestarts, servd
<1>9. CASE UNCHANGED vars
  BY <1>5, <1>9 DEF vars, servd
<1>10. QED
  BY <1>6, <1>7, <1>8, <1>9 DEF Next

-----------------------------------------------------------------------------
(* What the master has counted, what servd has counted and not sent, and   *)
(* what is in the files and was not read.                                  *)

(* The difference of a nid that the round has taken and not sent.          *)
Unsent(n) == IF pc \in {"collect", "send"} /\ n \in cur THEN ns[n] ELSE 0

(* The traffic tr covers what is unread, with or without each of the two   *)
(* others: these may be negative after a reset, and a PUT that is lost or  *)
(* a restart of the master drops them.                                     *)
Covers(tr, tot, unsent, unread) ==
  /\ unread <= tr /\ unsent + unread <= tr
  /\ tot + unread <= tr /\ tot + unsent + unread <= tr

LeftToRead(n) == Cardinality(Unread(exp, ts, n))

TrafficCovers ==
  ~misread => \A n \in Nids : Covers(traffic[n], total[n], Unsent(n), LeftToRead(n))

(* The numbers involved, before and after a step. *)
LEMMA Numbers ==
  ASSUME ServdType, NEW n \in Nids
  PROVE  /\ IsFiniteSet(Unread(exp, ts, n)) /\ LeftToRead(n) \in Nat
         /\ traffic[n] \in Nat /\ total[n] \in Int /\ Unsent(n) \in Int
<1>1. exp \in Table /\ ts \in Table /\ traffic[n] \in Nat /\ \A l \in Lxts : exp[l][n] <= traffic[n]
  BY DEF ServdType, TypeOK, Table, Counter
<1>2. IsFiniteSet(Unread(exp, ts, n)) /\ LeftToRead(n) \in Nat
  BY <1>1, UnreadFinite DEF LeftToRead
<1>3. total[n] \in Int /\ Unsent(n) \in Int
  BY DEF ServdType, TypeOK, Unsent
<1>4. QED
  BY <1>1, <1>2, <1>3

LEMMA NumbersNext ==
  ASSUME ServdType', NEW n \in Nids
  PROVE  /\ LeftToRead(n)' \in Nat
         /\ traffic'[n] \in Nat /\ total'[n] \in Int /\ Unsent(n)' \in Int
<1>1. /\ exp' \in Table /\ ts' \in Table /\ traffic'[n] \in Nat
      /\ \A l \in Lxts : exp'[l][n] <= traffic'[n]
  BY DEF ServdType, TypeOK, Table, Counter
<1>2. Cardinality(Unread(exp', ts', n)) \in Nat
  BY <1>1, UnreadFinite
<1>3. LeftToRead(n)' = Cardinality(Unread(exp', ts', n))
  BY DEF LeftToRead, Unread
<1>4. total'[n] \in Int /\ Unsent(n)' \in Int
  BY DEF ServdType, TypeOK, Unsent
<1>5. QED
  BY <1>1, <1>2, <1>3, <1>4

(* A step after which no unit is unread that was not unread before. *)
LEMMA NothingNewUnread ==
  ASSUME ServdType, NEW n \in Nids, Unread(exp', ts', n) \subseteq Unread(exp, ts, n)
  PROVE  LeftToRead(n)' <= LeftToRead(n)
<1>1. IsFiniteSet(Unread(exp, ts, n))
  BY Numbers
<1>2. Cardinality(Unread(exp', ts', n)) <= Cardinality(Unread(exp, ts, n))
  BY <1>1, FS_Subset
<1>3. QED
  BY <1>2 DEF LeftToRead, Unread

(* A step keeps what was collected of n, forgets it or sends it, and the    *)
(* master keeps its total, adds what was sent or starts from zero.         *)
Settles(n) ==
  \/ Unsent(n)' = Unsent(n) /\ total'[n] \in {0, total[n]}
  \/ Unsent(n)' = 0 /\ total'[n] \in {total[n], total[n] + Unsent(n)}

(* A step that only makes units go unread or forgotten.                    *)
LEMMA StaysCovered ==
  ASSUME ServdType, ServdType', NEW n \in Nids,
         Covers(traffic[n], total[n], Unsent(n), LeftToRead(n)),
         LeftToRead(n)' <= LeftToRead(n),
         traffic'[n] = traffic[n],
         Settles(n)
  PROVE  Covers(traffic[n], total[n], Unsent(n), LeftToRead(n))'
<1> DEFINE a == LeftToRead(n)'
           b == LeftToRead(n)
           p == Unsent(n)'
           q == Unsent(n)
<1>1. /\ a \in Nat /\ b \in Nat /\ p \in Int /\ q \in Int
      /\ traffic[n] \in Nat /\ total[n] \in Int /\ total'[n] \in Int
  BY Numbers, NumbersNext
<1>2. Covers(traffic[n], total[n], q, b) /\ a <= b
  OBVIOUS
<1>3. \/ p = q /\ total'[n] \in {0, total[n]}
      \/ p = 0 /\ total'[n] \in {total[n], total[n] + q}
  BY DEF Settles
<1>4. traffic'[n] = traffic[n]
  OBVIOUS
<1> HIDE DEF a, b, p, q
<1>5. Covers(traffic'[n], total'[n], p, a)
  BY <1>1, <1>2, <1>3, <1>4 DEF Covers
<1>6. QED
  BY <1>5 DEF a, p, Covers

LEMMA InitCovers == Init => TrafficCovers
<1> SUFFICES ASSUME Init, NEW n \in Nids
             PROVE  Covers(traffic[n], total[n], Unsent(n), LeftToRead(n))
  BY DEF TrafficCovers
<1>1. Unread(exp, ts, n) = {}
  BY DEF Init, NoCounters, Unread
<1>2. LeftToRead(n) = 0
  BY <1>1, FS_EmptySet DEF LeftToRead
<1>3. Unsent(n) = 0 /\ traffic[n] = 0 /\ total[n] = 0
  BY DEF Init, Unsent, Idle
<1>4. QED
  BY <1>2, <1>3 DEF Covers

(* A client adds one to its traffic, and at most one unit to be read.      *)
LEMMA TrafficStaysCovered ==
  ASSUME ServdType, ServdType', TrafficCovers,
         NEW l \in Lxts, NEW n \in Nids, Traffic(l, n)
  PROVE  TrafficCovers'
<1>1. misread' = misread /\ UNCHANGED <<ts, total, pc, cur, ns>>
  BY DEF Traffic, servd, master
<1>2. SUFFICES ASSUME ~misread, NEW m \in Nids
               PROVE  Covers(traffic[m], total[m], Unsent(m), LeftToRead(m))'
  BY <1>1 DEF TrafficCovers
<1>3. Covers(traffic[m], total[m], Unsent(m), LeftToRead(m))
  BY <1>2 DEF TrafficCovers
<1>4. Unsent(m)' = Unsent(m) /\ total'[m] = total[m]
  BY <1>1 DEF Unsent
<1>5. exp \in Table /\ ts \in Table /\ traffic \in [Nids -> Nat]
  BY DEF ServdType, TypeOK, Table, Counter
<1>6. exp' = [exp EXCEPT ![l][n] = @ + 1] /\ traffic' = [traffic EXCEPT ![n] = @ + 1]
  BY DEF Traffic
<1>7. CASE m # n
  <2>1. \A k \in Lxts : exp'[k][m] = exp[k][m]
    BY <1>5, <1>6, <1>7 DEF Table
  <2>2. Unread(exp', ts', m) \subseteq Unread(exp, ts, m)
    BY <1>1, <2>1 DEF Unread
  <2>3. LeftToRead(m)' <= LeftToRead(m)
    BY <2>2, NothingNewUnread
  <2>4. traffic'[m] = traffic[m]
    BY <1>5, <1>6, <1>7
  <2>5. QED
    BY <1>3, <1>4, <2>3, <2>4, StaysCovered DEF Settles
<1>8. CASE m = n
  <2>1. Cardinality(Unread(exp', ts, n)) <= Cardinality(Unread(exp, ts, n)) + 1
    <3>1. IsFiniteSet(Unread(exp, ts, n))
      BY Numbers
    <3>2. QED
      BY <1>5, <1>6, <3>1, TrafficAdds
  <2>2. LeftToRead(m)' <= LeftToRead(m) + 1
    BY <1>1, <1>8, <2>1 DEF LeftToRead, Unread
  <2>3. traffic'[m] = traffic[m] + 1
    BY <1>5, <1>6, <1>8
  <2> DEFINE a == LeftToRead(m)'
             b == LeftToRead(m)
             p == Unsent(m)'
             q == Unsent(m)
  <2>4. a \in Nat /\ b \in Nat /\ q \in Int /\ traffic[m] \in Nat /\ total[m] \in Int
    BY Numbers, NumbersNext
  <2>5. Covers(traffic[m], total[m], q, b) /\ a <= b + 1 /\ p = q
    BY <1>3, <1>4, <2>2
  <2> HIDE DEF a, b, p, q
  <2>6. Covers(traffic'[m], total'[m], p, a)
    BY <1>4, <2>3, <2>4, <2>5 DEF Covers
  <2>7. QED
    BY <2>6 DEF a, p, Covers
<1>9. QED
  BY <1>7, <1>8

(* Reading a file moves its units to the difference of the round; a file   *)
(* that was reset has none and makes the difference smaller.               *)
LEMMA ReadStaysCovered ==
  ASSUME ServdType, ServdType', TrafficCovers, NEW n \in Nids, ReadsNid(n)
  PROVE  TrafficCovers'
<1> DEFINE l == reading.lxt
           stats == exp[l][n]
<1>1. UNCHANGED <<exp, traffic, misread, pc, total>>
  BY DEF ReadsNid, LxtCollectNid, lustre, master
<1>2. SUFFICES ASSUME ~misread, NEW m \in Nids
               PROVE  Covers(traffic[m], total[m], Unsent(m), LeftToRead(m))'
  BY <1>1 DEF TrafficCovers
<1>3. Covers(traffic[m], total[m], Unsent(m), LeftToRead(m))
  BY <1>2 DEF TrafficCovers
<1>4. exp \in Table /\ ts \in Table /\ l \in Lxts /\ stats # Absent /\ cur \subseteq DOMAIN ns
  BY DEF ReadsNid, ServdType, TypeOK, Table, Counter
<1>5. ts' = [ts EXCEPT ![l][n] = stats]
  BY DEF ReadsNid, LxtCollectNid, Baseline
<1>6. \A k \in Lxts : ts'[k][m] = IF k = l /\ m = n THEN stats ELSE ts[k][m]
  BY <1>4, <1>5 DEF Table
<1>7. CASE m # n
  <2>1. Unread(exp', ts', m) \subseteq Unread(exp, ts, m)
    BY <1>1, <1>6, <1>7 DEF Unread
  <2>2. LeftToRead(m)' <= LeftToRead(m)
    BY <2>1, NothingNewUnread
  <2>3. Unsent(m)' = Unsent(m)
    <3>1. CASE ts[l][n] = Absent
      BY <1>1, <3>1 DEF Unsent, ReadsNid, LxtCollectNid
    <3>2. CASE ts[l][n] # Absent
      <4>1. ns' = Difference(l, n, stats) /\ cur' = cur \cup {n}
        BY <3>2 DEF ReadsNid, LxtCollectNid
      <4>2. m \in cur => ns'[m] = ns[m]
        BY <1>4, <1>7, <4>1 DEF Difference
      <4>3. QED
        BY <1>1, <1>7, <4>1, <4>2 DEF Unsent
    <3>3. QED
      BY <3>1, <3>2
  <2>4. QED
    BY <1>1, <1>3, <2>2, <2>3, StaysCovered DEF Settles
<1>8. CASE m = n
  <2>1. /\ Cardinality(Unread(exp, ts', n)) <= Cardinality(Unread(exp, ts, n))
        /\ ts[l][n] # Absent =>
             Cardinality(Unread(exp, ts', n)) + stats - ts[l][n]
               <= Cardinality(Unread(exp, ts, n))
    <3>1. IsFiniteSet(Unread(exp, ts, n))
      BY Numbers
    <3>2. QED
      BY <1>4, <1>5, <3>1, ReadTakes
  <2>2. /\ LeftToRead(m)' <= LeftToRead(m)
        /\ ts[l][n] # Absent => LeftToRead(m)' + stats - ts[l][n] <= LeftToRead(m)
    BY <1>1, <1>8, <2>1 DEF LeftToRead, Unread
  <2>3. CASE ts[l][n] = Absent
    <3>1. Unsent(m)' = Unsent(m)
      BY <1>1, <2>3 DEF Unsent, ReadsNid, LxtCollectNid
    <3>2. QED
      BY <1>1, <1>3, <2>2, <3>1, StaysCovered DEF Settles
  <2>4. CASE ts[l][n] # Absent /\ pc \notin {"collect", "send"}
    <3>1. Unsent(m)' = Unsent(m)
      BY <1>1, <2>4 DEF Unsent
    <3>2. QED
      BY <1>1, <1>3, <2>2, <3>1, StaysCovered DEF Settles
  <2>5. CASE ts[l][n] # Absent /\ pc \in {"collect", "send"}
    <3>1. ns' = Difference(l, n, stats) /\ cur' = cur \cup {n}
      BY <2>5 DEF ReadsNid, LxtCollectNid
    <3>2. Unsent(m)' = Unsent(m) + stats - ts[l][n]
      BY <1>1, <1>8, <2>5, <3>1 DEF Unsent, Difference
    <3> DEFINE a == LeftToRead(m)'
               b == LeftToRead(m)
               p == Unsent(m)'
               q == Unsent(m)
               e == stats
               t == ts[l][n]
    <3>3. /\ a \in Nat /\ b \in Nat /\ q \in Int /\ traffic[m] \in Nat /\ total[m] \in Int
      BY Numbers, NumbersNext
    <3>4. e \in Int /\ t \in Int
      BY <1>4 DEF Table, Counter, Absent
    <3>5. Covers(traffic[m], total[m], q, b) /\ a <= b /\ a + e - t <= b /\ p = q + e - t
      BY <1>3, <2>2, <2>5, <3>2
    <3> HIDE DEF a, b, p, q, e, t
    <3>6. Covers(traffic[m], total[m], p, a)
      BY <3>3, <3>4, <3>5 DEF Covers
    <3>7. QED
      BY <1>1, <3>6 DEF a, p, Covers
  <2>6. QED
    BY <2>3, <2>4, <2>5
<1>9. QED
  BY <1>7, <1>8

LEMMA NextCovers == ServdType /\ ServdType' /\ TrafficCovers /\ [Next]_vars => TrafficCovers'
<1> SUFFICES ASSUME ServdType, ServdType', TrafficCovers, [Next]_vars PROVE TrafficCovers'
  OBVIOUS
<1>1. ASSUME misread' = misread, traffic' = traffic,
             \A n \in Nids : Unread(exp', ts', n) \subseteq Unread(exp, ts, n),
             \A n \in Nids : Settles(n)
      PROVE  TrafficCovers'
  <2>1. SUFFICES ASSUME ~misread, NEW n \in Nids
                 PROVE  Covers(traffic[n], total[n], Unsent(n), LeftToRead(n))'
    BY <1>1 DEF TrafficCovers
  <2>2. Covers(traffic[n], total[n], Unsent(n), LeftToRead(n))
    BY <2>1 DEF TrafficCovers
  <2>3. LeftToRead(n)' <= LeftToRead(n)
    BY <1>1, NothingNewUnread
  <2>4. QED
    BY <1>1, <2>2, <2>3, StaysCovered
<1>2. ASSUME UNCHANGED <<misread, traffic, exp, ts, total, ns, cur>>,
             pc' = pc \/ (pc = "status" /\ pc' = Idle)
      PROVE  TrafficCovers'
  <2>1. \A n \in Nids : Unsent(n)' = Unsent(n)
    BY <1>2 DEF Unsent, Idle
  <2>2. \A n \in Nids : Settles(n)
    BY <1>2, <2>1 DEF Settles
  <2>3. QED
    BY <1>1, <1>2, <2>2
<1>3. exp \in Table /\ ts \in Table
  BY DEF ServdType, TypeOK, Table, Counter
<1>4. ASSUME NEW l \in Lxts, NEW n \in Nids, ExportComes(l, n) \/ ExportGoes(l, n)
      PROVE  TrafficCovers'
  <2>1. \A k \in Lxts, m \in Nids : exp'[k][m] = exp[k][m] \/ exp'[k][m] \in {0, Absent}
    BY <1>3, <1>4 DEF ExportComes, ExportGoes, Table
  <2>2. UNCHANGED <<misread, traffic, ts, total, ns, cur, pc>>
    BY <1>4 DEF ExportComes, ExportGoes, servd, master
  <2>3. \A m \in Nids : Unread(exp', ts', m) \subseteq Unread(exp, ts, m)
    BY <1>3, <2>1, <2>2 DEF Unread, Table, Counter, Absent
  <2>4. QED
    BY <1>1, <2>2, <2>3 DEF Unsent, Settles
<1>5. ASSUME NEW l \in Lxts, TargetComes(l) \/ TargetGoes(l)
      PROVE  TrafficCovers'
  <2>1. \A k \in Lxts, m \in Nids : exp'[k][m] = exp[k][m] \/ exp'[k][m] = Absent
    BY <1>3, <1>5 DEF TargetComes, TargetGoes, Table
  <2>2. UNCHANGED <<misread, traffic, ts, total, ns, cur, pc>>
    BY <1>5 DEF TargetComes, TargetGoes, servd, master
  <2>3. \A m \in Nids : Unread(exp', ts', m) \subseteq Unread(exp, ts, m)
    BY <1>3, <2>1, <2>2 DEF Unread, Table, Counter, Absent
  <2>4. QED
    BY <1>1, <2>2, <2>3 DEF Unsent, Settles
<1>6. CASE Lustre
  BY <1>4, <1>5, <1>6, TrafficStaysCovered DEF Lustre
<1>7. CASE ClockCb
  <2>1. \A n \in Nids : Unsent(n)' = 0 /\ Unsent(n) = 0
    BY <1>7 DEF ClockCb, Unsent, Idle
  <2>2. UNCHANGED <<misread, traffic, exp, ts, total>>
    BY <1>7 DEF ClockCb, lustre, master
  <2>3. QED
    BY <1>1, <2>1, <2>2 DEF Settles
<1>8. ASSUME NEW l \in Lxts, LxtLookup(l)
      PROVE  TrafficCovers'
  BY <1>2, <1>8 DEF LxtLookup, lustre, master
<1>9. ASSUME NEW n \in Nids, ReadsNid(n)
      PROVE  TrafficCovers'
  BY <1>9, ReadStaysCovered
<1>10. ASSUME NEW n \in Nids, ReadFails(n)
       PROVE  TrafficCovers'
  BY <1>10 DEF ReadFails, TrafficCovers
<1>11. ASSUME NEW n \in Nids, ReadGivenUp(n)
       PROVE  TrafficCovers'
  BY <1>2, <1>11 DEF ReadGivenUp, lustre, master
<1>12. CASE LxtCollected
  BY <1>2, <1>12 DEF LxtCollected, lustre, master
<1>13. CASE KillUnseen
  <2>1. \A k \in Lxts, m \in Nids : ts'[k][m] \in {ts[k][m], Absent}
    BY <1>3, <1>13 DEF KillUnseen, Forget, Table
  <2>2. UNCHANGED <<misread, traffic, exp, total, ns, cur>> /\ pc = "collect" /\ pc' = "send"
    BY <1>13 DEF KillUnseen, lustre, master
  <2>3. \A m \in Nids : Unread(exp', ts', m) \subseteq Unread(exp, ts, m)
    BY <2>1, <2>2 DEF Unread
  <2>4. QED
    BY <1>1, <2>2, <2>3 DEF Unsent, Settles
<1>14. CASE SendStats
  <2>1. UNCHANGED <<misread, traffic, exp, ts>> /\ pc = "send" /\ pc' = "status"
    BY <1>14 DEF SendStats, lustre
  <2>2. ASSUME NEW n \in Nids
        PROVE  Settles(n)
    <3>1. \/ total' = total
          \/ total' = [m \in Nids |-> total[m] + (IF m \in cur THEN ns[m] ELSE 0)]
      BY <1>14 DEF SendStats
    <3>2. QED
      BY <2>1, <3>1 DEF Unsent, Settles
  <2>3. QED
    BY <1>1, <2>1, <2>2
<1>15. CASE StatusAnswered \/ StatusUnanswered
  BY <1>2, <1>15 DEF StatusAnswered, StatusUnanswered, lustre, master
<1>16. CASE Step
  BY <1>7, <1>8, <1>9, <1>10, <1>11, <1>12, <1>13, <1>14, <1>15, <1>16 DEF Step
<1>17. ASSUME NEW c \in Schedules, MasterRestarts(c)
       PROVE  TrafficCovers'
  <2>1. UNCHANGED <<misread, traffic, exp, ts, ns, cur, pc>> /\ total' = [n \in Nids |-> 0]
    BY <1>17 DEF MasterRestarts, lustre, servd
  <2>2. \A n \in Nids : Unsent(n)' = Unsent(n) /\ total'[n] = 0
    BY <2>1 DEF Unsent
  <2>3. \A n \in Nids : Unread(exp', ts', n) \subseteq Unread(exp, ts, n)
    BY <2>1
  <2>4. misread' = misread /\ traffic' = traffic
    BY <2>1
  <2>5. \A n \in Nids : Settles(n)
    BY <2>2 DEF Settles
  <2>6. QED
    BY <1>1, <2>3, <2>4, <2>5
<1>18. CASE UNCHANGED vars
  BY <1>2, <1>18 DEF vars, lustre, servd, master
<1>19. QED
  BY <1>6, <1>16, <1>17, <1>18 DEF Next

-----------------------------------------------------------------------------
(* In whatever order targets and exports come, go and are read, the target *)
(* clock_cb is reading is one in its table, and so is every nid that has   *)
(* a counter in this round.                                                *)
THEOREM TypeCorrect == Spec => []TypeOK
<1>1. ServdType => TypeOK
  BY DEF ServdType
<1>2. QED
  BY <1>1, TypeAlways, PTL

(* The numbers of nids and targets in the status that servd PUTs are those *)
(* of its tables: no order of the walks, reads and deletions of a round    *)
(* makes them drift apart.                                                 *)
THEOREM StatusAlwaysCounts == Spec => []StatusCounts
<1>1. Init => StatusCounts
  BY FS_EmptySet DEF Init, StatusCounts
<1>2. QED
  BY <1>1, NextCounts, TypeAlways, PTL DEF Spec

(* As long as no read() fails the master never counts more than a client   *)
(* did, for any number of targets, resets, lost PUTs and restarts.         *)
THEOREM OvercountsNever == Spec => []NeverOvercounts
<1>1. ServdType /\ TrafficCovers => NeverOvercounts
  <2>1. SUFFICES ASSUME ServdType, TrafficCovers, ~misread, NEW n \in Nids
                 PROVE  total[n] <= traffic[n]
    BY DEF NeverOvercounts
  <2>2. Covers(traffic[n], total[n], Unsent(n), LeftToRead(n))
    BY <2>1 DEF TrafficCovers
  <2>3. LeftToRead(n) \in Nat /\ traffic[n] \in Nat /\ total[n] \in Int
    BY <2>1, Numbers
  <2>4. QED
    BY <2>2, <2>3 DEF Covers
<1>2. QED
  BY <1>1, InitCovers, NextCovers, TypeAlways, PTL DEF Spec


-----------------------------------------------------------------------------
(* What a round sends.                                                     *)

(* The units of a table by their members. *)
LEMMA GainsAre ==
  ASSUME NEW a \in Table, NEW b \in Table, NEW n \in Nids
  PROVE  Gains(a, b, n) =
           {u \in Lxts \X Nat : /\ a[u[1]][n] # Absent /\ b[u[1]][n] # Absent
                                /\ a[u[1]][n] < u[2] /\ u[2] <= b[u[1]][n]}
<1> DEFINE G == {u \in Lxts \X Nat : /\ a[u[1]][n] # Absent /\ b[u[1]][n] # Absent
                                     /\ a[u[1]][n] < u[2] /\ u[2] <= b[u[1]][n]}
           K == {k \in Lxts : a[k][n] # Absent /\ b[k][n] # Absent}
<1>1. \A l \in Lxts : a[l][n] \in Counter /\ b[l][n] \in Counter
  BY DEF Table
<1>2. ASSUME NEW u \in Gains(a, b, n)
      PROVE  u \in G
  <2>1. PICK l \in K : u \in {l} \X (a[l][n] + 1..b[l][n])
    BY DEF Gains
  <2>2. u = <<l, u[2]>> /\ u[1] = l /\ u[2] \in a[l][n] + 1..b[l][n]
    BY <2>1
  <2>3. a[l][n] \in Nat /\ b[l][n] \in Nat /\ l \in Lxts
    BY <1>1, <2>1 DEF Counter
  <2>4. u[2] \in Nat /\ a[l][n] < u[2] /\ u[2] <= b[l][n]
    BY <2>2, <2>3
  <2>5. QED
    BY <2>1, <2>2, <2>3, <2>4
<1>3. ASSUME NEW u \in G
      PROVE  u \in Gains(a, b, n)
  <2>1. u[1] \in K /\ u[2] \in Nat /\ u = <<u[1], u[2]>>
    OBVIOUS
  <2>2. a[u[1]][n] \in Nat /\ b[u[1]][n] \in Nat
    BY <1>1, <2>1 DEF Counter
  <2>3. u[2] \in a[u[1]][n] + 1..b[u[1]][n]
    BY <2>1, <2>2
  <2>4. u \in {u[1]} \X (a[u[1]][n] + 1..b[u[1]][n])
    BY <2>1, <2>3
  <2> HIDE DEF G
  <2>5. QED
    BY <2>1, <2>4 DEF Gains
<1>4. QED
  BY <1>2, <1>3

LEMMA GainsFinite ==
  ASSUME NEW a \in Table, NEW b \in Table, NEW n \in Nids
  PROVE  IsFiniteSet(Gains(a, b, n)) /\ Cardinality(Gains(a, b, n)) \in Nat
<1> DEFINE K == {k \in Lxts : a[k][n] # Absent /\ b[k][n] # Absent}
           Part(l) == {l} \X (a[l][n] + 1..b[l][n])
           Parts == {Part(l) : l \in K}
<1>1. \A l \in Lxts : a[l][n] \in Counter /\ b[l][n] \in Counter
  BY DEF Table
<1>2. IsFiniteSet(K)
  BY BoundsAssumption, FS_Subset
<1>3. IsFiniteSet(Parts)
  <2> DEFINE f == [l \in K |-> Part(l)]
  <2>1. f \in Surjection(K, Parts)
    <3>1. f \in [K -> Parts] /\ \A t \in Parts : \E l \in K : f[l] = t
      BY Zenon
    <3>2. QED
      BY <3>1 DEF Surjection
  <2> HIDE DEF K, Parts, f
  <2>2. QED
    BY <1>2, <2>1, FS_Surjection
<1>4. ASSUME NEW l \in K
      PROVE  IsFiniteSet(Part(l))
  <2> DEFINE span == a[l][n] + 1..b[l][n]
  <2>1. a[l][n] + 1 \in Int /\ b[l][n] \in Int
    BY <1>1 DEF Counter
  <2>2. IsFiniteSet(span)
    BY <2>1, FS_Interval
  <2>3. IsFiniteSet({l})
    BY FS_Singleton
  <2> HIDE DEF span
  <2>4. IsFiniteSet({l} \X span)
    BY <2>2, <2>3, FS_Product
  <2>5. QED
    BY <2>4 DEF span
<1>5. \A T \in Parts : IsFiniteSet(T)
  BY <1>4
<1>6. Gains(a, b, n) = UNION Parts
  BY DEF Gains
<1> HIDE DEF Parts
<1>7. IsFiniteSet(UNION Parts)
  BY <1>3, <1>5, FS_UNION
<1>8. QED
  BY <1>6, <1>7, FS_CardinalityType

(* Two tables that become different in one place only. *)
LEMMA GainsPart ==
  ASSUME NEW a \in Table, NEW b \in Table, NEW c \in Table, NEW d \in Table,
         NEW n \in Nids, NEW l \in Lxts,
         \A k \in Lxts : k # l => c[k][n] = a[k][n] /\ d[k][n] = b[k][n],
         a[l][n] = b[l][n], c[l][n] # Absent, d[l][n] # Absent
  PROVE  Cardinality(Gains(c, d, n)) =
           Cardinality(Gains(a, b, n)) + (IF c[l][n] <= d[l][n] THEN d[l][n] - c[l][n] ELSE 0)
<1> DEFINE x == c[l][n]
           y == d[l][n]
           span == x + 1..y
           part == {l} \X span
           G == Gains(a, b, n)
           H == Gains(c, d, n)
<1>1. \A k \in Lxts : a[k][n] \in Counter /\ b[k][n] \in Counter
                      /\ c[k][n] \in Counter /\ d[k][n] \in Counter
  BY DEF Table
<1>2. x \in Nat /\ y \in Nat
  BY <1>1 DEF Counter
<1>3. \A u \in part : u[1] = l /\ u[2] \in Nat /\ x < u[2] /\ u[2] <= y /\ u = <<u[1], u[2]>>
  BY <1>2
<1>4. \A u : u[1] = l /\ u[2] \in Nat /\ x < u[2] /\ u[2] <= y /\ u = <<u[1], u[2]>> => u \in part
  BY <1>2
<1>5. G \cap part = {}
  <2>1. ASSUME NEW u \in G, u[1] = l
        PROVE  FALSE
    <3>1. u[2] \in Nat /\ a[l][n] < u[2] /\ u[2] <= b[l][n]
      BY <2>1, GainsAre
    <3>2. QED
      BY <1>1, <3>1 DEF Counter, Absent
  <2> HIDE DEF part, G
  <2>2. QED
    BY <1>3, <2>1
<1>6. H = G \cup part
  <2>1. ASSUME NEW u \in H
        PROVE  u \in G \cup part
    <3>1. /\ u[1] \in Lxts /\ u[2] \in Nat /\ u = <<u[1], u[2]>> /\ u \in Lxts \X Nat
          /\ c[u[1]][n] # Absent /\ d[u[1]][n] # Absent
          /\ c[u[1]][n] < u[2] /\ u[2] <= d[u[1]][n]
      BY GainsAre
    <3>2. CASE u[1] = l
      BY <1>4, <3>1, <3>2
    <3>3. CASE u[1] # l
      <4>1. c[u[1]][n] = a[u[1]][n] /\ d[u[1]][n] = b[u[1]][n]
        BY <3>1, <3>3
      <4>2. u \in G
        BY <3>1, <4>1, GainsAre
      <4>3. QED
        BY <4>2
    <3>4. QED
      BY <3>2, <3>3
  <2>2. ASSUME NEW u \in G
        PROVE  u \in H
    <3>1. /\ u[1] \in Lxts /\ u[2] \in Nat /\ u \in Lxts \X Nat
          /\ a[u[1]][n] # Absent /\ b[u[1]][n] # Absent
          /\ a[u[1]][n] < u[2] /\ u[2] <= b[u[1]][n]
      BY GainsAre
    <3>2. u[1] # l
      BY <1>1, <3>1 DEF Counter, Absent
    <3>3. c[u[1]][n] = a[u[1]][n] /\ d[u[1]][n] = b[u[1]][n]
      BY <3>1, <3>2
    <3>4. QED
      BY <3>1, <3>3, GainsAre
  <2>3. ASSUME NEW u \in part
        PROVE  u \in H
    <3>1. u[1] = l /\ u[2] \in Nat /\ x < u[2] /\ u[2] <= y /\ u = <<u[1], u[2]>>
      BY <1>3
    <3>2. u \in Lxts \X Nat
      BY <3>1
    <3>3. QED
      BY <3>1, <3>2, GainsAre
  <2> HIDE DEF part, G, H
  <2>4. QED
    BY <2>1, <2>2, <2>3
<1>7. IsFiniteSet(G) /\ Cardinality(G) \in Nat
  BY GainsFinite
<1>8. IsFiniteSet(part) /\ Cardinality(part) = Cardinality(span)
  <2>1. IsFiniteSet(span) /\ Cardinality(span) \in Nat
    <3>1. x + 1 \in Int /\ y \in Int
      BY <1>2
    <3> HIDE DEF x, y
    <3>2. QED
      BY <3>1, FS_Interval, FS_CardinalityType
  <2>2. IsFiniteSet({l}) /\ Cardinality({l}) = 1
    BY FS_Singleton
  <2> HIDE DEF span
  <2>3. IsFiniteSet({l} \X span) /\ Cardinality({l} \X span) = 1 * Cardinality(span)
    BY <2>1, <2>2, FS_Product
  <2>4. QED
    BY <2>1, <2>3
<1>9. Cardinality(span) = IF x <= y THEN y - x ELSE 0
  <2>1. CASE x <= y
    <3> HIDE DEF x, y
    <3>1. QED
      BY <1>2, <2>1, SpanCount
  <2>2. CASE ~(x <= y)
    <3>1. span = {}
      BY <1>2, <2>2
    <3>2. QED
      BY <2>2, <3>1, FS_EmptySet
  <2>3. QED
    BY <2>1, <2>2
<1> HIDE DEF part, G, H, span
<1>10. Cardinality(G \cup part) = Cardinality(G) + Cardinality(part) - Cardinality(G \cap part)
  BY <1>7, <1>8, FS_Union
<1>11. Cardinality(G \cap part) = 0
  BY <1>5, FS_EmptySet
<1> DEFINE g == Cardinality(G)
           h == Cardinality(H)
           p == Cardinality(part)
<1>12. h = g + p - 0 /\ g \in Nat /\ p = IF x <= y THEN y - x ELSE 0
  BY <1>6, <1>7, <1>8, <1>9, <1>10, <1>11
<1> HIDE DEF g, h, p, x, y
<1>13. h = g + (IF x <= y THEN y - x ELSE 0)
  BY <1>2, <1>12
<1>14. QED
  BY <1>13 DEF g, h, x, y, G, H

(* Less what was lost, as many as the difference of the place. *)
Net(a, b, n) == Cardinality(Gains(a, b, n)) - Cardinality(Gains(b, a, n))

LEMMA NetChanges ==
  ASSUME NEW a \in Table, NEW b \in Table, NEW d \in Table,
         NEW n \in Nids, NEW l \in Lxts,
         \A k \in Lxts : k # l => d[k][n] = b[k][n],
         a[l][n] = b[l][n], a[l][n] # Absent, d[l][n] # Absent
  PROVE  Net(a, d, n) = Net(a, b, n) + d[l][n] - a[l][n]
<1> DEFINE x == a[l][n]
           y == d[l][n]
           g == Cardinality(Gains(a, b, n))
           h == Cardinality(Gains(b, a, n))
<1>1. x \in Nat /\ y \in Nat
  BY DEF Table, Counter
<1>2. g \in Nat /\ h \in Nat
  BY GainsFinite
<1>3. Cardinality(Gains(a, d, n)) = g + (IF x <= y THEN y - x ELSE 0)
  BY GainsPart
<1>4. Cardinality(Gains(d, a, n)) = h + (IF y <= x THEN x - y ELSE 0)
  BY GainsPart
<1>5. Net(a, d, n) = (g + (IF x <= y THEN y - x ELSE 0)) - (h + (IF y <= x THEN x - y ELSE 0))
      /\ Net(a, b, n) = g - h
  BY <1>3, <1>4 DEF Net
<1> HIDE DEF x, y, g, h
<1>6. Net(a, d, n) = Net(a, b, n) + y - x
  BY <1>1, <1>2, <1>5
<1>7. QED
  BY <1>6 DEF x, y

(* Tables that differ from others only where these have the same counter,  *)
(* and have none there.                                                    *)
LEMMA NetStays ==
  ASSUME NEW a \in Table, NEW b \in Table, NEW d \in Table, NEW n \in Nids,
         \A k \in Lxts : \/ d[k][n] = b[k][n]
                         \/ a[k][n] = b[k][n] /\ (d[k][n] = Absent \/ a[k][n] = Absent)
  PROVE  Net(a, d, n) = Net(a, b, n)
<1>1. \A k \in Lxts : a[k][n] \in Counter /\ b[k][n] \in Counter /\ d[k][n] \in Counter
  BY DEF Table
<1>2. Gains(a, d, n) = Gains(a, b, n)
  <2>1. ASSUME NEW u \in Lxts \X Nat
        PROVE  (/\ a[u[1]][n] # Absent /\ d[u[1]][n] # Absent
                /\ a[u[1]][n] < u[2] /\ u[2] <= d[u[1]][n]) <=>
               (/\ a[u[1]][n] # Absent /\ b[u[1]][n] # Absent
                /\ a[u[1]][n] < u[2] /\ u[2] <= b[u[1]][n])
    <3> DEFINE v == u[2]
               k == u[1]
               x == a[k][n]
               y == b[k][n]
               z == d[k][n]
    <3>1. k \in Lxts /\ v \in Nat
      OBVIOUS
    <3>2. /\ x \in Nat \cup {-1} /\ y \in Nat \cup {-1} /\ z \in Nat \cup {-1}
          /\ (z = y \/ (x = y /\ (z = -1 \/ x = -1)))
          /\ Absent = -1
      BY <1>1, <3>1 DEF Counter, Absent
    <3> HIDE DEF x, y, z, v, k
    <3>3. (/\ x # -1 /\ z # -1 /\ x < v /\ v <= z) <=> (/\ x # -1 /\ y # -1 /\ x < v /\ v <= y)
      BY <3>1, <3>2
    <3>4. QED
      BY <3>3 DEF x, y, z, v, k, Absent
  <2>2. Gains(a, d, n) = {u \in Lxts \X Nat : /\ a[u[1]][n] # Absent /\ d[u[1]][n] # Absent
                                             /\ a[u[1]][n] < u[2] /\ u[2] <= d[u[1]][n]}
    BY GainsAre
  <2>3. Gains(a, b, n) = {u \in Lxts \X Nat : /\ a[u[1]][n] # Absent /\ b[u[1]][n] # Absent
                                             /\ a[u[1]][n] < u[2] /\ u[2] <= b[u[1]][n]}
    BY GainsAre
  <2>4. QED
    BY <2>1, <2>2, <2>3, Zenon
<1>3. Gains(d, a, n) = Gains(b, a, n)
  <2>1. ASSUME NEW u \in Lxts \X Nat
        PROVE  (/\ d[u[1]][n] # Absent /\ a[u[1]][n] # Absent
                /\ d[u[1]][n] < u[2] /\ u[2] <= a[u[1]][n]) <=>
               (/\ b[u[1]][n] # Absent /\ a[u[1]][n] # Absent
                /\ b[u[1]][n] < u[2] /\ u[2] <= a[u[1]][n])
    <3> DEFINE v == u[2]
               k == u[1]
               x == a[k][n]
               y == b[k][n]
               z == d[k][n]
    <3>1. k \in Lxts /\ v \in Nat
      OBVIOUS
    <3>2. /\ x \in Nat \cup {-1} /\ y \in Nat \cup {-1} /\ z \in Nat \cup {-1}
          /\ (z = y \/ (x = y /\ (z = -1 \/ x = -1)))
          /\ Absent = -1
      BY <1>1, <3>1 DEF Counter, Absent
    <3> HIDE DEF x, y, z, v, k
    <3>3. (/\ z # -1 /\ x # -1 /\ z < v /\ v <= x) <=> (/\ y # -1 /\ x # -1 /\ y < v /\ v <= x)
      BY <3>1, <3>2
    <3>4. QED
      BY <3>3 DEF x, y, z, v, k, Absent
  <2>2. Gains(d, a, n) = {u \in Lxts \X Nat : /\ d[u[1]][n] # Absent /\ a[u[1]][n] # Absent
                                             /\ d[u[1]][n] < u[2] /\ u[2] <= a[u[1]][n]}
    BY GainsAre
  <2>3. Gains(b, a, n) = {u \in Lxts \X Nat : /\ b[u[1]][n] # Absent /\ a[u[1]][n] # Absent
                                             /\ b[u[1]][n] < u[2] /\ u[2] <= a[u[1]][n]}
    BY GainsAre
  <2>4. QED
    BY <2>1, <2>2, <2>3, Zenon
<1>4. QED
  BY <1>2, <1>3 DEF Net

(* What the round has taken is what the counters have changed by since it  *)
(* began, since each is read once: those of a target the walk has still to *)
(* come to, of one that was set aside and not come to, and of a nid whose  *)
(* file is still to be read are what they were.                            *)
Taken == \A n \in Nids : Unsent(n) = Net(before, ts, n)

As(l, n) == ts[l][n] = before[l][n]

ReadOnce ==
  /\ \A l \in todo, n \in Nids : As(l, n)
  /\ \A l \in tmp, n \in Nids : reading = NotReading \/ l # reading.lxt => As(l, n)
  /\ reading # NotReading =>
       reading.lxt \notin todo /\ \A n \in reading.nids : As(reading.lxt, n)

DeltaInv ==
  /\ reading # NotReading => pc = "collect"
  /\ pc \in {"collect", "send"} => before \in Table /\ Taken
  /\ pc = "collect" => ReadOnce

LEMMA CollectNidTakes ==
  ASSUME ServdType, DeltaInv, NEW n \in Nids, NEW stats \in Nat, reading # NotReading,
         LxtCollectNid(n, stats)
  PROVE  DeltaInv'
<1> DEFINE l == reading.lxt
<1>1. /\ l \in Lxts /\ ts \in Table /\ cur \subseteq DOMAIN ns /\ ns \in [DOMAIN ns -> Int]
      /\ reading.nids \subseteq Nids
  BY DEF ServdType, TypeOK, Table, Counter
<1>2. pc = "collect" /\ before \in Table /\ Taken /\ ReadOnce
  BY DEF DeltaInv
<1>3. /\ n \in reading.nids /\ ts' = [ts EXCEPT ![l][n] = stats]
      /\ reading' = [reading EXCEPT !.nids = @ \ {n}]
      /\ UNCHANGED <<pc, tmp, todo, before>>
  BY DEF LxtCollectNid, Baseline
<1>4. As(l, n)
  BY <1>2, <1>3 DEF ReadOnce
<1>5. \A k \in Lxts, m \in Nids : ts'[k][m] = IF k = l /\ m = n THEN stats ELSE ts[k][m]
  BY <1>1, <1>3 DEF Table
<1>6. ts' \in Table
  BY <1>1, <1>3 DEF Table, Counter
<1>7. reading' # NotReading /\ reading'.lxt = l /\ reading'.nids = reading.nids \ {n}
  <2>1. reading' \in [lxt: Lxts \cup {Absent}, nids: SUBSET Nids]
        /\ reading'.lxt = l /\ reading'.nids = reading.nids \ {n}
    BY <1>3 DEF ServdType
  <2>2. QED
    BY <1>1, <2>1, BoundsAssumption DEF NotReading
<1>8. \A k \in Lxts, m \in Nids : (k # l \/ m # n) /\ As(k, m) => As(k, m)'
  BY <1>3, <1>5 DEF As
<1>9. ReadOnce'
  <2>1. /\ todo \subseteq Lxts /\ tmp \subseteq Lxts
        /\ l \notin todo
    BY <1>2 DEF ServdType, TypeOK, ReadOnce
  <2>2. \A k \in todo, m \in Nids : As(k, m)'
    BY <1>2, <1>8, <2>1 DEF ReadOnce
  <2>3. \A k \in tmp, m \in Nids : k # l => As(k, m)'
    BY <1>2, <1>8, <2>1 DEF ReadOnce
  <2>4. \A m \in reading.nids \ {n} : ts[l][m] = before[l][m] /\ ts'[l][m] = ts[l][m]
    BY <1>1, <1>2, <1>5 DEF ReadOnce, As
  <2>5. \A m \in reading'.nids : ts'[l][m] = before'[l][m]
    BY <1>3, <1>7, <2>4
  <2>6. \A m \in reading'.nids : ts'[reading'.lxt][m] = before'[reading'.lxt][m]
    BY <1>7, <2>5
  <2>7. \A m \in reading'.nids : As(reading.lxt, m)'
    BY <2>6 DEF As
  <2>8. \A k \in todo', m \in Nids : As(k, m)'
    BY <1>3, <2>2
  <2>9. \A k \in tmp', m \in Nids : reading' = NotReading \/ k # reading'.lxt => As(k, m)'
    BY <1>3, <1>7, <2>3
  <2>10. QED
    BY <1>3, <1>7, <2>1, <2>7, <2>8, <2>9 DEF ReadOnce
<1>10. ASSUME NEW m \in Nids
       PROVE  Unsent(m)' = Net(before, ts', m)
  <2>1. Unsent(m) = Net(before, ts, m)
    BY <1>2 DEF Taken
  <2>2. CASE m # n
    <3>1. Net(before, ts', m) = Net(before, ts, m)
      BY <1>1, <1>2, <1>5, <1>6, <2>2, NetStays
    <3>2. Unsent(m)' = Unsent(m)
      <4>1. CASE ts[l][n] = Absent
        BY <1>3, <4>1 DEF Unsent, LxtCollectNid
      <4>2. CASE ts[l][n] # Absent
        <5>1. ns' = Difference(l, n, stats) /\ cur' = cur \cup {n}
          BY <4>2 DEF LxtCollectNid
        <5>2. m \in cur => ns'[m] = ns[m]
          BY <1>1, <2>2, <5>1 DEF Difference
        <5>3. QED
          BY <1>3, <2>2, <5>1, <5>2 DEF Unsent
      <4>3. QED
        BY <4>1, <4>2
    <3>3. QED
      BY <2>1, <3>1, <3>2
  <2>3. CASE m = n /\ ts[l][n] = Absent
    <3>1. \A k \in Lxts : \/ ts'[k][m] = ts[k][m]
                          \/ before[k][m] = ts[k][m] /\ before[k][m] = Absent
      BY <1>4, <1>5, <2>3 DEF As
    <3>2. Net(before, ts', m) = Net(before, ts, m)
      BY <1>1, <1>2, <1>6, <3>1, NetStays
    <3>3. Unsent(m)' = Unsent(m)
      BY <1>3, <2>3 DEF Unsent, LxtCollectNid
    <3>4. QED
      BY <2>1, <3>2, <3>3
  <2>4. CASE m = n /\ ts[l][n] # Absent
    <3>1. ts'[l][n] = stats /\ stats # Absent /\ \A k \in Lxts : k # l => ts'[k][n] = ts[k][n]
      BY <1>1, <1>5 DEF Absent
    <3>2. Net(before, ts', n) = Net(before, ts, n) + stats - ts[l][n]
      <4>1. before[l][n] = ts[l][n] /\ ts'[l][n] # Absent
        BY <1>4, <3>1 DEF As
      <4>2. Net(before, ts', n) = Net(before, ts, n) + ts'[l][n] - before[l][n]
        BY <1>1, <1>2, <1>6, <2>4, <3>1, <4>1, NetChanges
      <4>3. QED
        BY <3>1, <4>1, <4>2
    <3>3. ns' = Difference(l, n, stats) /\ cur' = cur \cup {n}
      BY <2>4 DEF LxtCollectNid
    <3>4. Unsent(n)' = Unsent(n) + stats - ts[l][n]
      BY <1>2, <1>3, <3>3 DEF Unsent, Difference
    <3>5. QED
      BY <2>1, <2>4, <3>2, <3>4
  <2>5. QED
    BY <2>2, <2>3, <2>4
<1>11. Taken'
  <2>1. \A m : Net(before, ts, m)' = Net(before, ts', m)
    BY <1>3 DEF Net, Gains
  <2>2. QED
    BY <1>10, <2>1 DEF Taken
<1>12. QED
  BY <1>2, <1>3, <1>7, <1>9, <1>11 DEF DeltaInv

LEMMA NextDeltaInv == ServdType /\ ServdType' /\ DeltaInv /\ [Next]_vars => DeltaInv'
<1> SUFFICES ASSUME ServdType, ServdType', DeltaInv, [Next]_vars PROVE DeltaInv'
  OBVIOUS
<1>1. ts \in Table /\ ts' \in Table
  BY DEF ServdType, TypeOK, Table, Counter
<1>2. ASSUME UNCHANGED servd
      PROVE  DeltaInv'
  BY <1>2 DEF servd, DeltaInv, Taken, ReadOnce, As, Unsent, Net, Gains
<1>3. CASE ClockCb
  <2>1. /\ pc' = "collect" /\ before' = ts /\ ts' = ts /\ cur' = {}
        /\ reading' = NotReading
    BY <1>3 DEF ClockCb, DeltaInv, Idle
  <2>2. \A n \in Nids : Unsent(n)' = 0 /\ Net(before', ts', n) = 0
    <3>1. \A n \in Nids : Unsent(n)' = 0
      BY <2>1 DEF Unsent
    <3>2. ASSUME NEW n \in Nids
          PROVE  Net(ts, ts, n) = 0
      <4>1. Cardinality(Gains(ts, ts, n)) \in Nat
        BY <1>1, GainsFinite
      <4>2. QED
        BY <4>1 DEF Net
    <3>3. QED
      BY <2>1, <3>1, <3>2
  <2>3. Taken'
    BY <2>2 DEF Taken, Net, Gains
  <2>4. ReadOnce'
    BY <2>1 DEF ReadOnce, As
  <2>5. QED
    BY <1>1, <2>1, <2>3, <2>4 DEF DeltaInv
<1>4. ASSUME NEW l \in Lxts, LxtLookup(l)
      PROVE  DeltaInv'
  <2>1. /\ pc = "collect" /\ reading = NotReading /\ l \in todo /\ todo' = todo \ {l}
        /\ UNCHANGED <<pc, tmp, ts, ns, cur, before>>
        /\ reading' # NotReading => reading'.lxt = l /\ reading'.nids \subseteq Nids
    BY <1>4 DEF LxtLookup
  <2>2. before \in Table /\ Taken /\ ReadOnce
    BY <2>1 DEF DeltaInv
  <2>3. Taken'
    BY <2>1, <2>2 DEF Taken, Unsent, Net, Gains
  <2>4. ReadOnce'
    BY <2>1, <2>2 DEF ReadOnce, As
  <2>5. QED
    BY <2>1, <2>2, <2>3, <2>4 DEF DeltaInv
<1>5. ASSUME NEW n \in Nids, ReadsNid(n)
      PROVE  DeltaInv'
  <2>1. exp[reading.lxt][n] \in Nat
    BY <1>5 DEF ReadsNid, ServdType, TypeOK
  <2>2. QED
    BY <1>5, <2>1, CollectNidTakes DEF ReadsNid
<1>6. ASSUME NEW n \in Nids, ReadFails(n)
      PROVE  DeltaInv'
  BY <1>6, CollectNidTakes DEF ReadFails
<1>7. ASSUME NEW n \in Nids, ReadGivenUp(n)
      PROVE  DeltaInv'
  <2>1. /\ reading # NotReading /\ reading' = [reading EXCEPT !.nids = @ \ {n}]
        /\ UNCHANGED <<pc, tmp, todo, ts, ns, cur, before>>
    BY <1>7 DEF ReadGivenUp
  <2>2. /\ reading'.lxt = reading.lxt /\ reading'.nids \subseteq reading.nids
        /\ reading'.lxt \in Lxts
    BY <2>1 DEF ServdType, TypeOK
  <2>3. reading' # NotReading
    BY <2>2, BoundsAssumption DEF NotReading
  <2>4. pc = "collect" /\ before \in Table /\ Taken /\ ReadOnce
    BY <2>1 DEF DeltaInv
  <2>5. Taken'
    BY <2>1, <2>4 DEF Taken, Unsent, Net, Gains
  <2>6. ReadOnce'
    BY <2>1, <2>2, <2>3, <2>4 DEF ReadOnce, As
  <2>7. QED
    BY <2>1, <2>3, <2>4, <2>5, <2>6 DEF DeltaInv
<1>8. CASE LxtCollected
  <2>1. /\ reading # NotReading /\ reading' = NotReading /\ tmp' = tmp \ {reading.lxt}
        /\ UNCHANGED <<pc, todo, ts, ns, cur, before>>
    BY <1>8 DEF LxtCollected
  <2>2. pc = "collect" /\ before \in Table /\ Taken /\ ReadOnce
    BY <2>1 DEF DeltaInv
  <2>3. Taken'
    BY <2>1, <2>2 DEF Taken, Unsent, Net, Gains
  <2>4. ReadOnce'
    BY <2>1, <2>2 DEF ReadOnce, As
  <2>5. QED
    BY <2>1, <2>2, <2>3, <2>4 DEF DeltaInv
<1>9. CASE KillUnseen
  <2>1. /\ pc = "collect" /\ reading = NotReading /\ pc' = "send" /\ ts' = Forget
        /\ UNCHANGED <<reading, ns, cur, before>>
    BY <1>9 DEF KillUnseen
  <2>2. before \in Table /\ Taken /\ ReadOnce
    BY <2>1 DEF DeltaInv
  <2>3. \A k \in Lxts, n \in Nids :
          \/ ts'[k][n] = ts[k][n]
          \/ before[k][n] = ts[k][n] /\ ts'[k][n] = Absent
    <3>1. \A k \in Lxts, n \in Nids : ts'[k][n] = IF k \in tmp THEN Absent ELSE ts[k][n]
      BY <2>1 DEF Forget
    <3>2. \A k \in tmp, n \in Nids : before[k][n] = ts[k][n]
      BY <2>1, <2>2 DEF ReadOnce, As
    <3>3. QED
      BY <3>1, <3>2
  <2>4. \A n \in Nids : Net(before, ts', n) = Net(before, ts, n)
    BY <1>1, <2>2, <2>3, NetStays
  <2>5. \A n \in Nids : Unsent(n)' = Unsent(n)
    BY <2>1 DEF Unsent
  <2>6. \A n \in Nids : Net(before, ts, n)' = Net(before, ts', n)
    BY <2>1 DEF Net, Gains
  <2>7. Taken'
    BY <2>2, <2>4, <2>5, <2>6 DEF Taken
  <2>8. QED
    BY <2>1, <2>2, <2>7 DEF DeltaInv
<1>10. CASE SendStats \/ StatusAnswered \/ StatusUnanswered
  <2>1. pc \in {"send", "status"} /\ pc' \in {"status", Idle} /\ reading' = reading
    BY <1>10 DEF SendStats, StatusAnswered, StatusUnanswered
  <2>2. QED
    BY <2>1 DEF DeltaInv, Idle
<1>11. CASE Lustre
  BY <1>2, <1>11 DEF Lustre, Traffic, ExportComes, ExportGoes, TargetComes, TargetGoes
<1>12. CASE \E c \in Schedules : MasterRestarts(c)
  BY <1>2, <1>12 DEF MasterRestarts
<1>13. CASE UNCHANGED vars
  BY <1>2, <1>13 DEF vars
<1>14. QED
  BY <1>3, <1>4, <1>5, <1>6, <1>7, <1>8, <1>9, <1>10, <1>11, <1>12, <1>13 DEF Next, Step

(* What a round sends for a nid is exactly what its counters have changed  *)
(* by since the round before, for any targets and nids, whichever come and *)
(* go or cannot be read while it reads them.                               *)
THEOREM DeltaAlwaysExact == Spec => []DeltaExact
<1>1. Init => DeltaInv
  BY DEF Init, DeltaInv, NotReading, Idle
<1>2. ServdType /\ DeltaInv => DeltaExact
  <2>1. SUFFICES ASSUME DeltaInv, pc = "send", NEW n \in Nids
                 PROVE  (IF n \in cur THEN ns[n] ELSE 0) = Net(before, ts, n)
    BY DEF DeltaExact, Net
  <2>2. Unsent(n) = Net(before, ts, n)
    BY <2>1 DEF DeltaInv, Taken
  <2>3. QED
    BY <2>1, <2>2 DEF Unsent
<1>3. QED
  BY <1>1, <1>2, TypeAlways, NextDeltaInv, PTL DEF Spec

-----------------------------------------------------------------------------
(* The filter of xltop-clusd.  FlattenSeq is defined by a function that is *)
(* defined by itself: it is one that fits, if there is one.                *)

(* Induction for a set of numbers: there is no least one outside of it.    *)
LEMMA EveryNumber ==
  ASSUME NEW S, 0 \in S, \A m \in Nat : m \in S => m + 1 \in S
  PROVE  Nat \subseteq S
<1> DEFINE Outside == Nat \ S
<1>1. SUFFICES ASSUME Outside # {}
               PROVE  FALSE
  OBVIOUS
<1>2. PICK m \in Outside : \A l \in Outside : ~(<<l, m>> \in OpToRel(<, Nat))
  BY <1>1, NatLessThanWellFounded, WFMin
<1>3. m \in Nat /\ m - 1 \in Nat /\ m - 1 < m
  OBVIOUS
<1>4. <<m - 1, m>> \in OpToRel(<, Nat)
  BY <1>3 DEF OpToRel
<1>5. m - 1 \in S
  BY <1>2, <1>3, <1>4
<1>6. m - 1 + 1 \in S
  BY <1>3, <1>5
<1>7. QED
  BY <1>3, <1>6

FlatTo(f, l, s) == f = [q \in 1..l |-> IF q = 1 THEN s[q] ELSE f[q - 1] \o s[q]]

LEMMA FlatSteps ==
  ASSUME NEW f, NEW l \in Nat, NEW s, FlatTo(f, l, s)
  PROVE  \A q \in 1..l : f[q] = IF q = 1 THEN s[q] ELSE f[q - 1] \o s[q]
BY DEF FlatTo

LEMMA FlatExists ==
  ASSUME NEW s
  PROVE  \A l \in Nat : \E f : FlatTo(f, l, s)
<1> DEFINE S == {l \in Nat : \E f : FlatTo(f, l, s)}
<1>1. 0 \in S
  <2>1. FlatTo([q \in 1..0 |-> s[q]], 0, s)
    BY DEF FlatTo
  <2>2. QED
    BY <2>1
<1>2. ASSUME NEW l \in Nat, l \in S
      PROVE  l + 1 \in S
  <2>1. PICK f : FlatTo(f, l, s)
    BY <1>2
  <2> DEFINE last == IF l + 1 = 1 THEN s[l + 1] ELSE f[l] \o s[l + 1]
             g == [q \in 1..l + 1 |-> IF q = l + 1 THEN last ELSE f[q]]
  <2>2. \A q \in 1..l : f[q] = IF q = 1 THEN s[q] ELSE f[q - 1] \o s[q]
    BY <2>1, FlatSteps
  <2>3. \A q \in 1..l + 1 : g[q] = IF q = 1 THEN s[q] ELSE g[q - 1] \o s[q]
    <3>1. SUFFICES ASSUME NEW q \in 1..l + 1
                   PROVE  g[q] = IF q = 1 THEN s[q] ELSE g[q - 1] \o s[q]
      OBVIOUS
    <3>2. CASE q = l + 1
      <4>1. g[q] = last /\ (q # 1 => g[q - 1] = f[l])
        BY <3>2
      <4>2. QED
        BY <3>2, <4>1
    <3>3. CASE q # l + 1
      <4>1. q \in 1..l /\ g[q] = f[q] /\ (q # 1 => g[q - 1] = f[q - 1])
        BY <3>3
      <4>2. QED
        BY <2>2, <4>1
    <3>4. QED
      BY <3>2, <3>3
  <2>4. FlatTo(g, l + 1, s)
    BY <2>3 DEF FlatTo
  <2>5. QED
    BY <2>4
<1>3. Nat \subseteq S
  BY <1>1, <1>2, EveryNumber
<1>4. QED
  BY <1>3

LEMMA FlatAgree ==
  ASSUME NEW f, NEW g, NEW s, NEW t, NEW l \in Nat, FlatTo(f, l, s), FlatTo(g, l + 1, t),
         \A q \in 1..l : s[q] = t[q]
  PROVE  \A q \in 1..l : f[q] = g[q]
<1> DEFINE S == {m \in Nat : m + 1 <= l => f[m + 1] = g[m + 1]}
<1>1. \A q \in 1..l : /\ f[q] = IF q = 1 THEN s[q] ELSE f[q - 1] \o s[q]
                      /\ g[q] = IF q = 1 THEN s[q] ELSE g[q - 1] \o s[q]
  <2>1. \A q \in 1..l : f[q] = IF q = 1 THEN s[q] ELSE f[q - 1] \o s[q]
    BY FlatSteps
  <2>2. \A q \in 1..l + 1 : g[q] = IF q = 1 THEN t[q] ELSE g[q - 1] \o t[q]
    BY FlatSteps
  <2>3. 1..l \subseteq 1..l + 1
    OBVIOUS
  <2>4. QED
    BY <2>1, <2>2, <2>3
<1>2. 0 \in S
  BY <1>1
<1>3. ASSUME NEW m \in Nat, m \in S
      PROVE  m + 1 \in S
  <2>1. SUFFICES ASSUME m + 1 + 1 <= l
                 PROVE  f[m + 1 + 1] = g[m + 1 + 1]
    OBVIOUS
  <2>2. f[m + 1] = g[m + 1]
    BY <1>3, <2>1
  <2>3. m + 1 + 1 \in 1..l /\ m + 1 + 1 # 1 /\ m + 1 + 1 - 1 = m + 1
    BY <2>1
  <2>4. QED
    BY <1>1, <2>2, <2>3
<1>4. Nat \subseteq S
  BY <1>2, <1>3, EveryNumber
<1>5. ASSUME NEW q \in 1..l
      PROVE  f[q] = g[q]
  <2>1. q - 1 \in Nat /\ q - 1 + 1 = q
    OBVIOUS
  <2>2. QED
    BY <1>4, <2>1
<1>6. QED
  BY <1>5

(* t has one element more than the l of s. *)
Longer(t, s, l) ==
  /\ Len(s) = l /\ Len(t) = l + 1
  /\ l = 0 => s = <<>>
  /\ \A q \in 1..l : s[q] = t[q]

(* It is flattened behind the others. *)
LEMMA FlattenMore ==
  ASSUME NEW T, NEW l \in Nat, NEW s, NEW t, Longer(t, s, l), t[l + 1] \in Seq(T)
  PROVE  FlattenSeq(t) = FlattenSeq(s) \o t[l + 1]
<1> USE DEF Longer
<1> DEFINE F(u) == CHOOSE f : FlatTo(f, Len(u), u)
<1>1. \A u : FlattenSeq(u) = IF Len(u) = 0 THEN u ELSE F(u)[Len(u)]
  BY DEF FlattenSeq, FlatTo
<1>2. FlatTo(F(s), l, s) /\ FlatTo(F(t), l + 1, t)
  <2>1. \E f : FlatTo(f, l, s)
    BY FlatExists
  <2>2. \E f : FlatTo(f, l + 1, t)
    <3>1. l + 1 \in Nat
      OBVIOUS
    <3>2. QED
      BY <3>1, FlatExists
  <2>3. QED
    BY <2>1, <2>2
<1> HIDE DEF F
<1>3. F(t)[l + 1] = IF l + 1 = 1 THEN t[l + 1] ELSE F(t)[l + 1 - 1] \o t[l + 1]
  <2>1. l + 1 \in Nat /\ l + 1 \in 1..l + 1
    OBVIOUS
  <2>2. \A q \in 1..l + 1 : F(t)[q] = IF q = 1 THEN t[q] ELSE F(t)[q - 1] \o t[q]
    BY <1>2, <2>1, FlatSteps
  <2>3. QED
    BY <2>1, <2>2
<1>4. CASE l = 0
  <2>1. <<>> \o t[l + 1] = t[l + 1]
    BY ConcatEmptySeq
  <2>2. FlattenSeq(s) = <<>>
    BY <1>1, <1>4
  <2>3. FlattenSeq(t) = F(t)[l + 1] /\ F(t)[l + 1] = t[l + 1]
    <3>1. l + 1 = 1 /\ Len(t) # 0
      BY <1>4
    <3>2. FlattenSeq(t) = F(t)[Len(t)]
      BY <1>1, <3>1
    <3>3. QED
      BY <1>3, <3>1, <3>2
  <2>4. QED
    BY <2>1, <2>2, <2>3
<1>5. CASE l # 0
  <2>1. \A q \in 1..l : F(s)[q] = F(t)[q]
    BY <1>2, FlatAgree
  <2>2. F(s)[l] = F(t)[l] /\ l + 1 # 1 /\ l + 1 - 1 = l /\ l + 1 # 0
    BY <1>5, <2>1
  <2>3. FlattenSeq(s) = F(s)[l] /\ FlattenSeq(t) = F(t)[l + 1]
    BY <1>1, <1>5, <2>2
  <2>4. QED
    BY <1>3, <2>2, <2>3
<1>6. QED
  BY <1>4, <1>5

-----------------------------------------------------------------------------
(* What the input r says of its lines. *)

HostLines(r, q) == {p \in 1..q - 1 : Alpha(r[p])}

AboveIn(r, q) == IF HostLines(r, q) = {} THEN <<"bogus", "">> ELSE r[Max(HostLines(r, q))]

HasJobIn(r, q) == \E p \in 1..q - 1 : r[p][1] = "job" /\ \A s \in p..q - 1 : ~Alpha(r[s])

DueFor(h, l, has) ==
  CASE h[1] = "host" /\ l[1] = "job" -> << <<h[2], l[2]>> >>
    [] h[1] = "host" /\ Alpha(l) /\ ~has -> << <<h[2], IDLE_JOBID>> >>
    [] OTHER -> <<>>

DueIn(r, q) == DueFor(AboveIn(r, q), r[q], HasJobIn(r, q))

LEMMA IdealIs ==
  /\ \A q : Above(q) = AboveIn(read, q) /\ HasJob(q) = HasJobIn(read, q)
            /\ Due(q) = DueIn(read, q)
  /\ FilterExact <=> out = FlattenSeq([q \in 1..Len(read) |-> DueIn(read, q)])
<1>1. \A q : Above(q) = AboveIn(read, q)
  BY DEF Above, AboveIn, HostLines
<1>2. \A q : HasJob(q) = HasJobIn(read, q)
  BY DEF HasJob, HasJobIn
<1>3. \A q : Due(q) = DueIn(read, q)
  BY <1>1, <1>2 DEF Due, DueIn, DueFor
<1>4. [q \in 1..Len(read) |-> Due(q)] = [q \in 1..Len(read) |-> DueIn(read, q)]
  BY <1>3
<1>5. QED
  BY <1>1, <1>2, <1>3, <1>4 DEF FilterExact

(* A set of numbers up to m has a greatest one: the least that is missing  *)
(* to m.                                                                   *)
LEMMA GreatestExists ==
  ASSUME NEW m \in Nat, NEW A, A \subseteq 1..m, A # {}
  PROVE  Max(A) \in A /\ \A y \in A : Max(A) >= y
<1> DEFINE B == {z \in Nat : m - z \in A}
<1>1. B # {} /\ B \subseteq Nat
  <2>1. PICK y \in A : TRUE
    OBVIOUS
  <2>2. y \in 1..m
    BY <2>1
  <2>3. m - y \in Nat /\ m - (m - y) = y
    BY <2>2
  <2>4. m - y \in B
    BY <2>1, <2>3
  <2>5. QED
    BY <2>4
<1>2. PICK z \in B : \A w \in B : ~(<<w, z>> \in OpToRel(<, Nat))
  BY <1>1, NatLessThanWellFounded, WFMin
<1>3. z \in Nat /\ m - z \in A
  OBVIOUS
<1>4. ASSUME NEW y \in A
      PROVE  m - z >= y
  <2>1. y \in 1..m
    OBVIOUS
  <2>2. m - y \in Nat /\ m - (m - y) = y
    BY <2>1
  <2>3. m - y \in B
    BY <2>2
  <2>4. ~(m - y < z)
    BY <1>2, <1>3, <2>2, <2>3 DEF OpToRel
  <2>5. QED
    BY <1>3, <2>1, <2>4
<1>5. \E x \in A : \A y \in A : x >= y
  BY <1>3, <1>4
<1>6. QED
  BY <1>5 DEF Max

(* The greatest one is any that is not below another.                      *)
LEMMA GreatestIs ==
  ASSUME NEW m \in Nat, NEW A, A \subseteq 1..m, NEW x \in A, \A y \in A : x >= y
  PROVE  Max(A) = x
<1>1. Max(A) \in A /\ \A y \in A : Max(A) >= y
  BY GreatestExists
<1> DEFINE z == Max(A)
<1>2. z \in A /\ z >= x /\ x >= z
  BY <1>1
<1> HIDE DEF z
<1>3. z = x
  BY <1>2
<1>4. QED
  BY <1>3 DEF z

(* One line l more, behind the m that were read. *)
LEMMA LineMore ==
  ASSUME NEW r \in Seq(Lines), NEW l \in Lines, NEW m \in Nat, m = Len(r)
  PROVE  /\ Append(r, l) \in Seq(Lines) /\ Len(Append(r, l)) = m + 1
         /\ Append(r, l)[m + 1] = l /\ \A p \in 1..m : Append(r, l)[p] = r[p]
BY AppendProperties

(* It changes nothing of what is due for the lines before it. *)
LEMMA AboveStays ==
  ASSUME NEW r \in Seq(Lines), NEW l \in Lines, NEW m \in Nat, m = Len(r), NEW q \in 1..m + 1
  PROVE  /\ AboveIn(Append(r, l), q) = AboveIn(r, q)
         /\ HasJobIn(Append(r, l), q) = HasJobIn(r, q)
<1> DEFINE R == Append(r, l)
<1>1. \A p \in 1..q - 1 : R[p] = r[p]
  <2>1. \A p \in 1..m : R[p] = r[p]
    BY LineMore
  <2>2. 1..q - 1 \subseteq 1..m
    OBVIOUS
  <2>3. QED
    BY <2>1, <2>2
<1> HIDE DEF R
<1>2. HostLines(R, q) = HostLines(r, q)
  BY <1>1 DEF HostLines
<1>3. AboveIn(R, q) = AboveIn(r, q)
  <2>1. CASE HostLines(r, q) = {}
    BY <1>2, <2>1 DEF AboveIn
  <2>2. CASE HostLines(r, q) # {}
    <3>1. q - 1 \in Nat /\ HostLines(r, q) \subseteq 1..q - 1
      BY DEF HostLines
    <3>2. Max(HostLines(r, q)) \in 1..q - 1
      BY <2>2, <3>1, GreatestExists
    <3>3. QED
      BY <1>1, <1>2, <2>2, <3>2 DEF AboveIn
  <2>3. QED
    BY <2>1, <2>2
<1>4. HasJobIn(R, q) = HasJobIn(r, q)
  <2>1. \A p \in 1..q - 1 : \A s \in p..q - 1 : R[s] = r[s]
    BY <1>1
  <2>2. HasJobIn(R, q) <=> HasJobIn(r, q)
    BY <1>1, <2>1 DEF HasJobIn
  <2>3. HasJobIn(R, q) \in BOOLEAN /\ HasJobIn(r, q) \in BOOLEAN
    BY DEF HasJobIn
  <2>4. QED
    BY <2>2, <2>3
<1>5. QED
  BY <1>3, <1>4 DEF R

(* It is the host of the lines that come, or leaves them with theirs.      *)
LEMMA AboveMore ==
  ASSUME NEW r \in Seq(Lines), NEW l \in Lines, NEW m \in Nat, m = Len(r)
  PROVE  /\ AboveIn(Append(r, l), m + 2) = IF Alpha(l) THEN l ELSE AboveIn(r, m + 1)
         /\ HasJobIn(Append(r, l), m + 2) <=> /\ ~Alpha(l)
                                              /\ l[1] = "job" \/ HasJobIn(r, m + 1)
<1> DEFINE R == Append(r, l)
<1>1. R[m + 1] = l /\ \A p \in 1..m : R[p] = r[p]
  BY LineMore
<1> HIDE DEF R
<1>2. m + 2 - 1 = m + 1 /\ m + 1 - 1 = m
  OBVIOUS
<1>3. AboveIn(R, m + 2) = IF Alpha(l) THEN l ELSE AboveIn(r, m + 1)
  <2>1. CASE Alpha(l)
    <3>1. /\ HostLines(R, m + 2) \subseteq 1..m + 1 /\ m + 1 \in HostLines(R, m + 2)
          /\ \A y \in HostLines(R, m + 2) : m + 1 >= y
      BY <1>1, <1>2, <2>1 DEF HostLines
    <3>2. Max(HostLines(R, m + 2)) = m + 1
      <4>1. m + 1 \in Nat
        OBVIOUS
      <4>2. QED
        BY <3>1, <4>1, GreatestIs
    <3>3. HostLines(R, m + 2) # {}
      BY <3>1
    <3>4. QED
      BY <1>1, <2>1, <3>2, <3>3 DEF AboveIn
  <2>2. CASE ~Alpha(l)
    <3>1. HostLines(R, m + 2) = HostLines(r, m + 1)
      <4>1. \A p \in 1..m + 1 : p \in 1..m \/ p = m + 1
        OBVIOUS
      <4>2. 1..m \subseteq 1..m + 1
        OBVIOUS
      <4>3. QED
        BY <1>1, <1>2, <2>2, <4>1, <4>2 DEF HostLines
    <3>2. CASE HostLines(r, m + 1) = {}
      BY <2>2, <3>1, <3>2 DEF AboveIn
    <3>3. CASE HostLines(r, m + 1) # {}
      <4>1. HostLines(r, m + 1) \subseteq 1..m
        BY <1>2 DEF HostLines
      <4>2. Max(HostLines(r, m + 1)) \in 1..m
        BY <3>3, <4>1, GreatestExists
      <4>3. QED
        BY <1>1, <2>2, <3>1, <3>3, <4>2 DEF AboveIn
    <3>4. QED
      BY <3>2, <3>3
  <2>3. QED
    BY <2>1, <2>2
<1>4. HasJobIn(R, m + 2) <=> ~Alpha(l) /\ (l[1] = "job" \/ HasJobIn(r, m + 1))
  <2>1. CASE Alpha(l)
    <3>1. \A p \in 1..m + 1 : m + 1 \in p..m + 1
      OBVIOUS
    <3>2. QED
      BY <1>1, <1>2, <2>1, <3>1 DEF HasJobIn
  <2>2. CASE ~Alpha(l) /\ l[1] = "job"
    <3>1. m + 1 \in 1..m + 1 /\ \A s \in m + 1..m + 1 : s = m + 1
      OBVIOUS
    <3>2. QED
      BY <1>1, <1>2, <2>2, <3>1 DEF HasJobIn
  <2>3. CASE ~Alpha(l) /\ l[1] # "job"
    <3>1. \A p \in 1..m + 1 : p \in 1..m \/ p = m + 1
      OBVIOUS
    <3>2. \A p \in 1..m : \A s : s \in p..m + 1 <=> s \in p..m \/ s = m + 1
      OBVIOUS
    <3>3. \A p \in 1..m : \A s \in p..m : R[s] = r[s]
      BY <1>1
    <3>4. 1..m \subseteq 1..m + 1
      OBVIOUS
    <3>5. HasJobIn(R, m + 2) <=>
            \E p \in 1..m : r[p][1] = "job" /\ \A s \in p..m : ~Alpha(r[s])
      BY <1>1, <1>2, <2>3, <3>1, <3>2, <3>3, <3>4 DEF HasJobIn
    <3>6. QED
      BY <1>2, <2>3, <3>5 DEF HasJobIn
  <2>4. QED
    BY <2>1, <2>2, <2>3
<1>5. QED
  BY <1>3, <1>4 DEF R

(* What it adds to the output of the ideal filter. *)
LEMMA IdealMore ==
  ASSUME NEW T, NEW r \in Seq(Lines), NEW l \in Lines, NEW m \in Nat, m = Len(r),
         DueFor(AboveIn(r, m + 1), l, HasJobIn(r, m + 1)) \in Seq(T)
  PROVE  FlattenSeq([q \in 1..Len(Append(r, l)) |-> DueIn(Append(r, l), q)]) =
           FlattenSeq([q \in 1..m |-> DueIn(r, q)])
           \o DueFor(AboveIn(r, m + 1), l, HasJobIn(r, m + 1))
<1> DEFINE R == Append(r, l)
           s == [q \in 1..m |-> DueIn(r, q)]
           t == [q \in 1..m + 1 |-> DueIn(R, q)]
<1>1. Len(R) = m + 1 /\ R[m + 1] = l /\ \A p \in 1..m : R[p] = r[p]
  BY LineMore
<1>2. \A q \in 1..m + 1 : AboveIn(R, q) = AboveIn(r, q) /\ HasJobIn(R, q) = HasJobIn(r, q)
  BY AboveStays
<1> HIDE DEF R
<1>3. Len(s) = m /\ Len(t) = m + 1
  OBVIOUS
<1>4. m = 0 => s = <<>>
  OBVIOUS
<1>5. \A q \in 1..m : s[q] = t[q]
  <2>1. 1..m \subseteq 1..m + 1
    OBVIOUS
  <2>2. QED
    BY <1>1, <1>2, <2>1 DEF DueIn
<1>6. t[m + 1] = DueFor(AboveIn(r, m + 1), l, HasJobIn(r, m + 1))
  <2>1. m + 1 \in 1..m + 1
    OBVIOUS
  <2>2. QED
    BY <1>1, <1>2, <2>1 DEF DueIn
<1> HIDE DEF s, t
<1>7. FlattenSeq(t) = FlattenSeq(s) \o t[m + 1]
  <2>1. t[m + 1] \in Seq(T)
    BY <1>6
  <2>2. Longer(t, s, m)
    BY <1>3, <1>4, <1>5 DEF Longer
  <2>3. QED
    BY <2>1, <2>2, FlattenMore
<1>8. QED
  BY <1>1, <1>6, <1>7 DEF R, s, t

-----------------------------------------------------------------------------
(* The states of the filter. *)

Pairs == Hosts \X (JobIds \cup {IDLE_JOBID})

(* The host line that the next line of the input is below, and whether a   *)
(* job was listed there.                                                   *)
Current == AboveIn(read, Len(read) + 1)
CurrentHasJob == HasJobIn(read, Len(read) + 1)

Ideal(r) == FlattenSeq([q \in 1..Len(r) |-> DueIn(r, q)])

(* The pointer host is to the line that an ideal filter would look up, and *)
(* found_job is what it would find.                                        *)
Remembers ==
  /\ inner => Current[1] = "host" /\ buf[host] = Current /\ (found <=> CurrentHasJob)
  /\ ~inner => Current[1] # "host"

FilterInv == FilterTypeOK /\ out = Ideal(read) /\ Remembers

LEMMA LineIs ==
  ASSUME NEW l \in Lines
  PROVE  /\ l[1] \in {"host", "bogus", "job", "other"}
         /\ l[1] = "host" => l[2] \in Hosts
         /\ l[1] = "job" => l[2] \in JobIds
         /\ Alpha(l) <=> l[1] = "host" \/ l[1] = "bogus"
<1>1. \/ \E x \in Hosts : l = <<"host", x>> \/ l = <<"bogus", x>>
      \/ \E j \in JobIds : l = <<"job", j>>
      \/ l = <<"other", "">>
  BY DEF Lines
<1>2. ASSUME NEW x \in Hosts, l = <<"host", x>>
      PROVE  l[1] = "host" /\ l[2] \in Hosts
  BY <1>2
<1>3. ASSUME NEW x \in Hosts, l = <<"bogus", x>>
      PROVE  l[1] = "bogus"
  BY <1>3
<1>4. ASSUME NEW j \in JobIds, l = <<"job", j>>
      PROVE  l[1] = "job" /\ l[2] \in JobIds
  BY <1>4
<1>5. CASE l = <<"other", "">>
  BY <1>5 DEF Alpha
<1>6. QED
  BY <1>1, <1>2, <1>3, <1>4, <1>5 DEF Alpha

LEMMA InitFilter == FilterInit => FilterInv
<1>1. SUFFICES ASSUME FilterInit
               PROVE  FilterInv
  OBVIOUS
<1>2. /\ read = <<>> /\ buf = [b \in 0..1 |-> <<"other", "">>] /\ i = 0 /\ host = Null
      /\ found = FALSE /\ inner = FALSE /\ out = <<>> /\ done = FALSE
  BY <1>1 DEF FilterInit
<1>3. <<"other", "">> \in Lines
  BY DEF Lines
<1>4. FilterTypeOK
  <2>1. <<>> \in Seq(Lines) /\ <<>> \in Seq(Pairs)
    BY EmptySeq
  <2>2. buf \in [0..1 -> Lines]
    BY <1>2, <1>3
  <2>3. i \in 0..1
    <3>1. i = 0
      BY <1>2, Zenon
    <3>2. QED
      BY <3>1
  <2>4. host \in {i, Null} /\ (inner <=> host # Null)
    BY <1>2, Zenon
  <2>5. QED
    BY <1>2, <2>1, <2>2, <2>3, <2>4 DEF FilterTypeOK, Pairs
<1>5. Len(read) = 0
  BY <1>2
<1>6. out = Ideal(read)
  <2>1. [q \in 1..Len(read) |-> DueIn(read, q)] = <<>> /\ Len(<<>>) = 0
    BY <1>5
  <2>2. Ideal(read) = FlattenSeq(<<>>)
    BY <2>1 DEF Ideal
  <2>3. FlattenSeq(<<>>) = <<>>
    BY <2>1 DEF FlattenSeq
  <2>4. QED
    BY <1>2, <2>2, <2>3
<1>7. Current[1] # "host"
  <2>1. HostLines(read, 0 + 1) = {}
    BY DEF HostLines
  <2>2. Current = <<"bogus", "">>
    BY <1>5, <2>1 DEF Current, AboveIn
  <2>3. QED
    BY <2>2
<1>8. QED
  BY <1>2, <1>4, <1>6, <1>7 DEF FilterInv, Remembers

(* A line l was read, and e written for it, which is what was due. *)
LEMMA LineKeepsIdeal ==
  ASSUME FilterInv, NEW l \in Lines, More(l), NEW e,
         e = DueFor(Current, l, CurrentHasJob), e \in Seq(Pairs), out' = out \o e
  PROVE  /\ read' \in Seq(Lines) /\ out' \in Seq(Pairs) /\ out' = Ideal(read')
         /\ Current' = IF Alpha(l) THEN l ELSE Current
         /\ CurrentHasJob' <=> ~Alpha(l) /\ (l[1] = "job" \/ CurrentHasJob)
<1> DEFINE m == Len(read)
<1>1. read \in Seq(Lines) /\ read' = Append(read, l) /\ out \in Seq(Pairs) /\ m \in Nat
  BY LenProperties DEF FilterInv, FilterTypeOK, More, Pairs
<1>2. read' \in Seq(Lines) /\ Len(read') = m + 1
  BY <1>1, LineMore
<1>3. out' \in Seq(Pairs)
  BY <1>1, ConcatProperties
<1>4. /\ AboveIn(read', m + 2) = IF Alpha(l) THEN l ELSE AboveIn(read, m + 1)
      /\ HasJobIn(read', m + 2) <=> ~Alpha(l) /\ (l[1] = "job" \/ HasJobIn(read, m + 1))
  BY <1>1, AboveMore
<1>5. out' = Ideal(read')
  <2>1. DueFor(AboveIn(read, m + 1), l, HasJobIn(read, m + 1)) \in Seq(Pairs)
    BY DEF Current, CurrentHasJob
  <2>2. Ideal(read') = Ideal(read) \o DueFor(AboveIn(read, m + 1), l, HasJobIn(read, m + 1))
    BY <1>1, <2>1, IdealMore DEF Ideal
  <2>3. QED
    BY <2>2 DEF FilterInv, Current, CurrentHasJob
<1>6. m + 1 + 1 = m + 2
  BY <1>1
<1>7. QED
  BY <1>2, <1>3, <1>4, <1>5, <1>6 DEF Current, CurrentHasJob

LEMMA AgainKeeps ==
  ASSUME FilterInv, NEW l \in Lines, More(l), NEW b \in 0..1, Again(l, b),
         buf' = [buf EXCEPT ![b] = l], Alpha(l), NEW e,
         e = DueFor(Current, l, CurrentHasJob), e \in Seq(Pairs), out' = out \o e
  PROVE  FilterInv'
<1>1. /\ read' \in Seq(Lines) /\ out' \in Seq(Pairs) /\ out' = Ideal(read')
      /\ Current' = l /\ ~CurrentHasJob'
  BY LineKeepsIdeal
<1>2. buf \in [0..1 -> Lines] /\ found \in BOOLEAN /\ done \in BOOLEAN
  BY DEF FilterInv, FilterTypeOK
<1>3. /\ i' = b /\ host' = (IF l[1] = "host" THEN b ELSE Null)
      /\ inner' = (l[1] = "host") /\ found' = (found /\ l[1] # "host") /\ done' = done
  BY DEF Again
<1>4. buf' \in [0..1 -> Lines] /\ buf'[b] = l
  BY <1>2
<1>5. FilterTypeOK'
  <2>1. b # Null
    BY DEF Null
  <2>2. host' \in {i', Null} /\ (inner' <=> host' # Null)
    BY <1>3, <2>1
  <2>3. found' \in BOOLEAN /\ done' \in BOOLEAN /\ i' \in 0..1
    BY <1>2, <1>3
  <2>4. QED
    BY <1>1, <1>4, <2>2, <2>3 DEF FilterTypeOK, Pairs
<1>6. Remembers'
  BY <1>1, <1>3, <1>4 DEF Remembers
<1>7. QED
  BY <1>1, <1>5, <1>6 DEF FilterInv

(* While there is no host nothing is due. *)
LEMMA OuterKeeps ==
  ASSUME FilterInv, NEW l \in Lines, OuterLine(l)
  PROVE  FilterInv'
<1> DEFINE e == DueFor(Current, l, CurrentHasJob)
<1>1. ~inner /\ More(l) /\ buf' = [buf EXCEPT ![i] = l] /\ out' = out /\ i \in 0..1
  BY DEF OuterLine, FilterInv, FilterTypeOK
<1>2. Current[1] # "host"
  BY <1>1 DEF FilterInv, Remembers
<1>3. e = <<>>
  BY <1>2 DEF DueFor
<1>4. e \in Seq(Pairs) /\ out' = out \o e
  <2>1. out \in Seq(Pairs) /\ <<>> \in Seq(Pairs)
    BY EmptySeq DEF FilterInv, FilterTypeOK, Pairs
  <2>2. out \o <<>> = out
    BY <2>1, ConcatEmptySeq
  <2>3. QED
    BY <1>1, <1>3, <2>1, <2>2
<1>5. CASE Alpha(l)
  <2>1. Again(l, i)
    BY <1>5 DEF OuterLine
  <2> HIDE DEF e
  <2>2. e = DueFor(Current, l, CurrentHasJob)
    BY DEF e
  <2>3. QED
    BY <1>1, <1>4, <1>5, <2>1, <2>2, AgainKeeps
<1>6. CASE ~Alpha(l)
  <2>1. UNCHANGED <<i, host, found, inner, done>>
    BY <1>6 DEF OuterLine
  <2>2. /\ read' \in Seq(Lines) /\ out' \in Seq(Pairs) /\ out' = Ideal(read')
        /\ Current' = Current
    BY <1>1, <1>4, <1>6, LineKeepsIdeal
  <2>3. buf' \in [0..1 -> Lines]
    BY <1>1 DEF FilterInv, FilterTypeOK
  <2>4. FilterTypeOK'
    BY <2>1, <2>2, <2>3 DEF FilterInv, FilterTypeOK, Pairs
  <2>5. Remembers'
    BY <1>1, <1>2, <2>1, <2>2 DEF Remembers
  <2>6. QED
    BY <2>2, <2>4, <2>5 DEF FilterInv
<1>7. QED
  BY <1>5, <1>6

(* The buffer that is read into is not the one that host points into. *)
LEMMA OtherBuffer ==
  ASSUME FilterInv, inner
  PROVE  /\ i \in 0..1 /\ host = i /\ Other \in 0..1 /\ Other # host
         /\ buf[host] = Current /\ Current[1] = "host" /\ Current[2] \in Hosts
<1>1. i \in 0..1 /\ host = i /\ buf \in [0..1 -> Lines]
  BY DEF FilterInv, FilterTypeOK
<1>2. Other \in 0..1 /\ Other # host
  BY <1>1 DEF Other
<1>3. buf[host] = Current /\ Current[1] = "host"
  BY DEF FilterInv, Remembers
<1>4. Current[2] \in Hosts
  <2>1. buf[host] \in Lines
    BY <1>1
  <2>2. QED
    BY <1>3, <2>1, LineIs
<1>5. QED
  BY <1>1, <1>2, <1>3, <1>4

LEMMA InnerHostKeeps ==
  ASSUME FilterInv, NEW l \in Lines, InnerHost(l)
  PROVE  FilterInv'
<1> DEFINE e == DueFor(Current, l, CurrentHasJob)
           d == <<Current[2], IDLE_JOBID>>
<1>1. /\ inner /\ More(l) /\ Alpha(l) /\ buf' = [buf EXCEPT ![Other] = l] /\ Again(l, Other)
      /\ out' = IF found THEN out ELSE Append(out, <<buf'[host][2], IDLE_JOBID>>)
  BY DEF InnerHost
<1>2. /\ i \in 0..1 /\ host = i /\ Other \in 0..1 /\ Other # host
      /\ buf[host] = Current /\ Current[1] = "host" /\ Current[2] \in Hosts
  BY <1>1, OtherBuffer
<1>3. buf'[host] = Current
  BY <1>1, <1>2 DEF FilterInv, FilterTypeOK
<1>4. l[1] # "job"
  BY <1>1, LineIs
<1>5. (found <=> CurrentHasJob) /\ out \in Seq(Pairs) /\ d \in Pairs
  BY <1>1, <1>2 DEF FilterInv, Remembers, FilterTypeOK, Pairs
<1>6. e \in Seq(Pairs) /\ out' = out \o e
  <2>1. CASE found
    <3>1. e = <<>> /\ out' = out
      BY <1>1, <1>4, <1>5, <2>1 DEF DueFor
    <3>2. <<>> \in Seq(Pairs) /\ out \o <<>> = out
      BY <1>5, EmptySeq, ConcatEmptySeq
    <3>3. QED
      BY <3>1, <3>2
  <2>2. CASE ~found
    <3>1. e = <<d>>
      BY <1>1, <1>2, <1>4, <1>5, <2>2 DEF DueFor
    <3>2. out' = Append(out, d)
      BY <1>1, <1>3, <2>2
    <3> HIDE DEF d, e
    <3>3. Append(out, d) = out \o <<d>> /\ <<d>> \in Seq(Pairs)
      BY <1>5
    <3>4. QED
      BY <3>1, <3>2, <3>3
  <2>3. QED
    BY <2>1, <2>2
<1> HIDE DEF e
<1>7. e = DueFor(Current, l, CurrentHasJob)
  BY DEF e
<1>8. QED
  BY <1>1, <1>2, <1>6, <1>7, AgainKeeps

LEMMA InnerOtherKeeps ==
  ASSUME FilterInv, NEW l \in Lines, InnerOther(l)
  PROVE  FilterInv'
<1> DEFINE e == DueFor(Current, l, CurrentHasJob)
           d == <<Current[2], l[2]>>
<1>1. /\ inner /\ More(l) /\ ~Alpha(l) /\ buf' = [buf EXCEPT ![Other] = l]
      /\ out' = (IF l[1] = "job" THEN Append(out, <<buf'[host][2], l[2]>>) ELSE out)
      /\ found' = (found \/ l[1] = "job") /\ UNCHANGED <<i, host, inner, done>>
  BY DEF InnerOther
<1>2. /\ i \in 0..1 /\ host = i /\ Other \in 0..1 /\ Other # host
      /\ buf[host] = Current /\ Current[1] = "host" /\ Current[2] \in Hosts
  BY <1>1, OtherBuffer
<1>3. buf'[host] = Current /\ buf' \in [0..1 -> Lines]
  BY <1>1, <1>2 DEF FilterInv, FilterTypeOK
<1>4. (found <=> CurrentHasJob) /\ out \in Seq(Pairs)
  BY <1>1 DEF FilterInv, Remembers, FilterTypeOK, Pairs
<1>5. e \in Seq(Pairs) /\ out' = out \o e
  <2>1. CASE l[1] # "job"
    <3>1. e = <<>> /\ out' = out
      BY <1>1, <2>1 DEF DueFor
    <3>2. <<>> \in Seq(Pairs) /\ out \o <<>> = out
      BY <1>4, EmptySeq, ConcatEmptySeq
    <3>3. QED
      BY <3>1, <3>2
  <2>2. CASE l[1] = "job"
    <3>1. e = <<d>>
      BY <1>1, <1>2, <2>2 DEF DueFor
    <3>2. out' = Append(out, d)
      BY <1>1, <1>3, <2>2
    <3>3. d \in Pairs
      BY <1>2, <2>2, LineIs DEF Pairs
    <3> HIDE DEF d, e
    <3>4. Append(out, d) = out \o <<d>> /\ <<d>> \in Seq(Pairs)
      BY <1>4, <3>3
    <3>5. QED
      BY <3>1, <3>2, <3>4
  <2>3. QED
    BY <2>1, <2>2
<1> HIDE DEF e
<1>6. e = DueFor(Current, l, CurrentHasJob)
  BY DEF e
<1>7. /\ read' \in Seq(Lines) /\ out' \in Seq(Pairs) /\ out' = Ideal(read')
      /\ Current' = Current /\ (CurrentHasJob' <=> l[1] = "job" \/ CurrentHasJob)
  BY <1>1, <1>5, <1>6, LineKeepsIdeal
<1>8. FilterTypeOK'
  BY <1>1, <1>3, <1>7 DEF FilterInv, FilterTypeOK, Pairs
<1>9. Remembers'
  BY <1>1, <1>2, <1>3, <1>4, <1>7 DEF Remembers
<1>10. QED
  BY <1>7, <1>8, <1>9 DEF FilterInv

LEMMA NextFilter == FilterInv /\ [FilterNext]_filterVars => FilterInv'
<1>1. SUFFICES ASSUME FilterInv, [FilterNext]_filterVars
               PROVE  FilterInv'
  OBVIOUS
<1>2. CASE Eof
  BY <1>1, <1>2 DEF Eof, FilterInv, FilterTypeOK, Remembers, Current, CurrentHasJob
<1>3. CASE UNCHANGED filterVars
  BY <1>1, <1>3 DEF filterVars, FilterInv, FilterTypeOK, Remembers, Current, CurrentHasJob
<1>4. QED
  BY <1>1, <1>2, <1>3, OuterKeeps, InnerHostKeeps, InnerOtherKeeps DEF FilterNext

(* The name of the current host is never lost: while the filter has one,   *)
(* the buffer that host points into still holds the last host line of the  *)
(* input, though the other is written over with each line, and found_job   *)
(* says whether that line has had a job.  It has one exactly while that    *)
(* line is a real host.                                                    *)
THEOREM FilterAlwaysRemembers == FilterSpec => [](FilterTypeOK /\ Remembers)
<1>1. FilterInv => FilterTypeOK /\ Remembers
  BY DEF FilterInv
<1>2. QED
  BY <1>1, InitFilter, NextFilter, PTL DEF FilterSpec

(* For an input of any length every job is written with the host it is     *)
(* listed under, and a host is called idle only if it has none.            *)
THEOREM FilterAlwaysExact == FilterSpec => []FilterExact
<1>1. FilterInv => FilterExact
  BY IdealIs DEF FilterInv, Ideal
<1>2. QED
  BY <1>1, InitFilter, NextFilter, PTL DEF FilterSpec
=============================================================================
