---------------------- MODULE ArchiveRecordStore_proofs ----------------------
(***************************************************************************)
(* Proofs about ArchiveRecordStore, for any keys, lines, cells and kills:  *)
(* its types, its cursor, its count and its data, and that it implements   *)
(* RecordStore.  All of them rest on what read_manifest() makes of a line  *)
(* more, of the lines a kill leaves, and of those vacuum() writes.         *)
(*                                                                         *)
(* Assumed where it is needed: clients insert at the end of the archive    *)
(* (~ReadsThenInserts, of RecordsCorrect), aim when they have begun to     *)
(* sequence or at the first key (~AimsAtStart, of AimCorrect), and have    *)
(* fewer keys than an int counts (of CountCorrect).                        *)
(***************************************************************************)
EXTENDS ArchiveRecordStoreProperties, SequenceTheorems, FiniteSetTheorems,
        FunctionTheorems, WellFoundedInduction, TLAPS

USE ArchiveAssumption

-----------------------------------------------------------------------------
(* Every nonempty set of natural numbers has a least element.              *)
LEMMA MinFound ==
    ASSUME NEW S \in SUBSET Nat, S # {}
    PROVE  Min(S) \in S /\ \A y \in S : Min(S) <= y
<1> DEFINE R == OpToRel(<, Nat)
<1>1. IsWellFoundedOn(R, Nat)
  BY NatLessThanWellFounded
<1>2. \A x, y \in Nat : x < y => <<x, y>> \in R
  BY DEF OpToRel
<1> HIDE DEF R
<1>3. PICK x \in S : \A y \in S : ~(<<y, x>> \in R)
  BY <1>1, WFMin
<1>4. ASSUME NEW y \in S PROVE x <= y
  <2>1. x \in Nat /\ y \in Nat
    OBVIOUS
  <2>2. ~(y < x)
    BY <1>2, <1>3, <2>1
  <2> QED
    BY <2>1, <2>2
<1> QED
  BY <1>4 DEF Min

(* A bounded one has a greatest.                                           *)
LEMMA MaxFound ==
    ASSUME NEW n \in Nat, NEW S \in SUBSET (1 .. n), S # {}
    PROVE  Max(S) \in S /\ \A y \in S : Max(S) >= y
<1> DEFINE T == {t \in 0 .. n : n - t \in S}
<1>1. PICK s \in S : TRUE
  OBVIOUS
<1>2. n - s \in T /\ T \in SUBSET Nat
  BY <1>1
<1>3. PICK t \in T : \A u \in T : t <= u
  BY <1>2, MinFound
<1>4. ASSUME NEW y \in S PROVE n - t >= y
  <2>1. n - y \in T
    OBVIOUS
  <2>2. t <= n - y /\ t \in Nat
    BY <1>3, <2>1
  <2> QED
    BY <2>2
<1>5. n - t \in S
  BY <1>3
<1> QED
  BY <1>4, <1>5 DEF Max

(* Ascending(S) counts the members of S up: the n-th has n at or below it. *)
LEMMA AscendingOf ==
    ASSUME NEW S \in SUBSET Nat, IsFiniteSet(S)
    PROVE  /\ Cardinality(S) \in Nat
           /\ Ascending(S) \in [1 .. Cardinality(S) -> S]
           /\ \A m, n \in 1 .. Cardinality(S) :
                m < n => Ascending(S)[m] < Ascending(S)[n]
           /\ \A i \in S : \E n \in 1 .. Cardinality(S) : Ascending(S)[n] = i
           /\ \A i \in S : \A n \in 1 .. Cardinality(S) :
                Ascending(S)[n] = i <=> Cardinality({j \in S : j <= i}) = n
<1> DEFINE below(i) == {j \in S : j <= i}
           N == Cardinality(S)
           rank == [i \in S |-> Cardinality(below(i))]
<1>1. N \in Nat
  BY FS_CardinalityType
<1>2. ASSUME NEW i \in S
      PROVE  IsFiniteSet(below(i)) /\ rank[i] \in 1 .. N
  <2>1. below(i) \in SUBSET S /\ i \in below(i)
    OBVIOUS
  <2>2. IsFiniteSet(below(i)) /\ Cardinality(below(i)) <= N
    BY <2>1, FS_Subset
  <2>3. Cardinality(below(i)) \in Nat /\ Cardinality(below(i)) # 0
    BY <2>1, <2>2, FS_CardinalityType, FS_EmptySet
  <2> QED
    BY <1>1, <2>2, <2>3
<1>3. ASSUME NEW i \in S, NEW j \in S, i < j PROVE rank[i] < rank[j]
  <2>1. below(i) \in SUBSET (below(j) \ {j}) /\ j \in below(j)
    <3>1. ASSUME NEW x \in below(i) PROVE x \in below(j) /\ x # j
      BY <1>3
    <3>2. j \in below(j)
      OBVIOUS
    <3> QED
      BY <3>1, <3>2
  <2>2. IsFiniteSet(below(j) \ {j}) /\ Cardinality(below(j) \ {j}) = rank[j] - 1
    BY <1>2, <2>1, FS_RemoveElement
  <2>3. Cardinality(below(i)) <= Cardinality(below(j) \ {j})
    BY <2>1, <2>2, FS_Subset
  <2>4. rank[i] \in Nat /\ rank[j] \in Nat
    BY <1>1, <1>2
  <2> HIDE DEF below
  <2> QED
    BY <2>2, <2>3, <2>4
<1>4. rank \in Injection(S, 1 .. N)
  <2>1. rank \in [S -> 1 .. N]
    BY <1>2
  <2> HIDE DEF rank, N
  <2>2. ASSUME NEW i \in S, NEW j \in S, rank[i] = rank[j] PROVE i = j
    <3>1. i \in Nat /\ j \in Nat /\ rank[i] \in Int
      BY <2>1
    <3>2. ~(i < j) /\ ~(j < i)
      BY <1>3, <2>2, <3>1
    <3> QED
      BY <3>1, <3>2
  <2> QED
    BY <2>1, <2>2, Fun_IsInj
<1>5. rank \in Surjection(S, 1 .. N)
  <2>1. IsFiniteSet(1 .. N) /\ Cardinality(1 .. N) = N
    BY <1>1, FS_Interval
  <2> HIDE DEF rank
  <2> QED
    BY <1>4, <2>1, FS_Injection
<1>6. \A n \in 1 .. N : \E i \in S : rank[i] = n
  <2> HIDE DEF rank, N
  <2> QED
    BY <1>5, Fun_SurjectionProperties
<1>7. \A i, j \in S : rank[i] = rank[j] => i = j
  BY <1>4, Fun_InjectionProperties
<1>8. ASSUME NEW n \in 1 .. N
      PROVE  Ascending(S)[n] \in S /\ rank[Ascending(S)[n]] = n
  BY <1>6 DEF Ascending
<1>9. Ascending(S) \in [1 .. N -> S]
  BY <1>8 DEF Ascending
<1>10. ASSUME NEW m \in 1 .. N, NEW n \in 1 .. N, m < n
       PROVE  Ascending(S)[m] < Ascending(S)[n]
  <2> DEFINE a == Ascending(S)[m]
             b == Ascending(S)[n]
  <2>1. a \in S /\ b \in S /\ rank[a] = m /\ rank[b] = n
    BY <1>8
  <2>2. ~(b < a) /\ a # b /\ a \in Nat /\ b \in Nat
    <3> HIDE DEF rank, a, b
    <3> QED
      BY <1>3, <1>10, <2>1, <1>1
  <2> HIDE DEF a, b
  <2>3. a < b
    BY <2>2
  <2> QED
    BY <2>3 DEF a, b
<1>11. ASSUME NEW i \in S PROVE \E n \in 1 .. N : Ascending(S)[n] = i
  BY <1>2, <1>7, <1>8
<1>12. ASSUME NEW i \in S, NEW n \in 1 .. N
       PROVE  Ascending(S)[n] = i <=> Cardinality(below(i)) = n
  <2>1. rank[i] = Cardinality(below(i))
    OBVIOUS
  <2> HIDE DEF rank, below
  <2> QED
    BY <1>7, <1>8, <2>1
<1> QED
  BY <1>1, <1>9, <1>10, <1>11, <1>12

(* A function on 1 .. n is a sequence.                                     *)
LEMMA FunctionIsSeq ==
    ASSUME NEW n \in Nat, NEW S, NEW T, S \subseteq T, NEW f \in [1 .. n -> S]
    PROVE  f \in Seq(T) /\ Len(f) = n /\ DOMAIN f = 1 .. n
<1>1. f \in [1 .. n -> T]
  OBVIOUS
<1> QED
  BY <1>1

(* A number above the others comes last.                                   *)
LEMMA AscendingAppend ==
    ASSUME NEW S \in SUBSET Nat, IsFiniteSet(S), NEW m \in Nat, \A i \in S : i < m
    PROVE  Ascending(S \cup {m}) = Append(Ascending(S), m)
<1> DEFINE N == Cardinality(S)
           T == S \cup {m}
<1>1. N \in Nat /\ IsFiniteSet(T) /\ Cardinality(T) = N + 1 /\ T \in SUBSET Nat
  BY FS_CardinalityType, FS_AddElement
<1>2. Ascending(T) \in [1 .. N + 1 -> T] /\ Ascending(S) \in [1 .. N -> S]
  BY <1>1, AscendingOf
<1>3. ASSUME NEW n \in 1 .. N PROVE Ascending(T)[n] = Ascending(S)[n]
  <2> DEFINE i == Ascending(S)[n]
  <2>1. i \in S /\ Cardinality({j \in S : j <= i}) = n
    BY <1>2, AscendingOf
  <2> HIDE DEF i
  <2>2. i \in Nat /\ ~(m <= i)
    BY <2>1
  <2>3. {j \in T : j <= i} = {j \in S : j <= i}
    BY <2>2
  <2>4. i \in T /\ n \in 1 .. N + 1
    BY <1>1, <2>1
  <2>5. Cardinality({j \in T : j <= i}) = n /\ n \in 1 .. Cardinality(T)
    BY <1>1, <2>1, <2>3, <2>4
  <2> HIDE DEF T, N
  <2>6. Ascending(T)[n] = i
    BY <1>1, <2>4, <2>5, AscendingOf
  <2> QED
    BY <2>6 DEF i
<1>4. Ascending(T)[N + 1] = m
  <2>1. \A j \in T : j <= m
    OBVIOUS
  <2>2. {j \in T : j <= m} = T /\ m \in T
    BY <2>1
  <2>3. N + 1 \in 1 .. Cardinality(T)
    BY <1>1
  <2> HIDE DEF T, N
  <2> QED
    BY <1>1, <2>2, <2>3, AscendingOf
<1> HIDE DEF N, T
<1>5. /\ Ascending(T) \in Seq(Nat) /\ Len(Ascending(T)) = N + 1
      /\ Ascending(S) \in Seq(Nat) /\ Len(Ascending(S)) = N
  <2>1. N \in Nat /\ N + 1 \in Nat /\ S \subseteq Nat /\ T \subseteq Nat
    BY <1>1
  <2>2. Ascending(T) \in Seq(Nat) /\ Len(Ascending(T)) = N + 1
    BY <1>2, <2>1, FunctionIsSeq
  <2>3. Ascending(S) \in Seq(Nat) /\ Len(Ascending(S)) = N
    BY <1>2, <2>1, FunctionIsSeq
  <2> QED
    BY <2>2, <2>3
<1>6. Append(Ascending(S), m) \in Seq(Nat) /\ Len(Append(Ascending(S), m)) = N + 1
      /\ Append(Ascending(S), m)[N + 1] = m
      /\ \A n \in 1 .. N : Append(Ascending(S), m)[n] = Ascending(S)[n]
  BY <1>5
<1>7. ASSUME NEW n \in 1 .. N + 1
      PROVE  Ascending(T)[n] = Append(Ascending(S), m)[n]
  <2>1. n = N + 1 \/ n \in 1 .. N
    BY <1>1
  <2> QED
    BY <2>1, <1>3, <1>4, <1>6
<1>8. Ascending(T) = Append(Ascending(S), m)
  BY <1>5, <1>6, <1>7, SeqEqual
<1> QED
  BY <1>8 DEF T

(* The numbers from 1 on are in their own order.                           *)
LEMMA AscendingInterval ==
    ASSUME NEW L \in Nat
    PROVE  Ascending(1 .. L) = [n \in 1 .. L |-> n]
<1>1. IsFiniteSet(1 .. L) /\ Cardinality(1 .. L) = L
  BY FS_Interval
<1>2. Ascending(1 .. L) \in [1 .. L -> 1 .. L]
  <2> DEFINE S == 1 .. L
  <2>1. S \in SUBSET Nat
    OBVIOUS
  <2> HIDE DEF S
  <2>2. Ascending(S) \in [1 .. Cardinality(S) -> S]
    BY <1>1, <2>1, AscendingOf DEF S
  <2> QED
    BY <1>1, <2>2 DEF S
<1>3. ASSUME NEW n \in 1 .. L PROVE Ascending(1 .. L)[n] = n
  <2>1. {j \in 1 .. L : j <= n} = 1 .. n
    OBVIOUS
  <2>2. Cardinality(1 .. n) = n
    BY FS_Interval
  <2> QED
    BY <1>1, <2>1, <2>2, AscendingOf
<1> QED
  BY <1>2, <1>3

-----------------------------------------------------------------------------
(***************************************************************************)
(* What read_manifest() makes of the lines.                                *)
(***************************************************************************)
LastOf(lines, k, i) ==
    i \in LinesOf(lines, k) /\ \A j \in LinesOf(lines, k) : j <= i

(* The place of a key is the offset of its last line.                      *)
LEMMA PlaceRead ==
    ASSUME NEW lines \in Seq(Line), NEW k \in Keys
    PROVE  /\ LinesOf(lines, k) = {} => ReadManifest(lines).place[k] = Unknown
           /\ LinesOf(lines, k) # {} =>
                LastOf(lines, k, Max(LinesOf(lines, k)))
           /\ \A i : LastOf(lines, k, i) =>
                ReadManifest(lines).place[k] = lines[i].offset
<1> DEFINE S == LinesOf(lines, k)
<1>1. Len(lines) \in Nat /\ S \in SUBSET (1 .. Len(lines))
  BY DEF LinesOf
<1>2. ReadManifest(lines).place[k] =
        IF S = {} THEN Unknown ELSE lines[Max(S)].offset
  BY DEF ReadManifest
<1> DEFINE m == Max(S)
<1>3. S # {} => LastOf(lines, k, m)
  <2> HIDE DEF S
  <2> SUFFICES ASSUME S # {} PROVE Max(S) \in S /\ \A y \in S : y <= Max(S)
    BY DEF LastOf, S
  <2>1. Max(S) \in S /\ \A y \in S : Max(S) >= y
    BY <1>1, MaxFound
  <2> QED
    BY <1>1, <2>1
<1> HIDE DEF m
<1>4. ASSUME NEW i, LastOf(lines, k, i) PROVE S # {} /\ m = i
  <2>1. i \in S /\ m \in S /\ i <= m /\ m <= i
    BY <1>3, <1>4 DEF LastOf
  <2>2. \A j \in S : j \in Int
    BY <1>1
  <2> HIDE DEF S
  <2>3. i \in Int /\ m \in Int
    BY <2>1, <2>2
  <2>4. i = m
    BY <2>1, <2>3
  <2> QED
    BY <2>1, <2>4
<1> HIDE DEF S
<1> QED
  BY <1>2, <1>3, <1>4 DEF S, m

(* A line is the first of its key if no line of the key is before it.      *)
LEMMA FirstLinesOf ==
    ASSUME NEW lines \in Seq(Line)
    PROVE  FirstLines(lines) =
             {i \in DOMAIN lines : \A j \in LinesOf(lines, lines[i].key) : i <= j}
<1>1. DOMAIN lines = 1 .. Len(lines) /\ Len(lines) \in Nat
  OBVIOUS
<1>2. ASSUME NEW i \in 1 .. Len(lines)
      PROVE  (\A j \in 1 .. i - 1 : lines[j].key # lines[i].key)
               <=> \A j \in LinesOf(lines, lines[i].key) : i <= j
  <2>1. \A j \in 1 .. Len(lines) : j \in 1 .. i - 1 <=> ~(i <= j)
    OBVIOUS
  <2>2. \A j \in 1 .. i - 1 : j \in 1 .. Len(lines)
    OBVIOUS
  <2> QED
    BY <1>1, <2>1, <2>2 DEF LinesOf
<1> QED
  BY <1>1, <1>2 DEF FirstLines

LEMMA FirstLinesFinite ==
    ASSUME NEW lines \in Seq(Line)
    PROVE  /\ FirstLines(lines) \in SUBSET (1 .. Len(lines))
           /\ FirstLines(lines) \in SUBSET Nat
           /\ IsFiniteSet(FirstLines(lines))
<1>1. FirstLines(lines) \in SUBSET (1 .. Len(lines)) /\ Len(lines) \in Nat
  BY DEF FirstLines
<1>2. IsFiniteSet(1 .. Len(lines))
  BY <1>1, FS_Interval
<1> QED
  BY <1>1, <1>2, FS_Subset

(* The order has every key with a line once.                               *)
LEMMA OrderRead ==
    ASSUME NEW lines \in Seq(Line)
    PROVE  LET e == ReadManifest(lines) IN
           /\ e = [order |-> e.order, place |-> e.place]
           /\ e.order \in Seq(Keys)
           /\ e.place \in [Keys -> Nat \cup {Unknown}]
           /\ \A m, n \in DOMAIN e.order : e.order[m] = e.order[n] => m = n
           /\ \A n \in DOMAIN e.order : e.place[e.order[n]] # Unknown
           /\ \A k \in Keys : e.place[k] # Unknown =>
                \E n \in DOMAIN e.order : e.order[n] = k
<1> DEFINE e == ReadManifest(lines)
           first == Ascending(FirstLines(lines))
           N == Cardinality(FirstLines(lines))
<1>1. /\ N \in Nat
      /\ first \in [1 .. N -> FirstLines(lines)]
      /\ \A m, n \in 1 .. N : m < n => first[m] < first[n]
      /\ \A i \in FirstLines(lines) : \E n \in 1 .. N : first[n] = i
  BY FirstLinesFinite, AscendingOf
<1>2. FirstLines(lines) \in SUBSET (1 .. Len(lines)) /\ Len(lines) \in Nat
  BY FirstLinesFinite
<1>3. e.order = [n \in 1 .. N |-> lines[first[n]].key]
  BY <1>1 DEF ReadManifest
<1> HIDE DEF e, first, N
<1>4. \A n \in 1 .. N : first[n] \in 1 .. Len(lines) /\ lines[first[n]] \in Line
  BY <1>1, <1>2
<1>5. e.order \in [1 .. N -> Keys]
  BY <1>3, <1>4 DEF Line
<1>6. e.order \in Seq(Keys) /\ DOMAIN e.order = 1 .. N
  BY <1>1, <1>5, FunctionIsSeq
<1>7. ASSUME NEW k \in Keys
      PROVE  /\ e.place[k] \in Nat \cup {Unknown}
             /\ e.place[k] = Unknown <=> LinesOf(lines, k) = {}
  <2>1. CASE LinesOf(lines, k) = {}
    BY <2>1, PlaceRead DEF e, Unknown
  <2>2. CASE LinesOf(lines, k) # {}
    <3>1. PICK i : LastOf(lines, k, i)
      BY <2>2, PlaceRead
    <3>2. e.place[k] = lines[i].offset
      BY <3>1, PlaceRead DEF e
    <3>3. lines[i] \in Line
      BY <3>1 DEF LastOf, LinesOf
    <3> QED
      BY <2>2, <3>2, <3>3 DEF Line, Unknown
  <2> QED
    BY <2>1, <2>2
<1>8. e.place \in [Keys -> Nat \cup {Unknown}] /\ e = [order |-> e.order, place |-> e.place]
  BY <1>7 DEF e, ReadManifest
<1>9. ASSUME NEW m \in 1 .. N, NEW n \in 1 .. N, e.order[m] = e.order[n]
      PROVE  m = n
  <2>1. first[m] \in FirstLines(lines) /\ first[n] \in FirstLines(lines)
        /\ lines[first[m]].key = lines[first[n]].key
    BY <1>1, <1>3, <1>9
  <2>2. first[m] <= first[n] /\ first[n] <= first[m]
    BY <2>1 DEF FirstLines, LinesOf
  <2>3. ~(m < n) /\ ~(n < m)
    BY <1>1, <1>4, <2>2
  <2> QED
    BY <1>1, <2>3
<1>10. ASSUME NEW n \in 1 .. N PROVE e.place[e.order[n]] # Unknown
  <2>1. first[n] \in LinesOf(lines, e.order[n]) /\ e.order[n] \in Keys
    BY <1>3, <1>4, <1>5 DEF LinesOf
  <2> QED
    BY <1>7, <2>1
<1>11. ASSUME NEW k \in Keys, e.place[k] # Unknown
       PROVE  \E n \in 1 .. N : e.order[n] = k
  <2> DEFINE S == LinesOf(lines, k)
  <2>1. S # {} /\ S \in SUBSET Nat /\ S \in SUBSET (1 .. Len(lines))
    BY <1>7, <1>11 DEF LinesOf
  <2>2. Min(S) \in S /\ \A j \in S : Min(S) <= j
    BY <2>1, MinFound
  <2>3. Min(S) \in FirstLines(lines) /\ lines[Min(S)].key = k
    BY <2>2, FirstLinesOf DEF LinesOf
  <2>4. PICK n \in 1 .. N : first[n] = Min(S)
    BY <1>1, <2>3
  <2> QED
    BY <1>3, <2>3, <2>4
<1> QED
  BY <1>6, <1>8, <1>9, <1>10, <1>11 DEF e

LEMMA ReadEmpty == ReadManifest(<<>>) = NoEntries
<1>1. FirstLines(<<>>) = {} /\ \A k \in Keys : LinesOf(<<>>, k) = {}
  BY DEF FirstLines, LinesOf
<1>2. Ascending({}) \in [1 .. 0 -> {}]
  <2>1. {} \in SUBSET Nat /\ IsFiniteSet({}) /\ Cardinality({}) = 0
    BY FS_EmptySet
  <2> QED
    BY <2>1, AscendingOf
<1>3. DOMAIN Ascending({}) = {}
  BY <1>2
<1>4. ReadManifest(<<>>).order = <<>>
  <2> DEFINE o == [n \in {} |-> <<>>[Ascending({})[n]].key]
  <2>1. ReadManifest(<<>>).order = o
    BY <1>1, <1>3 DEF ReadManifest
  <2>2. o \in [1 .. 0 -> Keys]
    OBVIOUS
  <2> HIDE DEF o
  <2>3. o \in Seq(Keys) /\ Len(o) = 0
    BY <2>2, FunctionIsSeq
  <2> QED
    BY <2>1, <2>3, EmptySeq
<1> QED
  BY <1>1, <1>4 DEF ReadManifest, NoEntries

(* A line more does what EfficientInsert() does to the table.              *)
LEMMA ReadAppend ==
    ASSUME NEW lines \in Seq(Line), NEW k \in Keys, NEW o \in Nat
    PROVE  ReadManifest(Append(lines, [key |-> k, offset |-> o]))
             = EfficientInsert(ReadManifest(lines), k, o)
<1> DEFINE l == [key |-> k, offset |-> o]
           more == Append(lines, l)
           N == Len(lines)
           e == ReadManifest(lines)
           f == ReadManifest(more)
           g == EfficientInsert(e, k, o)
<1>1. l \in Line
  BY DEF Line
<1> HIDE DEF l
<1>2. /\ more \in Seq(Line) /\ N \in Nat /\ DOMAIN lines = 1 .. N
      /\ DOMAIN more = 1 .. N + 1 /\ more[N + 1] = l
      /\ \A i \in 1 .. N : more[i] = lines[i] /\ lines[i] \in Line
      /\ \A i \in 1 .. N + 1 : i # N + 1 => i \in 1 .. N
  BY <1>1
<1> HIDE DEF more, N
<1>3. \A x \in Keys : LinesOf(more, x) =
        IF x = k THEN LinesOf(lines, x) \cup {N + 1} ELSE LinesOf(lines, x)
  <2>1. l.key = k
    BY DEF l
  <2> QED
    BY <1>2, <2>1 DEF LinesOf
<1>4. ASSUME NEW x \in Keys PROVE f.place[x] = g.place[x]
  <2>1. g.place[x] = IF x = k THEN o ELSE e.place[x]
    BY OrderRead DEF EfficientInsert
  <2>2. CASE x = k
    <3>1. LastOf(more, x, N + 1)
      BY <1>2, <1>3, <2>2 DEF LastOf, LinesOf
    <3>2. f.place[x] = more[N + 1].offset
      BY <1>2, <3>1, PlaceRead
    <3> QED
      BY <1>2, <2>1, <2>2, <3>2 DEF l
  <2>3. CASE x # k
    <3>1. LinesOf(more, x) = LinesOf(lines, x)
      BY <1>3, <2>3
    <3>2. CASE LinesOf(lines, x) = {}
      BY <1>2, <2>1, <2>3, <3>1, <3>2, PlaceRead
    <3>3. CASE LinesOf(lines, x) # {}
      <4>1. PICK i : LastOf(lines, x, i)
        BY <3>3, PlaceRead
      <4>2. LastOf(more, x, i) /\ i \in 1 .. N
        BY <1>2, <3>1, <4>1 DEF LastOf, LinesOf
      <4>3. e.place[x] = lines[i].offset
        BY <4>1, PlaceRead
      <4>4. f.place[x] = more[i].offset
        BY <1>2, <4>2, PlaceRead
      <4> QED
        BY <1>2, <2>1, <2>3, <4>2, <4>3, <4>4
    <3> QED
      BY <3>2, <3>3
  <2> QED
    BY <2>2, <2>3
<1>5. f.place = g.place
  <2>1. f.place \in [Keys -> Nat \cup {Unknown}]
    BY <1>2, OrderRead
  <2>2. g.place \in [Keys -> Nat \cup {Unknown}]
    BY OrderRead DEF EfficientInsert
  <2> QED
    BY <1>4, <2>1, <2>2
<1>6. f.order = g.order
  <2> DEFINE F == FirstLines(lines)
             a == Ascending(F)
             b == Ascending(FirstLines(more))
  <2>1. F \in SUBSET (1 .. N) /\ F \in SUBSET Nat /\ IsFiniteSet(F)
    BY FirstLinesFinite DEF N
  <2>2. DOMAIN a = 1 .. Cardinality(F) /\ Cardinality(F) \in Nat
        /\ \A n \in DOMAIN a : a[n] \in 1 .. N
    BY <2>1, AscendingOf
  <2>3. e.order = [n \in DOMAIN a |-> lines[a[n]].key]
    BY DEF ReadManifest
  <2>4. f.order = [n \in DOMAIN b |-> more[b[n]].key]
    BY DEF ReadManifest
  <2>5. e.order \in Seq(Keys)
    BY OrderRead
  <2>6. \A i \in 1 .. N : lines[i].key \in Keys /\ more[i].key = lines[i].key
    BY <1>2 DEF Line
  <2>7. \A i \in 1 .. N : i \in FirstLines(more) <=> i \in F
    <3>1. \A i \in 1 .. N : \A j \in 1 .. i - 1 : j \in 1 .. N
      BY <1>2
    <3> QED
      BY <1>2, <2>6, <3>1 DEF FirstLines
  <2> HIDE DEF F, a, b
  <2>8. CASE LinesOf(lines, k) = {}
    <3>1. FirstLines(more) = F \cup {N + 1}
      <4>1. LinesOf(more, k) = {N + 1} /\ more[N + 1].key = k
        BY <1>2, <1>3, <2>8 DEF l
      <4>2. N + 1 \in FirstLines(more)
        <5>1. \A j \in LinesOf(more, more[N + 1].key) : N + 1 <= j
          BY <1>2, <4>1
        <5> QED
          BY <1>2, <5>1, FirstLinesOf
      <4>3. FirstLines(more) \subseteq 1 .. N + 1
        BY <1>2 DEF FirstLines
      <4>4. \A i \in 1 .. N + 1 : i \in FirstLines(more) <=> i \in F \cup {N + 1}
        BY <1>2, <2>7, <4>2
      <4>5. F \cup {N + 1} \subseteq 1 .. N + 1
        BY <1>2, <2>1
      <4> QED
        BY <4>3, <4>4, <4>5
    <3>2. b = Append(a, N + 1)
      <4>1. N + 1 \in Nat /\ \A i \in F : i < N + 1
        BY <1>2, <2>1
      <4> QED
        BY <2>1, <3>1, <4>1, AscendingAppend DEF a, b
    <3>3. e.place[k] = Unknown
      BY <2>8, PlaceRead
    <3>4. g.order = Append(e.order, k)
      BY <3>3 DEF EfficientInsert
    <3>5. a \in Seq(Nat) /\ Len(a) = Cardinality(F)
      BY <2>1, AscendingOf, FunctionIsSeq DEF a
    <3>6. /\ DOMAIN b = 1 .. Cardinality(F) + 1
          /\ \A n \in 1 .. Cardinality(F) : b[n] = a[n]
          /\ b[Cardinality(F) + 1] = N + 1
      BY <1>2, <3>2, <3>5
    <3>7. Len(e.order) = Cardinality(F)
      BY <2>2, <2>3, <2>5
    <3> DEFINE c == Cardinality(F)
    <3>8. /\ g.order \in Seq(Keys) /\ Len(g.order) = c + 1
          /\ \A n \in 1 .. c : g.order[n] = e.order[n]
          /\ g.order[c + 1] = k
      BY <2>2, <2>5, <3>4, <3>7
    <3>9. f.order \in Seq(Keys) /\ Len(f.order) = c + 1
      <4>1. f.order \in Seq(Keys) /\ DOMAIN f.order = 1 .. c + 1
        BY <1>2, <2>4, <3>6, OrderRead
      <4> HIDE DEF f, c
      <4>2. Len(f.order) = c + 1
        BY <2>2, <4>1 DEF c
      <4> QED
        BY <4>1, <4>2
    <3>10. ASSUME NEW n \in 1 .. c + 1 PROVE f.order[n] = g.order[n]
      <4>1. CASE n \in 1 .. c
        <5>1. n \in DOMAIN a /\ n \in DOMAIN b /\ a[n] \in 1 .. N /\ b[n] = a[n]
          BY <2>2, <3>6, <4>1
        <5>2. f.order[n] = more[a[n]].key /\ e.order[n] = lines[a[n]].key
          BY <2>3, <2>4, <5>1
        <5> QED
          BY <2>6, <3>8, <4>1, <5>1, <5>2
      <4>2. CASE n = c + 1
        <5>1. f.order[n] = more[N + 1].key
          BY <2>4, <3>6, <4>2
        <5> QED
          BY <1>2, <3>8, <4>2, <5>1 DEF l
      <4> QED
        BY <2>2, <4>1, <4>2
    <3> HIDE DEF f, g, c
    <3> QED
      BY <3>8, <3>9, <3>10, SeqEqual
  <2>9. CASE LinesOf(lines, k) # {}
    <3>1. FirstLines(more) = F
      <4>1. N + 1 \notin FirstLines(more)
        <5>1. PICK j \in LinesOf(more, k) : j \in 1 .. N
          BY <1>2, <1>3, <2>9 DEF LinesOf
        <5>2. more[N + 1].key = k /\ ~(N + 1 <= j)
          BY <1>2, <5>1 DEF l
        <5> QED
          BY <1>2, <5>1, <5>2, FirstLinesOf
      <4>2. FirstLines(more) \subseteq 1 .. N + 1
        BY <1>2 DEF FirstLines
      <4>3. \A i \in 1 .. N + 1 : i \in FirstLines(more) <=> i \in F
        BY <1>2, <2>1, <2>7, <4>1
      <4>4. F \subseteq 1 .. N + 1
        BY <1>2, <2>1
      <4> QED
        BY <4>2, <4>3, <4>4
    <3>2. b = a
      BY <3>1 DEF a, b
    <3>3. f.order = e.order
      BY <2>2, <2>3, <2>4, <2>6, <3>2
    <3>4. e.place[k] # Unknown
      <4>1. PICK i : LastOf(lines, k, i)
        BY <2>9, PlaceRead
      <4>2. e.place[k] = lines[i].offset /\ lines[i] \in Line
        <5>1. e.place[k] = lines[i].offset
          BY <4>1, PlaceRead
        <5>2. lines[i] \in Line
          BY <4>1 DEF LastOf, LinesOf
        <5> QED
          BY <5>1, <5>2
      <4> QED
        BY <4>2 DEF Line, Unknown
    <3> QED
      BY <3>3, <3>4 DEF EfficientInsert
  <2> QED
    BY <2>8, <2>9
<1>7. f = [order |-> f.order, place |-> f.place]
  BY <1>2, OrderRead
<1>8. g = [order |-> g.order, place |-> g.place]
  BY DEF EfficientInsert
<1> HIDE DEF f, g
<1>9. f = g
  BY <1>5, <1>6, <1>7, <1>8
<1> QED
  BY <1>9 DEF f, g, more, l, e

(***************************************************************************)
(* Vacuum: the live keys in the order of the table, each with the number   *)
(* of its line for an offset.                                              *)
(***************************************************************************)
LiveIn(e) == {k \in Keys : e.place[k] \notin {Unknown, Removed}}

LivePlacesOf(e) == {n \in DOMAIN e.order : e.place[e.order[n]] # Removed}

LEMMA KeptInOrder ==
    ASSUME NEW lines \in Seq(Line)
    PROVE  LET e == ReadManifest(lines)
               kept == LiveInOrder(e)
               from == Ascending(LivePlacesOf(e))
           IN  /\ kept \in Seq(Keys)
               /\ DOMAIN from = DOMAIN kept
               /\ \A n \in DOMAIN kept :
                     from[n] \in LivePlacesOf(e) /\ kept[n] = e.order[from[n]]
               /\ \A m, n \in DOMAIN kept : m < n => from[m] < from[n]
               /\ \A i \in LivePlacesOf(e) : \E n \in DOMAIN kept : from[n] = i
               /\ \A m, n \in DOMAIN kept : kept[m] = kept[n] => m = n
               /\ \A n \in DOMAIN kept : kept[n] \in LiveIn(e)
               /\ \A k \in LiveIn(e) : \E n \in DOMAIN kept : kept[n] = k
<1> DEFINE e == ReadManifest(lines)
           P == LivePlacesOf(e)
           kept == LiveInOrder(e)
           from == Ascending(P)
           N == Cardinality(P)
<1>1. /\ e.order \in Seq(Keys)
      /\ \A m, n \in DOMAIN e.order : e.order[m] = e.order[n] => m = n
      /\ \A n \in DOMAIN e.order : e.place[e.order[n]] # Unknown
      /\ \A k \in Keys : e.place[k] # Unknown =>
           \E n \in DOMAIN e.order : e.order[n] = k
  BY OrderRead
<1> HIDE DEF e
<1>2. P \in SUBSET Nat /\ IsFiniteSet(P) /\ P \subseteq DOMAIN e.order
  <2>1. P \subseteq DOMAIN e.order /\ DOMAIN e.order = 1 .. Len(e.order)
        /\ Len(e.order) \in Nat
    BY <1>1 DEF LivePlacesOf
  <2>2. IsFiniteSet(1 .. Len(e.order))
    BY <2>1, FS_Interval
  <2> HIDE DEF P
  <2>3. IsFiniteSet(P)
    BY <2>1, <2>2, FS_Subset
  <2> QED
    BY <2>1, <2>3
<1>3. /\ N \in Nat /\ from \in [1 .. N -> P]
      /\ \A m, n \in 1 .. N : m < n => from[m] < from[n]
      /\ \A i \in P : \E n \in 1 .. N : from[n] = i
  <2> HIDE DEF P
  <2> QED
    BY <1>2, AscendingOf
<1>4. kept = [n \in 1 .. N |-> e.order[from[n]]]
  BY <1>3 DEF LiveInOrder, LivePlacesOf
<1>5. \A n \in 1 .. N : from[n] \in P /\ e.order[from[n]] \in Keys
  BY <1>1, <1>2, <1>3
<1> HIDE DEF kept, from, N
<1>6. kept \in Seq(Keys) /\ DOMAIN kept = 1 .. N /\ DOMAIN from = 1 .. N
  <2>1. kept \in [1 .. N -> Keys]
    BY <1>4, <1>5
  <2> QED
    BY <1>3, <2>1, FunctionIsSeq
<1>7. ASSUME NEW m \in 1 .. N, NEW n \in 1 .. N, kept[m] = kept[n] PROVE m = n
  <2>1. from[m] = from[n] /\ from[m] \in Nat
    BY <1>1, <1>2, <1>4, <1>5, <1>7
  <2>2. ~(m < n) /\ ~(n < m)
    BY <1>3, <2>1
  <2> QED
    BY <1>3, <2>2
<1>8. ASSUME NEW n \in 1 .. N PROVE kept[n] \in LiveIn(e)
  BY <1>1, <1>2, <1>4, <1>5 DEF LiveIn, LivePlacesOf
<1>9. ASSUME NEW k \in LiveIn(e) PROVE \E n \in 1 .. N : kept[n] = k
  <2>1. PICK i \in DOMAIN e.order : e.order[i] = k
    BY <1>1 DEF LiveIn
  <2>2. i \in P
    BY <2>1 DEF LiveIn, LivePlacesOf
  <2>3. PICK n \in 1 .. N : from[n] = i
    BY <1>3, <2>2
  <2> QED
    BY <1>4, <2>1, <2>3
<1> QED
  BY <1>3, <1>4, <1>5, <1>6, <1>7, <1>8, <1>9 DEF e, kept, from

(* What is read from the lines of a store just vacuumed.                   *)
LEMMA CompactedRead ==
    ASSUME NEW kept \in Seq(Keys), NEW lines,
           \A m, n \in DOMAIN kept : kept[m] = kept[n] => m = n,
           lines = [i \in DOMAIN kept |-> [key |-> kept[i], offset |-> i]]
    PROVE  /\ lines \in Seq(Line) /\ Len(lines) = Len(kept)
           /\ \A i \in DOMAIN kept : LastOf(lines, kept[i], i)
           /\ \A k \in Keys :
                (\A i \in DOMAIN kept : kept[i] # k) => LinesOf(lines, k) = {}
           /\ ReadManifest(lines).order = kept
           /\ LiveIn(ReadManifest(lines)) = {kept[i] : i \in DOMAIN kept}
<1> DEFINE N == Len(kept)
           e == ReadManifest(lines)
<1>1. N \in Nat /\ DOMAIN kept = 1 .. N /\ \A i \in 1 .. N : kept[i] \in Keys
  OBVIOUS
<1>2. lines \in [1 .. N -> Line]
  BY <1>1 DEF Line
<1>3. lines \in Seq(Line) /\ Len(lines) = N /\ DOMAIN lines = 1 .. N
  BY <1>1, <1>2, FunctionIsSeq
<1>4. \A i \in 1 .. N : LinesOf(lines, kept[i]) = {i} /\ lines[i] = [key |-> kept[i], offset |-> i]
  BY <1>1, <1>3 DEF LinesOf
<1>5. ASSUME NEW i \in DOMAIN kept PROVE LastOf(lines, kept[i], i)
  BY <1>1, <1>4, <1>5 DEF LastOf
<1>6. ASSUME NEW k \in Keys, \A i \in DOMAIN kept : kept[i] # k
      PROVE  LinesOf(lines, k) = {}
  BY <1>1, <1>3, <1>6 DEF LinesOf
<1>7. e.order = kept
  <2>1. FirstLines(lines) = 1 .. N
    BY <1>3, <1>4 DEF FirstLines
  <2>2. Ascending(FirstLines(lines)) = [n \in 1 .. N |-> n]
    BY <1>1, <2>1, AscendingInterval
  <2>3. e.order = [n \in 1 .. N |-> lines[n].key]
    BY <2>2 DEF ReadManifest
  <2> QED
    BY <1>1, <1>4, <2>3
<1>8. ASSUME NEW i \in DOMAIN kept PROVE e.place[kept[i]] = i /\ i \notin {Unknown, Removed}
  <2> DEFINE k == kept[i]
  <2>1. k \in Keys /\ LastOf(lines, k, i) /\ lines \in Seq(Line)
    BY <1>1, <1>3, <1>5
  <2> HIDE DEF k
  <2>2. e.place[k] = lines[i].offset
    BY <2>1, PlaceRead
  <2> QED
    BY <1>1, <1>4, <2>2 DEF Unknown, Removed, k
<1>9. LiveIn(e) = {kept[i] : i \in DOMAIN kept}
  <2>1. \A i \in DOMAIN kept : kept[i] \in LiveIn(e)
    BY <1>1, <1>8 DEF LiveIn
  <2>2. ASSUME NEW k \in LiveIn(e) PROVE \E i \in DOMAIN kept : kept[i] = k
    <3>1. k \in Keys /\ e.place[k] # Unknown
      BY DEF LiveIn
    <3>2. LinesOf(lines, k) # {}
      BY <1>3, <3>1, PlaceRead
    <3> QED
      BY <1>6, <3>1, <3>2
  <2> QED
    BY <2>1, <2>2
<1> QED
  BY <1>3, <1>5, <1>6, <1>7, <1>9

(* There are as many of them as the new store counts.                      *)
LEMMA KeptCounted ==
    ASSUME NEW kept \in Seq(Keys),
           \A m, n \in DOMAIN kept : kept[m] = kept[n] => m = n
    PROVE  Cardinality({kept[i] : i \in DOMAIN kept}) = Len(kept)
<1> DEFINE S == {kept[i] : i \in DOMAIN kept}
<1>1. Len(kept) \in Nat /\ DOMAIN kept = 1 .. Len(kept) /\ kept \in [1 .. Len(kept) -> S]
  OBVIOUS
<1>2. kept \in Bijection(1 .. Len(kept), S)
  <2>1. \A s \in S : \E i \in 1 .. Len(kept) : kept[i] = s
    BY <1>1
  <2>2. \A m, n \in 1 .. Len(kept) : kept[m] = kept[n] => m = n
    BY <1>1
  <2> HIDE DEF S
  <2>3. kept \in Injection(1 .. Len(kept), S)
    BY <1>1, <2>2, Fun_IsInj
  <2>4. kept \in Surjection(1 .. Len(kept), S)
    BY <1>1, <2>1, Fun_IsSurj
  <2> QED
    BY <2>3, <2>4 DEF Bijection
<1> HIDE DEF S
<1>3. ExistsBijection(1 .. Len(kept), S)
  BY <1>2 DEF ExistsBijection
<1>4. Cardinality(S) = Len(kept)
  BY <1>1, <1>3, FS_CountingElements
<1> QED
  BY <1>4 DEF S

-----------------------------------------------------------------------------
(***************************************************************************)
(* Types.  An open store has in memory what read_manifest() would make of  *)
(* the lines, those in the buffer included; one that is not open, or only  *)
(* for reading, or whose streams were closed, has no line in a buffer.     *)
(***************************************************************************)
NoBuffers == mode \in {"closed", "ReadOnly", "closing"}

ReadInv ==
    /\ IsOpen => entries = ReadManifest(manifest) /\ dirty = HasRemovals(manifest)
    /\ ~IsOpen => cursor = "Start" /\ cursorPos = End
    /\ NoBuffers => onDisk = Len(manifest)
    /\ mode \in {"ReadOnly", "flushing"} => countFile # Missing

TypeInv == TypeOK /\ ReadInv

\* Calls that throw, or do nothing.
Refuses ==
    \/ \E k \in Keys : InsertExisting(k) \/ RemoveAbsent(k) \/ AimAbsent(k)
    \/ RefusedReadOnly \/ SyncReadOnly \/ OpenFails

LEMMA RefusesStays ==
    Refuses => /\ UNCHANGED <<files, stream, table, position, mode, history>>
               /\ answer'.out \in {"exists", "absent", "readonly", "synced", "failed"}
BY DEF Refuses, InsertExisting, RemoveAbsent, AimAbsent, RefusedReadOnly, SyncReadOnly,
       OpenFails, Throws, Says

LEMMA TableGrows ==
    ASSUME NEW e, e.order \in Seq(Keys), e.place \in [Keys -> Nat \cup {Unknown}],
           NEW k \in Keys, NEW o \in Nat
    PROVE  /\ EfficientInsert(e, k, o).order \in Seq(Keys)
           /\ EfficientInsert(e, k, o).place \in [Keys -> Nat \cup {Unknown}]
           /\ Len(e.order) <= Len(EfficientInsert(e, k, o).order)
BY DEF EfficientInsert

LEMMA NoEntriesType ==
    /\ NoEntries.order \in Seq(Keys) /\ Len(NoEntries.order) = 0
    /\ NoEntries.place \in [Keys -> Nat \cup {Unknown}]
BY DEF NoEntries

LEMMA InitTypeInv == Init => TypeInv
<1> SUFFICES ASSUME Init PROVE TypeInv
  OBVIOUS
<1>1. manifest \in Seq(Line) /\ archive \in Seq(Nat) /\ archiveFile \in Seq(Nat)
      /\ Len(manifest) = 0
  BY DEF Init
<1>2. ~HasRemovals(manifest)
  BY DEF Init, HasRemovals
<1>3. TypeOK
  <2>1. onDisk \in 0 .. Len(manifest) /\ streamPos \in Nat \ {0}
    BY <1>1 DEF Init
  <2>5. appending \in BOOLEAN /\ dirty \in BOOLEAN
    BY DEF Init
  <2>2. /\ entries.order \in Seq(Keys)
        /\ entries.place \in [Keys -> Nat \cup {Unknown}]
        /\ cursorPos \in 0 .. Len(entries.order)
    BY NoEntriesType DEF Init, End
  <2>3. cursor \in {"Start", "Next"} /\ mode \in {"closed", "ReadWrite", "ReadOnly"}
        /\ written \in [Keys -> Nat \cup {Missing}] /\ settled \subseteq Keys
    BY DEF Init
  <2>4. count \in 0 .. UIntValues - 1 /\ kills \in 0 .. MaxKills
        /\ countFile \in (0 .. UIntValues - 1) \cup {Missing}
    BY DEF Init
  <2> QED
    BY <1>1, <2>1, <2>2, <2>3, <2>4, <2>5 DEF TypeOK
<1>4. ReadInv
  BY <1>1, <1>2, ReadEmpty DEF Init, ReadInv, IsOpen, NoBuffers, HasRemovals
<1> QED
  BY <1>3, <1>4 DEF TypeInv

(* A line more leaves the table what the manifest says.                    *)
LEMMA LineWritten ==
    ASSUME TypeInv, NEW k \in Keys, NEW o \in Nat, Writable, WriteManifestEntry(k, o)
    PROVE  /\ manifest' \in Seq(Line) /\ Len(manifest') = Len(manifest) + 1
           /\ manifest'[Len(manifest) + 1] = [key |-> k, offset |-> o]
           /\ \A i \in DOMAIN manifest :
                i \in DOMAIN manifest' /\ manifest'[i] = manifest[i]
           /\ \A i \in DOMAIN manifest' :
                i = Len(manifest) + 1 \/ i \in DOMAIN manifest
           /\ entries'.order \in Seq(Keys)
           /\ entries'.place \in [Keys -> Nat \cup {Unknown}]
           /\ Len(entries.order) <= Len(entries'.order)
           /\ entries' = ReadManifest(manifest')
           /\ HasRemovals(manifest') <=> (HasRemovals(manifest) \/ o = Removed)
           /\ onDisk \in 0 .. Len(manifest')
<1> DEFINE l == [key |-> k, offset |-> o]
<1>1. manifest \in Seq(Line) /\ l \in Line /\ manifest' = Append(manifest, l)
      /\ onDisk \in 0 .. Len(manifest)
  BY DEF TypeInv, TypeOK, Line, WriteManifestEntry
<1> HIDE DEF l
<1>2. /\ manifest' \in Seq(Line) /\ Len(manifest') = Len(manifest) + 1
      /\ manifest'[Len(manifest) + 1] = l
      /\ \A i \in DOMAIN manifest :
           i \in DOMAIN manifest' /\ manifest'[i] = manifest[i]
      /\ \A i \in DOMAIN manifest' :
           i = Len(manifest) + 1 \/ i \in DOMAIN manifest
      /\ Len(manifest) + 1 \in DOMAIN manifest' /\ onDisk \in 0 .. Len(manifest')
  BY <1>1
<1>3. entries' = EfficientInsert(entries, k, o)
  BY DEF WriteManifestEntry
<1>4. entries.order \in Seq(Keys) /\ entries.place \in [Keys -> Nat \cup {Unknown}]
  BY DEF TypeInv, TypeOK
<1>5. entries' = ReadManifest(manifest')
  <2>1. entries = ReadManifest(manifest)
    BY DEF TypeInv, ReadInv, Writable, IsOpen
  <2> QED
    BY <1>1, <1>3, <2>1, ReadAppend DEF l
<1>6. HasRemovals(manifest') <=> (HasRemovals(manifest) \/ o = Removed)
  <2>1. l.offset = o
    BY DEF l
  <2> QED
    BY <1>2, <2>1 DEF HasRemovals
<1> QED
  BY <1>2, <1>3, <1>4, <1>5, <1>6, TableGrows DEF l

(* The parts of the type invariant, and the ones a step leaves as they are. *)
LinesOK == manifest \in Seq(Line) /\ onDisk \in 0 .. Len(manifest)
ArchiveOK == archive \in Seq(Nat) /\ archiveFile \in Seq(Nat)
StreamOK == streamPos \in Nat \ {0} /\ appending \in BOOLEAN
TableOK ==
    /\ entries.order \in Seq(Keys) /\ entries.place \in [Keys -> Nat \cup {Unknown}]
    /\ dirty \in BOOLEAN
CursorOK == cursor \in {"Start", "Next"} /\ cursorPos \in 0 .. Len(entries.order)
CountsOK ==
    /\ count \in 0 .. UIntValues - 1
    /\ countFile \in (0 .. UIntValues - 1) \cup {Missing}
RestOK ==
    /\ mode \in {"closed", "ReadWrite", "ReadOnly"} \cup Saving
    /\ written \in [Keys -> Nat \cup {Missing}] /\ settled \subseteq Keys
    /\ kills \in 0 .. MaxKills

LEMMA Parts ==
    /\ TypeOK <=> /\ LinesOK /\ ArchiveOK /\ StreamOK /\ TableOK /\ CursorOK
                  /\ CountsOK /\ RestOK
    /\ TypeOK' <=> /\ LinesOK' /\ ArchiveOK' /\ StreamOK' /\ TableOK' /\ CursorOK'
                   /\ CountsOK' /\ RestOK'
BY DEF TypeOK, LinesOK, ArchiveOK, StreamOK, TableOK, CursorOK, CountsOK, RestOK

LEMMA SameParts ==
    ASSUME TypeOK
    PROVE  /\ UNCHANGED <<manifest, onDisk>> => LinesOK'
           /\ UNCHANGED <<archive, archiveFile>> => ArchiveOK'
           /\ UNCHANGED stream => StreamOK'
           /\ UNCHANGED <<entries, dirty>> => TableOK'
           /\ UNCHANGED <<entries, position>> => CursorOK'
           /\ UNCHANGED <<count, countFile>> => CountsOK'
           /\ UNCHANGED <<mode, history>> => RestOK'
BY Parts DEF LinesOK, ArchiveOK, StreamOK, TableOK, CursorOK, CountsOK, RestOK,
             stream, position, history

LEMMA SameRead ==
    ASSUME ReadInv, UNCHANGED <<manifest, entries, dirty, position, mode>>,
           onDisk' = onDisk \/ onDisk' = Len(manifest),
           countFile' = countFile \/ countFile' # Missing
    PROVE  ReadInv'
BY DEF ReadInv, position, IsOpen, NoBuffers

(* A read finds the stream behind the data, or before them.                *)
LEMMA ReadsDataType ==
    ASSUME TypeOK, NEW k \in Keys, Present(k), ReadsData(k)
    PROVE  archiveFile' = archive /\ streamPos' \in Nat \ {0}
<1>1. entries.place[k] \in Nat \ {0}
  BY DEF TypeOK, Present, Unknown, Removed
<1> QED
  BY <1>1 DEF ReadsData

LEMMA ArchiveOutType ==
    ASSUME TypeOK, ArchiveOut
    PROVE  archiveFile' = archive /\ streamPos' \in Nat \ {0}
<1>1. Len(archive) \in Nat /\ streamPos \in Nat \ {0}
  BY DEF TypeOK
<1> QED
  BY <1>1 DEF ArchiveOut

LEMMA ModOf ==
    ASSUME NEW i \in Int
    PROVE  i % UIntValues \in 0 .. UIntValues - 1
BY DEF ArchiveAssumption

(* The object is gone: its table is empty and its cursor at the start.     *)
LEMMA GoneType ==
    ASSUME TypeOK, Gone
    PROVE  StreamOK' /\ TableOK' /\ CursorOK' /\ count' \in 0 .. UIntValues - 1
<1>1. StreamOK'
  BY DEF StreamOK, Gone
<1>2. TableOK'
  <2>1. dirty' \in BOOLEAN
    BY DEF Gone
  <2> QED
    BY <2>1, NoEntriesType DEF TableOK, Gone
<1>3. CursorOK'
  BY NoEntriesType DEF CursorOK, Gone, End
<1>4. count' \in 0 .. UIntValues - 1
  BY DEF Gone, ArchiveAssumption
<1> QED
  BY <1>1, <1>2, <1>3, <1>4

(* What opening reads, and what vacuum() writes, has its type.             *)
LEMMA OpenType ==
    ASSUME TypeInv, NEW m \in {"ReadWrite", "ReadOnly"}, Open(m)
    PROVE  TypeInv'
<1>1. LinesOK' /\ ArchiveOK' /\ RestOK'
  <2>1. LinesOK' /\ ArchiveOK'
    BY SameParts DEF TypeInv, Open, files
  <2> QED
    BY <2>1, Parts DEF TypeInv, Open, history, RestOK, Saving
<1>2. StreamOK'
  <2>1. Len(archive) \in Nat
    BY DEF TypeInv, TypeOK
  <2>2. streamPos' \in Nat \ {0}
    BY <2>1 DEF Open
  <2> QED
    BY <2>2, Parts DEF TypeInv, Open, StreamOK
<1>3. TableOK' /\ CursorOK'
  <2>1. entries' = ReadManifest(manifest) /\ manifest \in Seq(Line)
        /\ cursor' = "Start" /\ cursorPos' = 0
    BY DEF TypeInv, TypeOK, Open, ReadInv, IsOpen, position, End
  <2>2. entries'.order \in Seq(Keys) /\ entries'.place \in [Keys -> Nat \cup {Unknown}]
    BY <2>1, OrderRead
  <2>3. dirty' \in BOOLEAN
    BY DEF Open, HasRemovals
  <2> QED
    BY <2>1, <2>2, <2>3 DEF TableOK, CursorOK
<1>4. CountsOK'
  BY Parts DEF TypeInv, Open, files, CountsOK
<1>5. ReadInv'
  <2>1. manifest' = manifest /\ onDisk' = onDisk /\ countFile' = countFile
        /\ entries' = ReadManifest(manifest) /\ dirty' = HasRemovals(manifest)
        /\ mode' = m /\ countFile # Missing
    BY DEF Open, files
  <2>2. onDisk = Len(manifest)
    BY DEF TypeInv, ReadInv, Open, NoBuffers
  <2> QED
    BY <2>1, <2>2 DEF ReadInv, IsOpen, NoBuffers
<1> QED
  BY <1>1, <1>2, <1>3, <1>4, <1>5, Parts DEF TypeInv

LEMMA VacuumType ==
    ASSUME TypeInv, Vacuum
    PROVE  TypeInv'
<1> DEFINE old == ReadManifest(manifest)
           kept == LiveInOrder(old)
<1>1. manifest \in Seq(Line) /\ archive \in Seq(Nat)
  BY DEF TypeInv, TypeOK
<1>2. kept \in Seq(Keys) /\ \A m, n \in DOMAIN kept : kept[m] = kept[n] => m = n
  BY <1>1, KeptInOrder
<1>3. /\ manifest' = [i \in DOMAIN kept |-> [key |-> kept[i], offset |-> i]]
      /\ archive' = [i \in DOMAIN kept |-> archive[old.place[kept[i]]]]
      /\ \A i \in DOMAIN kept : old.place[kept[i]] \in DOMAIN archive
      /\ onDisk' = Len(kept) /\ archiveFile' = archive'
      /\ countFile' = Len(kept) % UIntValues
  BY DEF Vacuum
<1>4. UNCHANGED <<stream, table, position, mode, history>> /\ mode = "closed"
  BY DEF Vacuum
<1> HIDE DEF old, kept
<1>5. LinesOK' /\ Len(manifest') = Len(kept)
  <2>1. manifest' \in Seq(Line) /\ Len(manifest') = Len(kept)
    BY <1>2, <1>3, CompactedRead
  <2> QED
    BY <1>2, <1>3, <2>1 DEF LinesOK
<1>6. ArchiveOK'
  <2>1. Len(kept) \in Nat /\ DOMAIN kept = 1 .. Len(kept)
    BY <1>2
  <2>2. archive' \in [1 .. Len(kept) -> Nat]
    BY <1>1, <1>3, <2>1
  <2>3. archive' \in Seq(Nat)
    BY <2>1, <2>2, FunctionIsSeq
  <2> QED
    BY <1>3, <2>3 DEF ArchiveOK
<1>7. CountsOK'
  <2>1. Len(kept) \in Int /\ count' = count /\ count \in 0 .. UIntValues - 1
    BY <1>2, <1>4 DEF table, TypeInv, TypeOK
  <2>2. Len(kept) % UIntValues \in 0 .. UIntValues - 1
    BY <2>1, ModOf
  <2> QED
    BY <1>3, <2>1, <2>2 DEF CountsOK
<1>8. StreamOK' /\ TableOK' /\ CursorOK' /\ RestOK'
  BY <1>4, SameParts DEF TypeInv, table
<1>9. ReadInv'
  BY <1>3, <1>4, <1>5 DEF ReadInv, IsOpen, NoBuffers, position, TypeInv
<1> QED
  BY <1>5, <1>6, <1>7, <1>8, <1>9, Parts DEF TypeInv

LEMMA InsertType ==
    ASSUME TypeInv, NEW k \in Keys, Insert(k)
    PROVE  TypeInv'
<1>1. TypeOK /\ ReadInv /\ Writable /\ streamPos \in Nat \ {0} /\ Len(archive) \in Nat
      /\ WriteManifestEntry(k, streamPos) /\ Len(manifest) \in Nat
  BY DEF TypeInv, TypeOK, Insert
<1>2. /\ LinesOK' /\ TableOK' /\ CursorOK'
      /\ entries' = ReadManifest(manifest') /\ dirty' = HasRemovals(manifest')
  <2>1. /\ manifest' \in Seq(Line) /\ onDisk \in 0 .. Len(manifest')
        /\ entries'.order \in Seq(Keys)
        /\ entries'.place \in [Keys -> Nat \cup {Unknown}]
        /\ Len(entries.order) <= Len(entries'.order)
        /\ entries' = ReadManifest(manifest')
    BY <1>1, LineWritten
  <2>2. HasRemovals(manifest') <=> HasRemovals(manifest)
    BY <1>1, LineWritten DEF Removed
  <2>3. dirty' = HasRemovals(manifest')
    BY <1>1, <2>2 DEF ReadInv, IsOpen, Writable, Insert, HasRemovals
  <2>4. TableOK'
    BY <2>1, <2>3 DEF TableOK, HasRemovals
  <2>5. CursorOK'
    <3>1. Len(entries'.order) \in Nat /\ Len(entries.order) \in Nat
      BY <1>1, <2>1 DEF TypeOK
    <3> QED
      BY <1>1, <2>1, <3>1 DEF CursorOK, TypeOK, Insert, position
  <2>6. LinesOK'
    BY <2>1 DEF LinesOK, Insert
  <2> QED
    BY <2>1, <2>3, <2>4, <2>5, <2>6
<1>3. ArchiveOK'
  <2>1. NewData \in Nat /\ archive \in Seq(Nat) /\ archiveFile' = archiveFile
        /\ archiveFile \in Seq(Nat)
    BY <1>1 DEF NewData, TypeOK, Insert
  <2>2. archive \in [1 .. Len(archive) -> Nat]
    BY <2>1
  <2>3. [archive EXCEPT ![streamPos] = NewData] \in [1 .. Len(archive) -> Nat]
    BY <2>1, <2>2
  <2>4. Append(archive, NewData) \in Seq(Nat)
        /\ [archive EXCEPT ![streamPos] = NewData] \in Seq(Nat)
    BY <1>1, <2>1, <2>3, FunctionIsSeq
  <2>5. archive' = Append(archive, NewData)
        \/ archive' = [archive EXCEPT ![streamPos] = NewData]
    BY DEF Insert
  <2> QED
    BY <2>1, <2>4, <2>5 DEF ArchiveOK
<1>4. StreamOK'
  <2>1. streamPos' \in Nat \ {0}
    BY <1>1 DEF Insert
  <2> QED
    BY <1>1, <2>1, Parts DEF StreamOK, Insert
<1>5. CountsOK'
  <2>1. count + 1 \in Int
    BY <1>1 DEF TypeOK
  <2> QED
    BY <1>1, <2>1, ModOf, Parts DEF CountsOK, Insert, OneMore
<1>6. RestOK'
  <2>1. NewData \in Nat
    BY <1>1 DEF NewData
  <2> QED
    BY <1>1, <2>1, Parts DEF RestOK, Insert
<1>7. ReadInv'
  BY <1>1, <1>2 DEF ReadInv, IsOpen, Writable, NoBuffers, Insert
<1> QED
  BY <1>2, <1>3, <1>4, <1>5, <1>6, <1>7, Parts DEF TypeInv

LEMMA RemoveType ==
    ASSUME TypeInv, NEW k \in Keys, Remove(k)
    PROVE  TypeInv'
<1>1. TypeOK /\ ReadInv /\ Writable /\ WriteManifestEntry(k, Removed)
      /\ Removed \in Nat
  BY DEF TypeInv, Remove, Removed
<1>2. /\ LinesOK' /\ TableOK' /\ CursorOK'
      /\ entries' = ReadManifest(manifest') /\ dirty' = HasRemovals(manifest')
  <2>1. /\ manifest' \in Seq(Line) /\ onDisk \in 0 .. Len(manifest')
        /\ entries'.order \in Seq(Keys)
        /\ entries'.place \in [Keys -> Nat \cup {Unknown}]
        /\ Len(entries.order) <= Len(entries'.order)
        /\ entries' = ReadManifest(manifest')
    BY <1>1, LineWritten
  <2>2. HasRemovals(manifest')
    BY <1>1, LineWritten
  <2>3. dirty' = HasRemovals(manifest')
    BY <2>2 DEF Remove, HasRemovals
  <2>4. TableOK'
    BY <2>1, <2>3 DEF TableOK, HasRemovals
  <2>5. CursorOK'
    <3>1. Len(entries'.order) \in Nat /\ Len(entries.order) \in Nat
      BY <1>1, <2>1 DEF TypeOK
    <3> QED
      BY <1>1, <2>1, <3>1 DEF CursorOK, TypeOK, Remove, position
  <2>6. LinesOK'
    BY <2>1 DEF LinesOK, Remove
  <2> QED
    BY <2>1, <2>3, <2>4, <2>5, <2>6
<1>3. ArchiveOK' /\ StreamOK'
  BY <1>1, SameParts DEF Remove
<1>4. CountsOK'
  <2>1. count - 1 \in Int
    BY <1>1 DEF TypeOK
  <2> QED
    BY <1>1, <2>1, ModOf, Parts DEF CountsOK, Remove, OneFewer
<1>5. RestOK'
  BY <1>1, Parts DEF RestOK, Remove, Missing
<1>6. ReadInv'
  BY <1>1, <1>2 DEF ReadInv, IsOpen, Writable, NoBuffers, Remove
<1> QED
  BY <1>2, <1>3, <1>4, <1>5, <1>6, Parts DEF TypeInv

(* Saving changes the control file and the mode; the destructor closes the *)
(* streams first.                                                          *)
LEMMA SavingType ==
    ASSUME TypeInv, SyncBegins \/ SyncSaves \/ CloseBegins
    PROVE  TypeInv'
<1>1. TypeOK /\ ReadInv
  BY DEF TypeInv
<1>2. /\ UNCHANGED <<manifest, archive, stream, table, position, history>>
      /\ onDisk' = onDisk \/ onDisk' = Len(manifest)
      /\ archiveFile' = archiveFile \/ archiveFile' = archive
      /\ countFile' = Missing \/ countFile' = count
      /\ mode # "closed" /\ mode' \in Saving
      /\ mode' = "closing" => onDisk' = Len(manifest)
      /\ mode' = "flushing" => countFile' = count
  BY DEF SyncBegins, SyncSaves, CloseBegins, ManifestOut, Writable, Saving
<1>3. LinesOK'
  <2>1. Len(manifest) \in Nat
    BY <1>1 DEF TypeOK
  <2> QED
    BY <1>1, <1>2, <2>1, Parts DEF LinesOK
<1>4. ArchiveOK' /\ StreamOK' /\ TableOK' /\ CursorOK'
  <2>1. ArchiveOK'
    BY <1>1, <1>2, Parts DEF ArchiveOK
  <2> QED
    BY <1>1, <1>2, <2>1, SameParts DEF table
<1>5. CountsOK' /\ RestOK'
  BY <1>1, <1>2, Parts DEF CountsOK, RestOK, table, history
<1>6. ReadInv'
  <2>1. count # Missing
    BY <1>1 DEF TypeOK, Missing
  <2> QED
    BY <1>1, <1>2, <2>1 DEF ReadInv, IsOpen, NoBuffers, Saving, table, position
<1> QED
  BY <1>3, <1>4, <1>5, <1>6, Parts DEF TypeInv

LEMMA CloseType ==
    ASSUME TypeInv, Close \/ CloseReadOnly
    PROVE  TypeInv'
<1>1. TypeOK /\ ReadInv
  BY DEF TypeInv
<1>2. /\ Gone /\ UNCHANGED <<manifest, onDisk, archive, archiveFile, written, kills>>
      /\ countFile' = countFile \/ countFile' = count
      /\ settled' = settled \/ settled' = RightNow
      /\ NoBuffers
  BY DEF Close, CloseReadOnly, files, history, NoBuffers
<1>3. StreamOK' /\ TableOK' /\ CursorOK' /\ count' \in 0 .. UIntValues - 1
  BY <1>1, <1>2, GoneType
<1>4. LinesOK' /\ ArchiveOK'
  BY <1>1, <1>2, SameParts
<1>5. CountsOK' /\ RestOK'
  <2>1. CountsOK'
    BY <1>1, <1>2, <1>3, Parts DEF CountsOK
  <2>2. RestOK'
    BY <1>1, <1>2, Parts DEF RestOK, Gone, RightNow, Live
  <2> QED
    BY <2>1, <2>2
<1>6. ReadInv'
  BY <1>1, <1>2 DEF ReadInv, IsOpen, NoBuffers, Gone
<1> QED
  BY <1>3, <1>4, <1>5, <1>6, Parts DEF TypeInv

LEMMA KillType ==
    ASSUME TypeInv, Kill
    PROVE  TypeInv'
<1>1. TypeOK /\ ReadInv
  BY DEF TypeInv
<1>2. StreamOK' /\ TableOK' /\ CursorOK' /\ count' \in 0 .. UIntValues - 1
  BY <1>1, GoneType DEF Kill
<1>3. LinesOK' /\ Len(manifest') = onDisk'
  <2>1. manifest \in Seq(Line) /\ onDisk \in 0 .. Len(manifest)
        /\ Len(manifest) \in Nat
    BY <1>1 DEF TypeOK
  <2>2. SubSeq(manifest, 1, onDisk) \in Seq(Line)
        /\ Len(SubSeq(manifest, 1, onDisk)) = onDisk
    BY <2>1
  <2> QED
    BY <2>1, <2>2 DEF LinesOK, Kill
<1>4. ArchiveOK' /\ CountsOK' /\ RestOK'
  <2>1. ArchiveOK'
    BY <1>1, Parts DEF ArchiveOK, Kill
  <2>2. CountsOK'
    BY <1>1, <1>2, Parts DEF CountsOK, Kill
  <2>3. RestOK'
    BY <1>1, Parts DEF RestOK, Kill, Gone, ArchiveAssumption
  <2> QED
    BY <2>1, <2>2, <2>3
<1>5. ReadInv'
  BY <1>3 DEF ReadInv, IsOpen, NoBuffers, Kill, Gone
<1> QED
  BY <1>2, <1>3, <1>4, <1>5, Parts DEF TypeInv

LEMMA AheadType ==
    ASSUME TypeOK, NEW start \in BOOLEAN, Ahead(start) # {}
    PROVE  /\ FirstAhead(start) \in DOMAIN entries.order
           /\ FirstAhead(start) \in Ahead(start)
           /\ \A j \in Ahead(start) : FirstAhead(start) <= j
           /\ FirstAhead(start) \in 1 .. Len(entries.order)
           /\ entries.order[FirstAhead(start)] \in Keys
           /\ Present(entries.order[FirstAhead(start)])
<1>1. entries.order \in Seq(Keys)
  BY DEF TypeOK
<1>2. Ahead(start) \subseteq LivePlaces /\ LivePlaces \subseteq DOMAIN entries.order
  BY DEF Ahead, LivePlaces
<1>3. Ahead(start) \in SUBSET Nat
  BY <1>1, <1>2
<1>4. FirstAhead(start) \in Ahead(start) /\ \A j \in Ahead(start) : FirstAhead(start) <= j
  BY <1>3, MinFound DEF FirstAhead
<1>5. FirstAhead(start) \in DOMAIN entries.order /\ Present(entries.order[FirstAhead(start)])
  BY <1>2, <1>4 DEF LivePlaces
<1> QED
  BY <1>1, <1>4, <1>5

(* The remaining steps leave the lines and the table as they are.          *)
LEMMA QuietType ==
    ASSUME TypeInv,
           \/ \E k \in Keys : Read(k) \/ SetCursorAtKey(k) \/ Flush(k)
           \/ \E start \in BOOLEAN : SequenceEnds(start)
           \/ \E start, returnData \in BOOLEAN : Sequence(start, returnData)
           \/ Sync \/ SpillManifest \/ SpillArchive
    PROVE  TypeInv'
<1>1. TypeOK /\ ReadInv
  BY DEF TypeInv
<1>2. ASSUME NEW k \in Keys, Read(k) PROVE TypeInv'
  <2>1. archiveFile' = archive /\ streamPos' \in Nat \ {0}
    BY <1>1, <1>2, ReadsDataType DEF Read
  <2>2. LinesOK' /\ TableOK' /\ CursorOK' /\ CountsOK' /\ RestOK'
    BY <1>1, <1>2, SameParts DEF Read, table
  <2>3. ArchiveOK' /\ StreamOK'
    BY <1>1, <1>2, <2>1, Parts DEF ArchiveOK, StreamOK, Read
  <2>4. ReadInv'
    BY <1>1, <1>2, SameRead DEF Read, table
  <2> QED
    BY <2>2, <2>3, <2>4, Parts DEF TypeInv
<1>3. ASSUME NEW k \in Keys, SetCursorAtKey(k) PROVE TypeInv'
  <2>1. PICK i \in DOMAIN entries.order : Aimed(i)
    BY <1>3 DEF SetCursorAtKey
  <2>2. i \in 1 .. Len(entries.order) /\ Len(entries.order) \in Nat
    BY <1>1, <2>1 DEF TypeOK
  <2>3. CursorOK'
    <3>1. cursor' \in {"Start", "Next"}
      BY <1>1, <2>1, Parts DEF Aimed, CursorOK
    <3>2. cursorPos' \in 0 .. Len(entries.order)
      BY <2>1, <2>2 DEF Aimed
    <3> QED
      BY <1>3, <3>1, <3>2 DEF CursorOK, SetCursorAtKey, table
  <2>4. LinesOK' /\ ArchiveOK' /\ StreamOK' /\ TableOK' /\ CountsOK' /\ RestOK'
    BY <1>1, <1>3, SameParts DEF SetCursorAtKey, table, files
  <2>5. ReadInv'
    BY <1>1, <1>3 DEF SetCursorAtKey, table, files, ReadInv, IsOpen, Idle, NoBuffers
  <2> QED
    BY <2>3, <2>4, <2>5, Parts DEF TypeInv
<1>4. ASSUME NEW start \in BOOLEAN, SequenceEnds(start) PROVE TypeInv'
  <2>1. CursorOK'
    <3>1. Len(entries.order) \in Nat
      BY <1>1 DEF TypeOK
    <3> QED
      BY <1>1, <1>4, <3>1, Parts DEF SequenceEnds, CursorOK, End, table
  <2>2. LinesOK' /\ ArchiveOK' /\ StreamOK' /\ TableOK' /\ CountsOK' /\ RestOK'
    BY <1>1, <1>4, SameParts DEF SequenceEnds, table, files
  <2>3. ReadInv'
    BY <1>1, <1>4 DEF SequenceEnds, table, files, ReadInv, IsOpen, Idle, NoBuffers
  <2> QED
    BY <2>1, <2>2, <2>3, Parts DEF TypeInv
<1>5. ASSUME NEW start \in BOOLEAN, NEW returnData \in BOOLEAN,
             Sequence(start, returnData)
      PROVE  TypeInv'
  <2> DEFINE i == FirstAhead(start)
             k == entries.order[i]
  <2>1. i \in 1 .. Len(entries.order) /\ k \in Keys /\ Present(k)
    BY <1>1, <1>5, AheadType DEF Sequence
  <2>2. /\ cursorPos' = i /\ cursor' = "Next"
        /\ IF returnData THEN ReadsData(k) ELSE UNCHANGED <<archiveFile, streamPos>>
        /\ UNCHANGED <<manifest, onDisk, archive, countFile, appending, table, mode, history>>
    BY <1>5 DEF Sequence
  <2> HIDE DEF i, k
  <2>3. CursorOK'
    <3>1. Len(entries.order) \in Nat
      BY <1>1 DEF TypeOK
    <3> QED
      BY <2>1, <2>2, <3>1 DEF CursorOK, table
  <2>4. LinesOK' /\ TableOK' /\ CountsOK' /\ RestOK'
    BY <1>1, <2>2, SameParts DEF table
  <2>5. ArchiveOK' /\ StreamOK'
    <3>1. CASE returnData
      <4>1. archiveFile' = archive /\ streamPos' \in Nat \ {0}
        BY <1>1, <2>1, <2>2, <3>1, ReadsDataType
      <4> QED
        BY <1>1, <2>2, <4>1, Parts DEF ArchiveOK, StreamOK
    <3>2. CASE ~returnData
      BY <1>1, <2>2, <3>2, SameParts DEF stream
    <3> QED
      BY <3>1, <3>2
  <2>6. ReadInv'
    BY <1>1, <1>5, <2>2 DEF Sequence, table, ReadInv, IsOpen, Idle, NoBuffers
  <2> QED
    BY <2>3, <2>4, <2>5, <2>6, Parts DEF TypeInv
<1>6. ASSUME \/ Sync \/ SpillManifest \/ SpillArchive \/ \E k \in Keys : Flush(k)
      PROVE  TypeInv'
  <2>1. UNCHANGED <<manifest, archive, appending, table, position, countFile, kills, written>>
        /\ (onDisk' = onDisk \/ onDisk' = Len(manifest))
        /\ (UNCHANGED <<archiveFile, streamPos>> \/ ArchiveOut)
        /\ mode # "closed" /\ mode' = "ReadWrite"
        /\ (settled' = settled \/ settled' = RightNow)
    BY <1>6 DEF Sync, SpillManifest, SpillArchive, Flush, ManifestOut, Writable, history, stream
  <2>2. LinesOK'
    <3>1. Len(manifest) \in Nat
      BY <1>1 DEF TypeOK
    <3> QED
      BY <1>1, <2>1, <3>1, Parts DEF LinesOK
  <2>3. ArchiveOK' /\ StreamOK'
    <3>1. CASE ArchiveOut
      BY <1>1, <2>1, <3>1, ArchiveOutType, Parts DEF ArchiveOK, StreamOK
    <3>2. CASE UNCHANGED <<archiveFile, streamPos>>
      BY <1>1, <2>1, <3>2, SameParts DEF stream
    <3> QED
      BY <2>1, <3>1, <3>2
  <2>4. TableOK' /\ CursorOK'
    BY <1>1, <2>1, SameParts DEF table
  <2>5. CountsOK'
    BY <1>1, <2>1, Parts DEF CountsOK, table
  <2>6. RestOK'
    BY <1>1, <2>1, Parts DEF RestOK, RightNow, Live
  <2>7. ReadInv'
    BY <1>1, <2>1 DEF ReadInv, IsOpen, NoBuffers, table, position
  <2> QED
    BY <2>2, <2>3, <2>4, <2>5, <2>6, <2>7, Parts DEF TypeInv
<1> QED
  BY <1>2, <1>3, <1>4, <1>5, <1>6

LEMMA NextTypeInv == TypeInv /\ [Next]_vars => TypeInv'
<1> SUFFICES ASSUME TypeInv, [Next]_vars PROVE TypeInv'
  OBVIOUS
<1>1. ASSUME UNCHANGED <<files, stream, table, position, mode, history>>
      PROVE  TypeInv'
  <2>1. TypeOK /\ ReadInv
    BY DEF TypeInv
  <2>2. LinesOK' /\ ArchiveOK' /\ StreamOK' /\ TableOK' /\ CursorOK' /\ CountsOK' /\ RestOK'
    BY <1>1, <2>1, SameParts DEF table, files
  <2>3. ReadInv'
    BY <1>1, <2>1, SameRead DEF table, files
  <2> QED
    BY <2>2, <2>3, Parts DEF TypeInv
<1>2. CASE UNCHANGED vars \/ Refuses
  BY <1>1, <1>2, RefusesStays DEF vars
<1>3. CASE Next /\ ~Refuses
  BY <1>3, InsertType, RemoveType, SavingType, CloseType, KillType, OpenType, VacuumType,
     QuietType
     DEF Next, Client, ClientOf, Refuses
<1> QED
  BY <1>2, <1>3

(* Every variable keeps its type, and the positions stay in the files.     *)
THEOREM TypeCorrect == Spec => []TypeOK
<1>1. Spec => []TypeInv
  BY InitTypeInv, NextTypeInv, PTL DEF Spec
<1> QED
  BY <1>1, PTL DEF TypeInv

-----------------------------------------------------------------------------
(***************************************************************************)
(* The cursor.  setCursorAtKey() leaves the cursor before the key's place: *)
(* the least place ahead is the key's, which is there only once.           *)
(***************************************************************************)
LEMMA TableOnce ==
    ASSUME TypeInv, IsOpen
    PROVE  /\ \A m, n \in DOMAIN entries.order :
                entries.order[m] = entries.order[n] => m = n
           /\ \A n \in DOMAIN entries.order : entries.place[entries.order[n]] # Unknown
           /\ \A k \in Keys : entries.place[k] # Unknown =>
                \E n \in DOMAIN entries.order : entries.order[n] = k
<1>1. manifest \in Seq(Line) /\ entries = ReadManifest(manifest)
  BY DEF TypeInv, TypeOK, ReadInv
<1> QED
  BY <1>1, OrderRead

LEMMA AimedStep ==
    ASSUME TypeInv, ~AimsAtStart, NEW k \in Keys, SetCursorAtKey(k)
    PROVE  AimedKeyIsNext'
<1>1. /\ IsOpen /\ Present(k) /\ entries' = entries
      /\ cursor = "Next" \/ entries.order[1] = k
      /\ answer'.keys = {k}
  BY DEF SetCursorAtKey, SaysKey, table, Idle
<1>2. PICK i \in DOMAIN entries.order : entries.order[i] = k /\ Aimed(i)
  BY DEF SetCursorAtKey
<1>3. i \in Nat \ {0} /\ 1 \in DOMAIN entries.order
      /\ DOMAIN entries.order \in SUBSET (Nat \ {0})
  <2>1. entries.order \in Seq(Keys)
    BY DEF TypeInv, TypeOK
  <2> QED
    BY <1>2, <2>1
<1>4. i \in LivePlaces /\ LivePlaces' = LivePlaces /\ LivePlaces \in SUBSET (Nat \ {0})
  BY <1>1, <1>2, <1>3 DEF LivePlaces, Present
<1>5. i \in Ahead(FALSE)' /\ \A j \in Ahead(FALSE)' : i <= j /\ j \in Nat
  <2>1. CASE i = 1
    <3>1. Ahead(FALSE)' = LivePlaces
      BY <1>2, <1>4, <2>1 DEF Aimed, Ahead
    <3>2. \A j \in LivePlaces : i <= j /\ j \in Nat
      BY <1>4, <2>1
    <3> QED
      BY <1>4, <3>1, <3>2
  <2>2. CASE i # 1
    <3>1. cursor = "Next"
      BY <1>1, <1>2, <1>3, <2>2, TableOnce
    <3>2. cursorPos' = i - 1 /\ cursor' = "Next"
      BY <1>2, <2>2, <3>1 DEF Aimed
    <3>3. Ahead(FALSE)' = {j \in LivePlaces : i - 1 # 0 /\ j > i - 1}
      BY <1>4, <3>2 DEF Ahead, End
    <3>4. \A j \in LivePlaces : j \in Nat
      BY <1>4
    <3>5. i \in Nat /\ i - 1 # 0 /\ i > i - 1
      BY <1>3, <2>2
    <3>6. i \in Ahead(FALSE)'
      BY <1>4, <3>3, <3>5
    <3>7. \A j \in Ahead(FALSE)' : j \in Nat /\ j > i - 1
      BY <3>3, <3>4
    <3>8. ASSUME NEW j \in Ahead(FALSE)' PROVE i <= j /\ j \in Nat
      <4>1. j \in Nat /\ j > i - 1
        BY <3>7
      <4> QED
        BY <3>5, <4>1
    <3> QED
      BY <3>6, <3>8
  <2> QED
    BY <2>1, <2>2
<1>6. FirstAhead(FALSE)' = i
  <2> DEFINE A == Ahead(FALSE)'
  <2>1. FirstAhead(FALSE)' = Min(A)
    BY DEF FirstAhead
  <2>2. A \in SUBSET Nat /\ A # {}
    BY <1>5
  <2>3. Min(A) \in A /\ \A j \in A : Min(A) <= j
    <3> HIDE DEF A
    <3> QED
      BY <2>2, MinFound
  <2>4. i \in A /\ i <= Min(A) /\ Min(A) <= i /\ Min(A) \in Nat
    BY <1>5, <2>3
  <2> HIDE DEF A
  <2>5. Min(A) = i
    BY <1>3, <2>4
  <2> QED
    BY <2>1, <2>5
<1> QED
  BY <1>1, <1>2, <1>5, <1>6 DEF AimedKeyIsNext

(* No other step says that it aimed.                                       *)
LEMMA OnlyAimed ==
    ASSUME Next, ~ \E k \in Keys : SetCursorAtKey(k)
    PROVE  answer'.out # "aimed"
<1>1. CASE Refuses
  BY <1>1, RefusesStays
<1>2. CASE \E k \in Keys : Insert(k) \/ Remove(k) \/ Read(k) \/ Flush(k)
  BY <1>2 DEF Insert, Remove, Read, Flush, Says
<1>3. CASE \/ \E start \in BOOLEAN : SequenceEnds(start)
           \/ \E start, returnData \in BOOLEAN : Sequence(start, returnData)
  BY <1>3 DEF SequenceEnds, Sequence, Says, SaysKey
<1>4. CASE \/ SyncBegins \/ SyncSaves \/ Sync \/ CloseBegins \/ Close \/ CloseReadOnly
           \/ Vacuum \/ SpillManifest \/ SpillArchive \/ Kill
           \/ \E m \in {"ReadWrite", "ReadOnly"} : Open(m)
  BY <1>4 DEF SyncBegins, SyncSaves, Sync, CloseBegins, Close, CloseReadOnly, Vacuum,
              SpillManifest, SpillArchive, Kill, Open, Says
<1> QED
  BY <1>1, <1>2, <1>3, <1>4 DEF Next, Client, ClientOf, Refuses

(* The key a client aims at is the next one sequenced, for clients that    *)
(* aim when they have begun to sequence or at the first key.               *)
THEOREM AimCorrect == ~AimsAtStart => (Spec => []AimedKeyIsNext)
<1> SUFFICES ASSUME ~AimsAtStart PROVE Spec => []AimedKeyIsNext
  OBVIOUS
<1>1. Init => TypeInv /\ AimedKeyIsNext
  BY InitTypeInv DEF Init, AimedKeyIsNext
<1>2. TypeInv /\ AimedKeyIsNext /\ [Next]_vars => TypeInv' /\ AimedKeyIsNext'
  <2> SUFFICES ASSUME TypeInv, AimedKeyIsNext, [Next]_vars PROVE AimedKeyIsNext'
    BY NextTypeInv
  <2>1. CASE UNCHANGED vars
    BY <2>1 DEF AimedKeyIsNext, Ahead, FirstAhead, LivePlaces, Present, vars, table, position
  <2>2. CASE \E k \in Keys : SetCursorAtKey(k)
    BY <2>2, AimedStep
  <2>3. CASE Next /\ ~ \E k \in Keys : SetCursorAtKey(k)
    BY <2>3, OnlyAimed DEF AimedKeyIsNext
  <2> QED
    BY <2>1, <2>2, <2>3
<1> QED
  BY <1>1, <1>2, PTL DEF Spec

-----------------------------------------------------------------------------
(***************************************************************************)
(* The count.  The table has no record whose key keyExists() denies, and   *)
(* none whose absence it denies, so that what insert() adds and remove()   *)
(* takes away is a record; what opening reads was saved by the destructor. *)
(***************************************************************************)
CountInv ==
    kills = 0 =>
        /\ IsOpen => count = Cardinality(Live)
        /\ mode \in {"closed", "ReadOnly"} =>
              countFile = Cardinality(LiveIn(ReadManifest(manifest)))

LEMMA LiveRead == TypeInv /\ IsOpen => Live = LiveIn(ReadManifest(manifest))
BY DEF TypeInv, ReadInv, Live, LiveIn, Present

LEMMA LiveFinite ==
    ASSUME NEW e
    PROVE  /\ IsFiniteSet(LiveIn(e)) /\ Cardinality(LiveIn(e)) \in Nat
           /\ Cardinality(LiveIn(e)) <= Cardinality(Keys)
           /\ Cardinality(Keys) \in Nat
<1>1. IsFiniteSet(Keys) /\ LiveIn(e) \in SUBSET Keys
  BY DEF ArchiveAssumption, LiveIn
<1>2. IsFiniteSet(LiveIn(e)) /\ Cardinality(LiveIn(e)) <= Cardinality(Keys)
  BY <1>1, FS_Subset
<1> QED
  BY <1>1, <1>2, FS_CardinalityType

(* Without removals every entry is a record, with them it is looked at.    *)
LEMMA KeyExistsPresent ==
    ASSUME TypeInv, IsOpen, NEW k \in Keys
    PROVE  KeyExists(k) <=> Present(k)
<1>1. manifest \in Seq(Line) /\ entries = ReadManifest(manifest)
      /\ dirty = HasRemovals(manifest)
  BY DEF TypeInv, TypeOK, ReadInv
<1>2. CASE dirty
  BY <1>2 DEF KeyExists
<1>3. CASE ~dirty
  <2>1. entries.place[k] # Removed
    <3>1. CASE LinesOf(manifest, k) = {}
      BY <1>1, <3>1, PlaceRead DEF Unknown, Removed
    <3>2. CASE LinesOf(manifest, k) # {}
      <4>1. PICK i : LastOf(manifest, k, i)
        BY <1>1, <3>2, PlaceRead
      <4>2. entries.place[k] = manifest[i].offset
        BY <1>1, <4>1, PlaceRead
      <4>3. i \in DOMAIN manifest
        BY <4>1 DEF LastOf, LinesOf
      <4> QED
        BY <1>1, <1>3, <4>2, <4>3 DEF HasRemovals
    <3> QED
      BY <3>1, <3>2
  <2> QED
    BY <1>3, <2>1 DEF KeyExists, Present
<1>4. dirty \in BOOLEAN
  BY DEF TypeInv, TypeOK
<1> QED
  BY <1>2, <1>3, <1>4

LEMMA LiveInserted ==
    ASSUME TypeInv, NEW k \in Keys, Insert(k)
    PROVE  k \notin Live /\ Live' = Live \cup {k}
<1>1. IsOpen /\ ~KeyExists(k) /\ streamPos \in Nat \ {0}
      /\ entries.place \in [Keys -> Nat \cup {Unknown}]
      /\ entries' = EfficientInsert(entries, k, streamPos)
  BY DEF TypeInv, TypeOK, Insert, Writable, IsOpen, WriteManifestEntry
<1>2. k \notin Live
  BY <1>1, KeyExistsPresent DEF Live
<1>3. entries'.place = [entries.place EXCEPT ![k] = streamPos]
  BY <1>1 DEF EfficientInsert
<1>4. \A j \in Keys : Present(j)' <=> j = k \/ Present(j)
  BY <1>1, <1>3 DEF Present, Unknown, Removed
<1>5. Live' = {j \in Keys : Present(j)'}
  BY DEF Live
<1>6. Live' = Live \cup {k}
  BY <1>4, <1>5 DEF Live
<1> QED
  BY <1>2, <1>6

LEMMA LiveRemoved ==
    ASSUME TypeInv, NEW k \in Keys, Remove(k)
    PROVE  k \in Live /\ Live' = Live \ {k}
<1>1. IsOpen /\ KeyExists(k)
      /\ entries.place \in [Keys -> Nat \cup {Unknown}]
      /\ entries' = EfficientInsert(entries, k, Removed)
  BY DEF TypeInv, TypeOK, Remove, Writable, IsOpen, WriteManifestEntry
<1>2. k \in Live
  BY <1>1, KeyExistsPresent DEF Live
<1>3. entries'.place = [entries.place EXCEPT ![k] = Removed]
  BY <1>1 DEF EfficientInsert
<1>4. \A j \in Keys : Present(j)' <=> j # k /\ Present(j)
  BY <1>1, <1>3 DEF Present, Unknown, Removed
<1>5. Live' = {j \in Keys : Present(j)'}
  BY DEF Live
<1>6. Live' = Live \ {k}
  BY <1>4, <1>5 DEF Live
<1> QED
  BY <1>2, <1>6

LEMMA ModSmall ==
    ASSUME NEW i \in Nat, i < UIntValues
    PROVE  i % UIntValues = i
BY DEF ArchiveAssumption

(* vacuum() counts the lines it writes, and they are the records.          *)
LEMMA VacuumCounts ==
    ASSUME TypeInv, Cardinality(Keys) < UIntValues, Vacuum
    PROVE  /\ countFile' = Cardinality(LiveIn(ReadManifest(manifest')))
           /\ mode' = "closed"
<1> DEFINE kept == LiveInOrder(ReadManifest(manifest))
<1>1. kept \in Seq(Keys) /\ \A m, n \in DOMAIN kept : kept[m] = kept[n] => m = n
  BY KeptInOrder DEF TypeInv, TypeOK
<1>2. /\ manifest' = [i \in DOMAIN kept |-> [key |-> kept[i], offset |-> i]]
      /\ countFile' = Len(kept) % UIntValues /\ mode' = "closed"
  BY DEF Vacuum
<1> HIDE DEF kept
<1>3. Cardinality(LiveIn(ReadManifest(manifest'))) = Len(kept)
  BY <1>1, <1>2, CompactedRead, KeptCounted
<1>4. Len(kept) \in Nat /\ Len(kept) < UIntValues
  <2> DEFINE c == Cardinality(LiveIn(ReadManifest(manifest')))
  <2>1. c \in Nat /\ c <= Cardinality(Keys) /\ Cardinality(Keys) \in Nat
    BY LiveFinite
  <2> QED
    BY <1>3, <2>1 DEF ArchiveAssumption
<1> QED
  BY <1>2, <1>3, <1>4, ModSmall

LEMMA CountStep ==
    ASSUME Cardinality(Keys) < UIntValues, TypeInv, CountInv, [Next]_vars
    PROVE  CountInv'
<1> DEFINE C == Cardinality(Keys)
<1>1. Cardinality(Live) \in Nat /\ Cardinality(Live) <= C /\ IsFiniteSet(Live) /\ C \in Nat
  <2>1. Live = LiveIn(entries)
    BY DEF Live, LiveIn, Present
  <2> QED
    BY <2>1, LiveFinite
<1>2. Cardinality(Live') \in Nat /\ Cardinality(Live') <= C
  <2>1. Live' = LiveIn(entries')
    BY DEF Live, LiveIn, Present
  <2> QED
    BY <2>1, LiveFinite
<1>3. ASSUME NEW k \in Keys, Insert(k) PROVE CountInv'
  <2>1. Cardinality(Live') = Cardinality(Live) + 1
    BY <1>1, <1>3, LiveInserted, FS_AddElement
  <2>2. Cardinality(Live) + 1 < UIntValues
    BY <1>1, <1>2, <2>1 DEF ArchiveAssumption
  <2>3. (Cardinality(Live) + 1) % UIntValues = Cardinality(Live) + 1
    BY <1>1, <2>2, ModSmall
  <2>4. kills = 0 => count' = Cardinality(Live')
    BY <1>3, <2>1, <2>3 DEF CountInv, Insert, OneMore, Writable, IsOpen
  <2> QED
    BY <1>3, <2>4 DEF CountInv, Insert, Writable, IsOpen
<1>4. ASSUME NEW k \in Keys, Remove(k) PROVE CountInv'
  <2>1. Cardinality(Live') = Cardinality(Live) - 1
    BY <1>1, <1>4, LiveRemoved, FS_RemoveElement
  <2>2. Cardinality(Live) - 1 \in Nat /\ Cardinality(Live) - 1 < UIntValues
    BY <1>1, <1>2, <2>1 DEF ArchiveAssumption
  <2>3. (Cardinality(Live) - 1) % UIntValues = Cardinality(Live) - 1
    BY <2>2, ModSmall
  <2>4. kills = 0 => count' = Cardinality(Live')
    BY <1>4, <2>1, <2>3 DEF CountInv, Remove, OneFewer, Writable, IsOpen
  <2> QED
    BY <1>4, <2>4 DEF CountInv, Remove, Writable, IsOpen
<1>5. CASE Close \/ CloseReadOnly
  <2>1. Live = LiveIn(ReadManifest(manifest))
    BY <1>5, LiveRead DEF Close, CloseReadOnly, IsOpen
  <2>2. manifest' = manifest /\ mode' = "closed" /\ kills' = kills
        /\ \/ mode = "closing" /\ countFile' = count
           \/ mode = "ReadOnly" /\ countFile' = countFile
    BY <1>5 DEF Close, CloseReadOnly, Gone, files, history
  <2> QED
    BY <2>1, <2>2 DEF CountInv, IsOpen
<1>6. CASE Kill
  <2>1. kills' # 0
    BY <1>6 DEF Kill, TypeInv, TypeOK, ArchiveAssumption
  <2> QED
    BY <2>1 DEF CountInv
<1>7. ASSUME NEW m \in {"ReadWrite", "ReadOnly"}, Open(m) PROVE CountInv'
  <2>1. manifest' = manifest /\ countFile' = countFile /\ kills' = kills /\ count' = countFile
        /\ mode = "closed"
    BY <1>7 DEF Open, files, history
  <2>2. Live' = LiveIn(ReadManifest(manifest))
    BY <1>7, <2>1 DEF Open, Live, LiveIn, Present
  <2> QED
    BY <2>1, <2>2 DEF CountInv
<1>8. CASE Vacuum
  BY <1>8, VacuumCounts DEF CountInv, IsOpen
<1>9. ASSUME UNCHANGED <<manifest, entries, count, kills>>,
             \/ UNCHANGED <<mode, countFile>>
             \/ mode # "closed" /\ mode' \in {"ReadWrite"} \cup Saving
      PROVE  CountInv'
  BY <1>9 DEF CountInv, IsOpen, Saving, Live, Present
<1>10. CASE Refuses \/ UNCHANGED vars
  BY <1>9, <1>10, RefusesStays DEF vars, files, table, history
<1>11. CASE \/ \E k \in Keys : Read(k) \/ SetCursorAtKey(k) \/ Flush(k)
            \/ \E start \in BOOLEAN : SequenceEnds(start)
            \/ \E start, returnData \in BOOLEAN : Sequence(start, returnData)
            \/ SpillManifest \/ SpillArchive
  BY <1>9, <1>11 DEF Read, SetCursorAtKey, Flush, SequenceEnds, Sequence, SpillManifest,
                     SpillArchive, files, table, history
<1>12. CASE SyncBegins \/ SyncSaves \/ Sync \/ CloseBegins
  BY <1>9, <1>12 DEF SyncBegins, SyncSaves, Sync, CloseBegins, Writable, Saving, table, history
<1> QED
  BY <1>3, <1>4, <1>5, <1>6, <1>7, <1>8, <1>10, <1>11, <1>12
     DEF Next, Client, ClientOf, Refuses

(* getCount() is the number of records, whatever was inserted, removed,    *)
(* vacuumed, closed and opened, when there are fewer keys than counts.     *)
THEOREM CountCorrect ==
    Cardinality(Keys) < UIntValues => (Spec => []CountIsRecords)
<1> SUFFICES ASSUME Cardinality(Keys) < UIntValues PROVE Spec => []CountIsRecords
  OBVIOUS
<1>1. Init => TypeInv /\ CountInv
  <2> SUFFICES ASSUME Init PROVE CountInv
    BY InitTypeInv
  <2>1. Live = {}
    BY DEF Init, Live, Present, NoEntries
  <2> QED
    BY <2>1, FS_EmptySet DEF Init, CountInv
<1>2. TypeInv /\ CountInv /\ [Next]_vars => TypeInv' /\ CountInv'
  BY NextTypeInv, CountStep
<1>3. TypeInv /\ CountInv => CountIsRecords
  BY DEF CountInv, CountIsRecords
<1> QED
  BY <1>1, <1>2, <1>3, PTL DEF Spec

-----------------------------------------------------------------------------
(***************************************************************************)
(* The data.  The archive file begins the archive, so that a kill takes    *)
(* away its end; what was settled has its last line among those on the     *)
(* disk and its data in the archive file, which no kill takes away.        *)
(***************************************************************************)
Begins(f, a) == Len(f) <= Len(a) /\ \A i \in DOMAIN f : a[i] = f[i]

Holds(e, k, a, w) == e.place[k] \in DOMAIN a /\ a[e.place[k]] = w[k]

SettledIn(k, lines, n, a, w) ==
    \E i \in 1 .. n : /\ LastOf(lines, k, i)
                      /\ lines[i].offset \in DOMAIN a
                      /\ a[lines[i].offset] = w[k]

PrefixInv == Begins(archiveFile, archive) /\ (NoBuffers => archiveFile = archive)

FreshInv ==
    kills = 0 =>
        \A k \in LiveIn(ReadManifest(manifest)) :
            Holds(ReadManifest(manifest), k, archive, written)

SettledInv == \A k \in settled : SettledIn(k, manifest, onDisk, archiveFile, written)

DataInv == PrefixInv /\ FreshInv /\ SettledInv

LEMMA SettledHolds ==
    ASSUME NEW lines \in Seq(Line), NEW a \in Seq(Nat), NEW k \in Keys, NEW n, NEW w,
           SettledIn(k, lines, n, a, w)
    PROVE  Holds(ReadManifest(lines), k, a, w) /\ k \in LiveIn(ReadManifest(lines))
<1>1. PICK i \in 1 .. n : /\ LastOf(lines, k, i) /\ lines[i].offset \in DOMAIN a
                          /\ a[lines[i].offset] = w[k]
  BY DEF SettledIn
<1>2. ReadManifest(lines).place[k] = lines[i].offset
  BY <1>1, PlaceRead
<1>3. lines[i].offset \notin {Unknown, Removed}
  BY <1>1 DEF Unknown, Removed
<1> QED
  BY <1>1, <1>2, <1>3 DEF Holds, LiveIn

LEMMA HoldsSettled ==
    ASSUME NEW lines \in Seq(Line), NEW k \in Keys, NEW a, NEW w,
           k \in LiveIn(ReadManifest(lines)), Holds(ReadManifest(lines), k, a, w)
    PROVE  SettledIn(k, lines, Len(lines), a, w)
<1>1. LinesOf(lines, k) # {}
  BY PlaceRead DEF LiveIn
<1>2. PICK i : LastOf(lines, k, i)
  BY <1>1, PlaceRead
<1>3. ReadManifest(lines).place[k] = lines[i].offset
  BY <1>2, PlaceRead
<1>4. i \in 1 .. Len(lines)
  BY <1>2 DEF LastOf, LinesOf
<1> QED
  BY <1>2, <1>3, <1>4 DEF Holds, SettledIn

(* More lines on the disk and more data in the file take nothing away.     *)
LEMMA SettledStays ==
    ASSUME NEW k, NEW lines, NEW w, NEW n \in Nat, NEW m \in Nat, n <= m,
           NEW a \in Seq(Nat), NEW b \in Seq(Nat), Begins(a, b),
           SettledIn(k, lines, n, a, w)
    PROVE  SettledIn(k, lines, m, b, w)
<1>1. PICK i \in 1 .. n : /\ LastOf(lines, k, i) /\ lines[i].offset \in DOMAIN a
                          /\ a[lines[i].offset] = w[k]
  BY DEF SettledIn
<1>2. i \in 1 .. m
  OBVIOUS
<1>3. lines[i].offset \in DOMAIN b /\ b[lines[i].offset] = w[k]
  <2> DEFINE o == lines[i].offset
  <2>1. o \in DOMAIN a /\ DOMAIN a = 1 .. Len(a) /\ DOMAIN b = 1 .. Len(b)
        /\ Len(a) \in Nat /\ Len(b) \in Nat
    BY <1>1
  <2> HIDE DEF o
  <2>2. o \in DOMAIN b /\ b[o] = a[o]
    BY <2>1 DEF Begins
  <2> QED
    BY <1>1, <2>2 DEF o
<1> QED
  BY <1>1, <1>2, <1>3 DEF SettledIn

LEMMA BeginsItself == ASSUME NEW a \in Seq(Nat) PROVE Begins(a, a)
BY DEF Begins

(* A line of another key, and one datum more, leave what is settled.       *)
LEMMA SettledElsewhere ==
    ASSUME TypeInv, Writable, NEW k \in Keys, NEW o \in Nat, WriteManifestEntry(k, o),
           NEW j, j # k, written'[j] = written[j],
           NEW n, NEW a, SettledIn(j, manifest, n, a, written)
    PROVE  SettledIn(j, manifest', n, a, written')
<1>1. PICK i \in 1 .. n : /\ LastOf(manifest, j, i)
                          /\ manifest[i].offset \in DOMAIN a
                          /\ a[manifest[i].offset] = written[j]
  BY DEF SettledIn
<1>2. /\ manifest'[Len(manifest) + 1] = [key |-> k, offset |-> o]
      /\ \A m \in DOMAIN manifest : m \in DOMAIN manifest' /\ manifest'[m] = manifest[m]
      /\ \A m \in DOMAIN manifest' : m = Len(manifest) + 1 \/ m \in DOMAIN manifest
  BY LineWritten
<1>3. manifest'[Len(manifest) + 1].key # j
  BY <1>2
<1>4. LinesOf(manifest', j) = LinesOf(manifest, j)
  BY <1>2, <1>3 DEF LinesOf
<1>5. LastOf(manifest', j, i) /\ manifest'[i] = manifest[i]
  BY <1>1, <1>2, <1>4 DEF LastOf, LinesOf
<1> QED
  BY <1>1, <1>5 DEF SettledIn

(* A client that has not read elsewhere inserts at the end of the archive. *)
LEMMA InsertData ==
    ASSUME TypeInv, DataInv, ~ReadsThenInserts, NEW k \in Keys, Insert(k)
    PROVE  DataInv'
<1>1. /\ IsOpen /\ Writable /\ IsOpen' /\ ~NoBuffers' /\ streamPos = Len(archive) + 1
      /\ archive \in Seq(Nat) /\ archiveFile \in Seq(Nat) /\ manifest \in Seq(Line)
      /\ onDisk' = onDisk /\ archiveFile' = archiveFile /\ kills' = kills
      /\ settled' = settled \ {k} /\ written' = [written EXCEPT ![k] = NewData]
      /\ WriteManifestEntry(k, streamPos) /\ streamPos \in Nat
      /\ settled \subseteq Keys /\ written \in [Keys -> Nat \cup {Missing}]
      /\ NewData \in Nat
  BY DEF TypeInv, TypeOK, Insert, IsOpen, Writable, NoBuffers, NewData
<1>2. archive' = Append(archive, NewData)
  BY <1>1 DEF Insert
<1>3. /\ Len(archive') = Len(archive) + 1 /\ archive'[Len(archive) + 1] = NewData
      /\ archive' \in Seq(Nat) /\ Len(archive) \in Nat /\ Len(archiveFile) \in Nat
      /\ DOMAIN archive' = 1 .. Len(archive) + 1
      /\ \A o \in DOMAIN archive : o \in DOMAIN archive' /\ archive'[o] = archive[o]
  BY <1>1, <1>2
<1>4. PrefixInv'
  <2>1. \A o \in DOMAIN archiveFile : o \in DOMAIN archive
    BY <1>1, <1>3 DEF DataInv, PrefixInv, Begins
  <2> QED
    BY <1>1, <1>3, <2>1 DEF DataInv, PrefixInv, Begins
<1>5. FreshInv'
  <2> SUFFICES ASSUME kills' = 0, NEW j \in LiveIn(ReadManifest(manifest'))
               PROVE  Holds(ReadManifest(manifest'), j, archive', written')
    BY DEF FreshInv
  <2>1. entries' = ReadManifest(manifest') /\ entries = ReadManifest(manifest)
        /\ entries.place \in [Keys -> Nat \cup {Unknown}]
    BY <1>1, LineWritten DEF TypeInv, TypeOK, ReadInv
  <2>2. entries'.place = [entries.place EXCEPT ![k] = streamPos]
    BY <1>1 DEF WriteManifestEntry, EfficientInsert
  <2>3. CASE j = k
    BY <1>1, <1>3, <2>1, <2>2, <2>3 DEF Holds, LiveIn
  <2>4. CASE j # k
    <3>1. j \in LiveIn(entries)
      BY <2>1, <2>2, <2>4 DEF LiveIn
    <3>2. Holds(entries, j, archive, written)
      BY <1>1, <2>1, <3>1 DEF DataInv, FreshInv
    <3> QED
      BY <1>1, <1>3, <2>1, <2>2, <2>4, <3>1, <3>2 DEF Holds, LiveIn
  <2> QED
    BY <2>3, <2>4
<1>6. SettledInv'
  <2> SUFFICES ASSUME NEW j \in settled, j # k
               PROVE  SettledIn(j, manifest', onDisk, archiveFile, written')
    BY <1>1 DEF SettledInv
  <2>1. SettledIn(j, manifest, onDisk, archiveFile, written)
    BY DEF DataInv, SettledInv
  <2>2. written'[j] = written[j]
    BY <1>1
  <2> QED
    BY <1>1, <2>1, <2>2, SettledElsewhere
<1> QED
  BY <1>4, <1>5, <1>6 DEF DataInv

LEMMA RemoveData ==
    ASSUME TypeInv, DataInv, NEW k \in Keys, Remove(k)
    PROVE  DataInv'
<1>1. /\ IsOpen /\ Writable /\ ~NoBuffers' /\ manifest \in Seq(Line)
      /\ onDisk' = onDisk /\ archiveFile' = archiveFile /\ kills' = kills
      /\ archive' = archive
      /\ settled' = settled \ {k} /\ written' = [written EXCEPT ![k] = Missing]
      /\ WriteManifestEntry(k, Removed) /\ Removed \in Nat
      /\ settled \subseteq Keys /\ written \in [Keys -> Nat \cup {Missing}]
  BY DEF TypeInv, TypeOK, Remove, IsOpen, Writable, NoBuffers, Removed
<1>2. PrefixInv'
  BY <1>1 DEF DataInv, PrefixInv
<1>3. FreshInv'
  <2> SUFFICES ASSUME kills' = 0, NEW j \in LiveIn(ReadManifest(manifest'))
               PROVE  Holds(ReadManifest(manifest'), j, archive', written')
    BY DEF FreshInv
  <2>1. entries' = ReadManifest(manifest') /\ entries = ReadManifest(manifest)
        /\ entries.place \in [Keys -> Nat \cup {Unknown}]
    BY <1>1, LineWritten DEF TypeInv, TypeOK, ReadInv
  <2>2. entries'.place = [entries.place EXCEPT ![k] = Removed]
    BY <1>1 DEF WriteManifestEntry, EfficientInsert
  <2>3. j # k /\ j \in LiveIn(entries)
    BY <2>1, <2>2 DEF LiveIn
  <2>4. Holds(entries, j, archive, written)
    BY <1>1, <2>1, <2>3 DEF DataInv, FreshInv
  <2> QED
    BY <1>1, <2>1, <2>2, <2>3, <2>4 DEF Holds, LiveIn
<1>4. SettledInv'
  <2> SUFFICES ASSUME NEW j \in settled, j # k
               PROVE  SettledIn(j, manifest', onDisk, archiveFile, written')
    BY <1>1 DEF SettledInv
  <2>1. SettledIn(j, manifest, onDisk, archiveFile, written)
    BY DEF DataInv, SettledInv
  <2>2. written'[j] = written[j]
    BY <1>1
  <2> QED
    BY <1>1, <2>1, <2>2, SettledElsewhere
<1> QED
  BY <1>2, <1>3, <1>4 DEF DataInv

(* What changes neither the lines nor the data, and puts on the disk what  *)
(* it puts there whole; a sync may find more keys settled.                 *)
LEMMA OutData ==
    ASSUME TypeInv, DataInv, UNCHANGED <<manifest, archive, written, kills>>,
           onDisk' = onDisk \/ onDisk' = Len(manifest),
           archiveFile' = archiveFile \/ archiveFile' = archive,
           NoBuffers' => NoBuffers \/ archiveFile' = archive,
           \/ settled' = settled
           \/ /\ settled' = RightNow /\ IsOpen
              /\ onDisk' = Len(manifest) /\ archiveFile' = archive
    PROVE  DataInv'
<1>1. /\ archive \in Seq(Nat) /\ archiveFile \in Seq(Nat) /\ manifest \in Seq(Line)
      /\ onDisk \in Nat /\ Len(manifest) \in Nat /\ onDisk <= Len(manifest)
      /\ settled \subseteq Keys
  BY DEF TypeInv, TypeOK
<1>2. PrefixInv'
  BY <1>1, BeginsItself DEF DataInv, PrefixInv
<1>3. FreshInv'
  BY DEF DataInv, FreshInv
<1>4. SettledInv'
  <2>1. CASE settled' = settled
    <3>1. Begins(archiveFile, archiveFile') /\ onDisk <= onDisk' /\ onDisk' \in Nat
          /\ archiveFile' \in Seq(Nat)
      BY <1>1, BeginsItself DEF DataInv, PrefixInv
    <3> SUFFICES ASSUME NEW j \in settled
                 PROVE  SettledIn(j, manifest, onDisk', archiveFile', written)
      BY <2>1 DEF SettledInv
    <3>2. SettledIn(j, manifest, onDisk, archiveFile, written)
      BY DEF DataInv, SettledInv
    <3> QED
      BY <1>1, <3>1, <3>2, SettledStays
  <2>2. CASE /\ settled' = RightNow /\ IsOpen
             /\ onDisk' = Len(manifest) /\ archiveFile' = archive
    <3> SUFFICES ASSUME NEW j \in RightNow
                 PROVE  SettledIn(j, manifest, Len(manifest), archive, written)
      BY <2>2 DEF SettledInv
    <3>1. j \in Keys /\ j \in LiveIn(ReadManifest(manifest)) /\ Intact(j)
          /\ entries = ReadManifest(manifest)
      BY <2>2, LiveRead DEF RightNow, Live, TypeInv, ReadInv
    <3>2. Holds(ReadManifest(manifest), j, archive, written)
      BY <3>1 DEF Intact, HasData, Holds
    <3> QED
      BY <1>1, <3>1, <3>2, HoldsSettled
  <2> QED
    BY <2>1, <2>2
<1> QED
  BY <1>2, <1>3, <1>4 DEF DataInv

(* vacuum() copies the data of the live keys, and those settled are live.  *)
LEMMA VacuumData ==
    ASSUME TypeInv, DataInv, Vacuum
    PROVE  DataInv'
<1> DEFINE old == ReadManifest(manifest)
           kept == LiveInOrder(old)
<1>1. /\ manifest \in Seq(Line) /\ archive \in Seq(Nat) /\ settled \subseteq Keys
      /\ mode = "closed" /\ archiveFile = archive
  BY DEF TypeInv, TypeOK, Vacuum, NoBuffers, DataInv, PrefixInv
<1>2. /\ kept \in Seq(Keys)
      /\ \A m, n \in DOMAIN kept : kept[m] = kept[n] => m = n
      /\ \A n \in DOMAIN kept : kept[n] \in LiveIn(old)
      /\ \A k \in LiveIn(old) : \E n \in DOMAIN kept : kept[n] = k
  BY <1>1, KeptInOrder
<1>3. /\ manifest' = [i \in DOMAIN kept |-> [key |-> kept[i], offset |-> i]]
      /\ archive' = [i \in DOMAIN kept |-> archive[old.place[kept[i]]]]
      /\ onDisk' = Len(kept) /\ archiveFile' = archive'
      /\ UNCHANGED <<mode, written, settled, kills>>
  BY DEF Vacuum, history
<1> HIDE DEF old, kept
<1>4. /\ manifest' \in Seq(Line) /\ Len(manifest') = Len(kept)
      /\ \A i \in DOMAIN kept : LastOf(manifest', kept[i], i)
      /\ LiveIn(ReadManifest(manifest')) = {kept[i] : i \in DOMAIN kept}
  BY <1>2, <1>3, CompactedRead
<1>5. archive' \in Seq(Nat)
  BY VacuumType DEF TypeInv, TypeOK
<1>6. PrefixInv'
  BY <1>3, <1>5, BeginsItself DEF PrefixInv
<1>7. ASSUME NEW k \in LiveIn(old), Holds(old, k, archive, written)
      PROVE  SettledIn(k, manifest', Len(kept), archive', written)
  <2>1. PICK i \in DOMAIN kept : kept[i] = k
    BY <1>2
  <2>2. LastOf(manifest', k, i) /\ i \in 1 .. Len(kept) /\ i \in DOMAIN archive'
        /\ manifest'[i].offset = i
    BY <1>2, <1>3, <1>4, <2>1
  <2>3. archive'[i] = written[k]
    BY <1>3, <1>7, <2>1 DEF Holds
  <2> QED
    BY <2>2, <2>3 DEF SettledIn
<1>8. FreshInv'
  <2> SUFFICES ASSUME kills = 0, NEW k \in LiveIn(ReadManifest(manifest'))
               PROVE  Holds(ReadManifest(manifest'), k, archive', written)
    BY <1>3 DEF FreshInv
  <2>1. k \in LiveIn(old) /\ k \in Keys
    BY <1>2, <1>4 DEF LiveIn
  <2>2. Holds(old, k, archive, written)
    BY <2>1 DEF DataInv, FreshInv, old
  <2>3. SettledIn(k, manifest', Len(kept), archive', written)
    BY <1>7, <2>1, <2>2
  <2> QED
    BY <1>4, <1>5, <2>1, <2>3, SettledHolds
<1>9. SettledInv'
  <2> SUFFICES ASSUME NEW k \in settled
               PROVE  SettledIn(k, manifest', Len(kept), archive', written)
    BY <1>3 DEF SettledInv
  <2>1. SettledIn(k, manifest, onDisk, archive, written) /\ k \in Keys
    BY <1>1 DEF DataInv, SettledInv
  <2>2. Holds(old, k, archive, written) /\ k \in LiveIn(old)
    BY <1>1, <2>1, SettledHolds DEF old
  <2> QED
    BY <1>7, <2>2
<1> QED
  BY <1>6, <1>8, <1>9 DEF DataInv

(* A kill takes away the lines and the data that are not on the disk.      *)
LEMMA KillData ==
    ASSUME TypeInv, DataInv, Kill
    PROVE  DataInv'
<1>1. /\ manifest \in Seq(Line) /\ archiveFile \in Seq(Nat) /\ onDisk \in 0 .. Len(manifest)
      /\ kills \in Nat /\ settled \subseteq Keys
  BY DEF TypeInv, TypeOK, ArchiveAssumption
<1>2. /\ manifest' = SubSeq(manifest, 1, onDisk) /\ archive' = archiveFile
      /\ kills' = kills + 1 /\ UNCHANGED <<onDisk, archiveFile, written, settled>>
  BY DEF Kill
<1>3. /\ DOMAIN manifest' = 1 .. onDisk
      /\ \A i \in 1 .. onDisk : i \in DOMAIN manifest /\ manifest'[i] = manifest[i]
  BY <1>1, <1>2
<1>4. PrefixInv'
  BY <1>1, <1>2, BeginsItself DEF PrefixInv
<1>5. FreshInv'
  BY <1>1, <1>2 DEF FreshInv
<1>6. SettledInv'
  <2> SUFFICES ASSUME NEW k \in settled
               PROVE  SettledIn(k, manifest', onDisk, archiveFile, written)
    BY <1>2 DEF SettledInv
  <2>1. PICK i \in 1 .. onDisk : /\ LastOf(manifest, k, i)
                                 /\ manifest[i].offset \in DOMAIN archiveFile
                                 /\ archiveFile[manifest[i].offset] = written[k]
    BY DEF DataInv, SettledInv, SettledIn
  <2>2. LastOf(manifest', k, i) /\ manifest'[i] = manifest[i]
    BY <1>3, <2>1 DEF LastOf, LinesOf
  <2> QED
    BY <2>1, <2>2 DEF SettledIn
<1> QED
  BY <1>4, <1>5, <1>6 DEF DataInv

LEMMA DataStep ==
    ASSUME ~ReadsThenInserts, TypeInv, DataInv, [Next]_vars
    PROVE  DataInv'
<1>1. CASE Refuses \/ UNCHANGED vars
  BY <1>1, RefusesStays, OutData DEF vars, files, history, NoBuffers
<1>2. ASSUME NEW m \in {"ReadWrite", "ReadOnly"}, Open(m) PROVE DataInv'
  <2>1. archiveFile = archive /\ UNCHANGED files /\ UNCHANGED history
    BY <1>2 DEF DataInv, PrefixInv, NoBuffers, Open
  <2> QED
    BY <2>1, OutData DEF files, history
<1>3. CASE Close \/ CloseReadOnly
  <2>1. NoBuffers /\ archiveFile = archive /\ onDisk = Len(manifest) /\ IsOpen
    BY <1>3 DEF Close, CloseReadOnly, NoBuffers, IsOpen, DataInv, PrefixInv, TypeInv, ReadInv
  <2>2. UNCHANGED <<manifest, onDisk, archive, archiveFile, written, kills>>
        /\ (settled' = settled \/ settled' = RightNow)
    BY <1>3 DEF Close, CloseReadOnly, files, history
  <2> QED
    BY <2>1, <2>2, OutData
<1>4. CASE \/ SyncBegins \/ SyncSaves \/ Sync \/ CloseBegins \/ SpillManifest \/ SpillArchive
           \/ \E k \in Keys : Flush(k)
  <2>1. UNCHANGED <<manifest, archive, written, kills>>
        /\ (onDisk' = onDisk \/ onDisk' = Len(manifest))
        /\ (archiveFile' = archiveFile \/ archiveFile' = archive)
        /\ (mode' \in {"ReadWrite", "syncing", "flushing"} \/ archiveFile' = archive)
    BY <1>4 DEF SyncBegins, SyncSaves, Sync, CloseBegins, SpillManifest, SpillArchive, Flush,
                ManifestOut, ArchiveOut, Writable, history
  <2>2. \/ settled' = settled
        \/ /\ settled' = RightNow /\ IsOpen
           /\ onDisk' = Len(manifest) /\ archiveFile' = archive
    BY <1>4 DEF SyncBegins, SyncSaves, Sync, CloseBegins, SpillManifest, SpillArchive, Flush,
                ManifestOut, ArchiveOut, IsOpen, history
  <2> QED
    BY <2>1, <2>2, OutData DEF NoBuffers
<1>5. CASE \/ \E k \in Keys : Read(k) \/ SetCursorAtKey(k)
           \/ \E start \in BOOLEAN : SequenceEnds(start)
           \/ \E start, returnData \in BOOLEAN : Sequence(start, returnData)
  <2>1. UNCHANGED <<manifest, onDisk, archive, written, settled, kills, mode>>
        /\ (archiveFile' = archiveFile \/ archiveFile' = archive)
    BY <1>5 DEF Read, SetCursorAtKey, SequenceEnds, Sequence, ReadsData, history, files
  <2>2. NoBuffers => archiveFile = archive
    BY DEF DataInv, PrefixInv
  <2> QED
    BY <2>1, <2>2, OutData DEF NoBuffers
<1> QED
  BY <1>1, <1>2, <1>3, <1>4, <1>5, InsertData, RemoveData, VacuumData, KillData
     DEF Next, Client, ClientOf, Refuses

(* read() returns what was last inserted under the key, and after a kill   *)
(* what was right when last synced, for clients that insert at the end.    *)
THEOREM RecordsCorrect == ~ReadsThenInserts => (Spec => []RecordsIntact)
<1> SUFFICES ASSUME ~ReadsThenInserts PROVE Spec => []RecordsIntact
  OBVIOUS
<1>1. Init => TypeInv /\ DataInv
  <2> SUFFICES ASSUME Init PROVE DataInv
    BY InitTypeInv
  <2>1. PrefixInv /\ SettledInv
    BY BeginsItself DEF Init, PrefixInv, SettledInv, Begins
  <2>2. FreshInv
    BY ReadEmpty DEF Init, FreshInv, LiveIn, NoEntries
  <2> QED
    BY <2>1, <2>2 DEF DataInv
<1>2. TypeInv /\ DataInv /\ [Next]_vars => TypeInv' /\ DataInv'
  BY NextTypeInv, DataStep
<1>3. TypeInv /\ DataInv => RecordsIntact
  <2> SUFFICES ASSUME TypeInv, DataInv, IsOpen, NEW k \in Live, kills = 0 \/ k \in settled
               PROVE  Intact(k)
    BY DEF RecordsIntact
  <2>1. /\ entries = ReadManifest(manifest) /\ manifest \in Seq(Line)
        /\ archive \in Seq(Nat) /\ archiveFile \in Seq(Nat) /\ k \in Keys
        /\ k \in LiveIn(ReadManifest(manifest)) /\ onDisk \in Nat
    BY LiveRead DEF TypeInv, TypeOK, ReadInv, Live
  <2>2. Holds(entries, k, archive, written)
    <3>1. CASE kills = 0
      BY <2>1, <3>1 DEF DataInv, FreshInv
    <3>2. CASE k \in settled
      <4>1. SettledIn(k, manifest, onDisk, archiveFile, written)
            /\ Begins(archiveFile, archive)
        BY <3>2 DEF DataInv, SettledInv, PrefixInv
      <4>2. SettledIn(k, manifest, onDisk, archive, written)
        BY <2>1, <4>1, SettledStays
      <4> QED
        BY <2>1, <4>2, SettledHolds
    <3> QED
      BY <3>1, <3>2
  <2> QED
    BY <2>2 DEF Holds, Intact, HasData
<1> QED
  BY <1>1, <1>2, <1>3, PTL DEF Spec

-----------------------------------------------------------------------------
(***************************************************************************)
(* The refinement.  A line more leaves what the lines before it say, so    *)
(* that each change of the store adds one content a kill may leave; what   *)
(* reaches the disk takes contents away, and never the present one.        *)
(***************************************************************************)
After(lines, n) == StoreOf(ReadManifest(SubSeq(lines, 1, n)))

LEMMA AfterAll ==
    ASSUME NEW lines \in Seq(Line)
    PROVE  After(lines, Len(lines)) = StoreOf(ReadManifest(lines))
<1>1. SubSeq(lines, 1, Len(lines)) = lines
  BY SubSeqFull
<1> QED
  BY <1>1 DEF After

LEMMA AfterLonger ==
    ASSUME NEW lines \in Seq(Line), NEW l \in Line, NEW n \in 0 .. Len(lines)
    PROVE  After(Append(lines, l), n) = After(lines, n)
<1>1. SubSeq(Append(lines, l), 1, n) = SubSeq(lines, 1, n)
  <2>1. Append(lines, l) \in Seq(Line) /\ Len(Append(lines, l)) = Len(lines) + 1
        /\ \A i \in 1 .. Len(lines) : Append(lines, l)[i] = lines[i]
        /\ Len(lines) \in Nat
    OBVIOUS
  <2> DEFINE more == Append(lines, l)
  <2> HIDE DEF more
  <2>2. SubSeq(more, 1, n) = [i \in 1 .. n |-> more[i]]
    BY <2>1 DEF more
  <2>3. SubSeq(lines, 1, n) = [i \in 1 .. n |-> lines[i]]
    BY <2>1
  <2>4. \A i \in 1 .. n : more[i] = lines[i]
    BY <2>1 DEF more
  <2> QED
    BY <2>2, <2>3, <2>4 DEF more
<1> QED
  BY <1>1 DEF After

LEMMA AfterCut ==
    ASSUME NEW lines \in Seq(Line), NEW n \in 0 .. Len(lines)
    PROVE  /\ SubSeq(lines, 1, n) \in Seq(Line) /\ Len(SubSeq(lines, 1, n)) = n
           /\ StoreOf(ReadManifest(SubSeq(lines, 1, n))) = After(lines, n)
<1>1. Len(lines) \in Nat
  OBVIOUS
<1>2. SubSeq(lines, 1, n) \in Seq(Line) /\ Len(SubSeq(lines, 1, n)) = n
  BY <1>1
<1> QED
  BY <1>2 DEF After

(* The store, open or closed, is what its lines say, unless it is lost.    *)
LEMMA StoreSaid ==
    /\ TypeInv => /\ ~Lost => CurrentStore = StoreOf(ReadManifest(manifest))
                  /\ IsOpen => ~Lost /\ CurrentStore = StoreOf(entries)
    /\ TypeInv' => /\ ~Lost' => CurrentStore' = StoreOf(ReadManifest(manifest'))
                   /\ IsOpen' => ~Lost' /\ CurrentStore' = StoreOf(entries')
<1>1. /\ TypeInv => StoreAfter(Len(manifest)) = StoreOf(ReadManifest(manifest))
      /\ TypeInv' => StoreAfter(Len(manifest))' = StoreOf(ReadManifest(manifest'))
  BY AfterAll DEF TypeInv, TypeOK, StoreAfter, After
<1>2. /\ TypeInv /\ IsOpen => entries = ReadManifest(manifest)
      /\ TypeInv' /\ IsOpen' => entries' = ReadManifest(manifest')
  BY DEF TypeInv, ReadInv
<1> QED
  BY <1>1, <1>2 DEF Lost, CurrentStore

(* Nothing but the present content survives when all lines and the count   *)
(* are on the disk, or nothing is left.                                    *)
LEMMA OnlyCurrent ==
    /\ TypeInv /\ onDisk = Len(manifest) /\ (countFile # Missing \/ ~IsOpen) =>
         Survivors = {CurrentStore}
    /\ TypeInv' /\ onDisk' = Len(manifest') /\ (countFile' # Missing \/ ~IsOpen') =>
         Survivors' = {CurrentStore'}
<1>1. /\ TypeInv /\ onDisk = Len(manifest) => onDisk .. (Len(manifest) - 1) = {}
      /\ TypeInv' /\ onDisk' = Len(manifest') => onDisk' .. (Len(manifest') - 1) = {}
  <2>1. \A n \in Nat : n .. (n - 1) = {}
    OBVIOUS
  <2>2. TypeInv => Len(manifest) \in Nat
    BY DEF TypeInv, TypeOK
  <2>3. TypeInv' => Len(manifest') \in Nat
    BY Parts DEF TypeInv, LinesOK
  <2> QED
    BY <2>1, <2>2, <2>3
<1>2. countFile = Missing /\ ~IsOpen => CurrentStore = NoStore
  BY DEF CurrentStore, Lost
<1>3. countFile' = Missing /\ ~IsOpen' => CurrentStore' = NoStore
  BY DEF CurrentStore, Lost, NoStore
<1> QED
  BY <1>1, <1>2, <1>3 DEF Survivors, NoStore

LEMMA SameStore ==
    /\ UNCHANGED <<manifest, countFile, entries, mode>> =>
         UNCHANGED CurrentStore
    /\ UNCHANGED <<manifest, onDisk, countFile, entries, mode>> =>
         UNCHANGED <<CurrentStore, Survivors>>
    /\ UNCHANGED position => UNCHANGED NextPlace
    /\ UNCHANGED mode => UNCHANGED PromiseMode
<1>1. UNCHANGED <<manifest, countFile, entries, mode>> => UNCHANGED CurrentStore
  BY DEF CurrentStore, Lost, IsOpen, StoreAfter
<1>2. UNCHANGED <<manifest, onDisk, countFile, entries, mode>> => UNCHANGED Survivors
  BY <1>1 DEF Survivors, StoreAfter
<1>3. UNCHANGED position => UNCHANGED NextPlace
  BY DEF NextPlace, position
<1>4. UNCHANGED mode => UNCHANGED PromiseMode
  BY DEF PromiseMode
<1> QED
  BY <1>1, <1>2, <1>3, <1>4

(* The mode as the client sees it: a store that is saving answers nobody.  *)
LEMMA ModeSaid ==
    /\ mode \in {"closed", "ReadWrite", "ReadOnly"} => PromiseMode = mode
    /\ mode' \in {"closed", "ReadWrite", "ReadOnly"} => PromiseMode' = mode'
    /\ mode \in Saving => PromiseMode = "saving"
    /\ mode' \in Saving => PromiseMode' = "saving"
    /\ TypeInv /\ Idle => Promise!IsIdle
BY DEF PromiseMode, Saving, Idle, IsOpen, Promise!IsIdle, TypeInv, TypeOK

(* A line more, in the buffer: one content more.                           *)
LEMMA SurvivorsGrow ==
    ASSUME TypeInv, TypeInv', NEW k \in Keys, NEW o \in Nat, Writable,
           WriteManifestEntry(k, o), UNCHANGED <<onDisk, countFile, mode>>
    PROVE  Survivors' = Survivors \cup {CurrentStore'}
<1> DEFINE L == Len(manifest)
           none == IF countFile = Missing THEN {NoStore} ELSE {}
<1>1. /\ L \in Nat /\ onDisk \in 0 .. L /\ manifest \in Seq(Line)
      /\ [key |-> k, offset |-> o] \in Line
      /\ manifest' = Append(manifest, [key |-> k, offset |-> o])
      /\ manifest' \in Seq(Line) /\ Len(manifest') = L + 1
  BY LineWritten DEF TypeInv, TypeOK, WriteManifestEntry, Line
<1>2. \A n \in 0 .. L : After(manifest', n) = After(manifest, n)
  BY <1>1, AfterLonger
<1>3. CurrentStore = After(manifest, L)
  BY <1>1, StoreSaid, AfterAll DEF Writable, IsOpen
<1>4. Survivors = {CurrentStore} \cup {After(manifest, n) : n \in onDisk .. (L - 1)} \cup none
  BY DEF Survivors, StoreAfter, After
<1>5. Survivors' = {CurrentStore'} \cup {After(manifest', n) : n \in onDisk .. L} \cup none
  <2>1. Len(manifest') - 1 = L
    BY <1>1
  <2>2. Survivors' = {CurrentStore'} \cup {After(manifest', n) : n \in onDisk .. (Len(manifest') - 1)}
                     \cup none
    BY DEF Survivors, StoreAfter, After, NoStore
  <2> QED
    BY <2>1, <2>2
<1>6. {After(manifest', n) : n \in onDisk .. L}
        = {After(manifest, n) : n \in onDisk .. (L - 1)} \cup {After(manifest, L)}
  <2>1. onDisk .. L = (onDisk .. (L - 1)) \cup {L} /\ \A n \in onDisk .. L : n \in 0 .. L
    BY <1>1
  <2>2. \A n \in onDisk .. L : After(manifest', n) = After(manifest, n)
    BY <1>2, <2>1
  <2> HIDE DEF L
  <2> QED
    BY <2>1, <2>2
<1> QED
  BY <1>3, <1>4, <1>5, <1>6

(* What is written out may take contents away, never the present one.      *)
LEMMA SurvivorsSettle ==
    ASSUME TypeInv, UNCHANGED <<manifest, countFile, entries, mode>>,
           onDisk' = onDisk \/ onDisk' = Len(manifest)
    PROVE  Survivors' \subseteq Survivors /\ CurrentStore' = CurrentStore
           /\ CurrentStore \in Survivors'
<1>1. CurrentStore' = CurrentStore
  BY SameStore
<1>2. Survivors' = {CurrentStore} \cup {StoreAfter(n) : n \in onDisk' .. (Len(manifest) - 1)}
                   \cup (IF countFile = Missing THEN {NoStore} ELSE {})
  BY <1>1 DEF Survivors, StoreAfter, NoStore
<1>3. onDisk' .. (Len(manifest) - 1) \subseteq onDisk .. (Len(manifest) - 1)
  BY DEF TypeInv, TypeOK
<1> QED
  BY <1>1, <1>2, <1>3 DEF Survivors

LEMMA InitPromise == Init => Promise!Init
<1> SUFFICES ASSUME Init PROVE Promise!Init
  OBVIOUS
<1>1. /\ mode = "ReadWrite" /\ cursor = "Start" /\ countFile = Missing
      /\ answer = [out |-> "created", keys |-> {}]
      /\ entries = NoEntries /\ onDisk .. (Len(manifest) - 1) = {}
  BY DEF Init
<1>2. CurrentStore = [exists |-> TRUE, order |-> <<>>, live |-> {}]
  BY <1>1 DEF CurrentStore, Lost, IsOpen, StoreOf, NoEntries
<1>3. Survivors = {NoStore, CurrentStore}
  BY <1>1 DEF Survivors
<1>4. NextPlace = 1
  BY <1>1 DEF NextPlace
<1>5. Promise!Nothing = NoStore
  BY DEF Promise!Nothing, NoStore
<1>6. Promise!Empty = CurrentStore
  BY <1>2 DEF Promise!Empty, Promise!Store
<1> QED
  BY <1>1, <1>3, <1>4, <1>5, <1>6, ModeSaid DEF Promise!Init

(* The live keys of an open store, as its client sees them.                *)
LEMMA CurrentLive ==
    ASSUME TypeInv, IsOpen, NEW k \in Keys
    PROVE  k \in CurrentStore.live <=> Present(k)
BY StoreSaid DEF StoreOf, Present

LEMMA RefusesPromise ==
    ASSUME TypeInv, Refuses
    PROVE  Promise!Next
<1>1. UNCHANGED <<CurrentStore, Survivors, NextPlace, PromiseMode, mode>>
  BY RefusesStays, SameStore DEF files, table
<1>2. ASSUME NEW k \in Keys, InsertExisting(k) PROVE Promise!Insert(k)
  <2>1. k \in CurrentStore.live
    BY <1>2, CurrentLive, KeyExistsPresent DEF InsertExisting, Writable, IsOpen
  <2> QED
    BY <1>1, <1>2, <2>1, ModeSaid DEF InsertExisting, Writable, Throws, Says,
                            Promise!Insert, Promise!Refused, Promise!Says
<1>3. ASSUME NEW k \in Keys, RemoveAbsent(k) PROVE Promise!Remove(k)
  <2>1. k \notin CurrentStore.live
    BY <1>3, CurrentLive, KeyExistsPresent DEF RemoveAbsent, Writable, IsOpen
  <2> QED
    BY <1>1, <1>3, <2>1, ModeSaid DEF RemoveAbsent, Writable, Throws, Says,
                            Promise!Remove, Promise!Refused, Promise!Says
<1>4. ASSUME NEW k \in Keys, AimAbsent(k) PROVE Promise!SetCursorAtKey(k)
  <2>1. k \notin CurrentStore.live
    BY <1>4, CurrentLive DEF AimAbsent, Idle
  <2> QED
    BY <1>1, <1>4, <2>1, ModeSaid DEF AimAbsent, Throws, Says,
                            Promise!SetCursorAtKey, Promise!Says
<1>5. CASE RefusedReadOnly
  BY <1>1, <1>5, ModeSaid DEF RefusedReadOnly, Throws, Says, Promise!Next,
                    Promise!RefusedReadOnly, Promise!Refused, Promise!Says
<1>6. CASE SyncReadOnly
  <2>1. Survivors = {CurrentStore}
    BY <1>6, OnlyCurrent DEF SyncReadOnly, TypeInv, ReadInv, NoBuffers
  <2>2. Promise!Sync
    BY <1>1, <1>6, <2>1, ModeSaid DEF SyncReadOnly, Throws, Says, Promise!Sync, Promise!Says
  <2> QED
    BY <2>2 DEF Promise!Next
<1>7. CASE OpenFails
  <2>1. ~CurrentStore.exists
    BY <1>7 DEF OpenFails, CurrentStore, Lost, IsOpen, NoStore
  <2>2. Promise!Open("ReadOnly")
    BY <1>1, <1>7, <2>1, ModeSaid DEF OpenFails, Throws, Says, Promise!Open, Promise!Says
  <2> QED
    BY <2>2 DEF Promise!Next
<1> QED
  BY <1>2, <1>3, <1>4, <1>5, <1>6, <1>7 DEF Refuses, Promise!Next

LEMMA PlacedIsKnown ==
    ASSUME TypeInv, IsOpen, NEW k \in Keys
    PROVE  Promise!Placed(k) <=> entries.place[k] # Unknown
<1>1. CurrentStore.order = entries.order
  BY StoreSaid DEF StoreOf
<1> QED
  BY <1>1, TableOnce DEF Promise!Placed

LEMMA InsertPromise ==
    ASSUME TypeInv, TypeInv', NEW k \in Keys, Insert(k)
    PROVE  Promise!Insert(k)
<1>1. /\ Writable /\ IsOpen /\ Writable' /\ IsOpen' /\ mode' = mode /\ streamPos \in Nat
      /\ WriteManifestEntry(k, streamPos) /\ streamPos # 0
      /\ UNCHANGED <<onDisk, countFile, mode, position>>
      /\ answer' = [out |-> "inserted", keys |-> {}]
      /\ entries' = EfficientInsert(entries, k, streamPos)
      /\ entries.place \in [Keys -> Nat \cup {Unknown}]
  BY DEF TypeInv, TypeOK, Insert, Writable, IsOpen, Says, WriteManifestEntry
<1>2. CurrentStore = StoreOf(entries) /\ CurrentStore' = StoreOf(entries')
  BY <1>1, StoreSaid
<1>3. k \notin CurrentStore.live
  BY <1>1, CurrentLive, KeyExistsPresent DEF Insert
<1>4. /\ entries'.order = IF Promise!Placed(k) THEN entries.order ELSE Append(entries.order, k)
      /\ entries'.place = [entries.place EXCEPT ![k] = streamPos]
  BY <1>1, PlacedIsKnown DEF EfficientInsert
<1>5. StoreOf(entries').live = StoreOf(entries).live \cup {k}
  BY <1>1, <1>4 DEF StoreOf, Unknown, Removed
<1> DEFINE c == Promise!Store(IF Promise!Placed(k) THEN CurrentStore.order
                             ELSE Append(CurrentStore.order, k),
                             CurrentStore.live \cup {k})
<1>6. CurrentStore' = c
  <2>1. CurrentStore.order = entries.order
        /\ CurrentStore.live = StoreOf(entries).live
    BY <1>2 DEF StoreOf
  <2>2. CurrentStore' = [exists |-> TRUE, order |-> entries'.order,
                         live |-> StoreOf(entries').live]
    BY <1>2 DEF StoreOf
  <2> QED
    BY <1>4, <1>5, <2>1, <2>2 DEF Promise!Store
<1>7. Survivors' = Survivors \cup {CurrentStore'}
  BY <1>1, SurvivorsGrow
<1>8. UNCHANGED NextPlace
  BY <1>1, SameStore
<1>9. Promise!Changes(c)
  BY <1>1, <1>6, <1>7, <1>8, SameStore DEF Promise!Changes
<1> QED
  BY <1>1, <1>3, <1>9, ModeSaid DEF Promise!Insert, Promise!Says, Writable

LEMMA RemovePromise ==
    ASSUME TypeInv, TypeInv', NEW k \in Keys, Remove(k)
    PROVE  Promise!Remove(k)
<1>1. /\ Writable /\ IsOpen /\ Writable' /\ IsOpen' /\ mode' = mode /\ Removed \in Nat
      /\ WriteManifestEntry(k, Removed)
      /\ UNCHANGED <<onDisk, countFile, mode, position>>
      /\ answer' = [out |-> "removed", keys |-> {}]
      /\ entries' = EfficientInsert(entries, k, Removed)
      /\ entries.place \in [Keys -> Nat \cup {Unknown}]
  BY DEF TypeInv, TypeOK, Remove, Writable, IsOpen, Says, WriteManifestEntry, Removed
<1>2. CurrentStore = StoreOf(entries) /\ CurrentStore' = StoreOf(entries')
  BY <1>1, StoreSaid
<1>3. k \in CurrentStore.live /\ Present(k)
  BY <1>1, CurrentLive, KeyExistsPresent DEF Remove
<1>4. /\ entries'.order = entries.order
      /\ entries'.place = [entries.place EXCEPT ![k] = Removed]
  BY <1>1, <1>3 DEF EfficientInsert, Present
<1>5. StoreOf(entries').live = StoreOf(entries).live \ {k}
  BY <1>1, <1>4 DEF StoreOf, Unknown, Removed
<1> DEFINE c == Promise!Store(CurrentStore.order, CurrentStore.live \ {k})
<1>6. CurrentStore' = c
  <2>1. CurrentStore.order = entries.order
        /\ CurrentStore.live = StoreOf(entries).live
    BY <1>2 DEF StoreOf
  <2>2. CurrentStore' = [exists |-> TRUE, order |-> entries'.order,
                         live |-> StoreOf(entries').live]
    BY <1>2 DEF StoreOf
  <2> QED
    BY <1>4, <1>5, <2>1, <2>2 DEF Promise!Store
<1>7. Survivors' = Survivors \cup {CurrentStore'}
  BY <1>1, SurvivorsGrow
<1>8. UNCHANGED NextPlace
  BY <1>1, SameStore
<1>9. Promise!Changes(c)
  BY <1>1, <1>6, <1>7, <1>8, SameStore DEF Promise!Changes
<1> QED
  BY <1>1, <1>3, <1>9, ModeSaid DEF Promise!Remove, Promise!Says, Writable

(* Reading, flushing and a full buffer: the promise's Settle.              *)
LEMMA SettlePromise ==
    ASSUME TypeInv,
           SpillManifest \/ SpillArchive \/ \E k \in Keys : Read(k) \/ Flush(k)
    PROVE  Promise!Settle
<1>1. /\ UNCHANGED <<manifest, countFile, entries, mode, position>>
      /\ onDisk' = onDisk \/ onDisk' = Len(manifest)
      /\ answer' = [out |-> "settled", keys |-> {}]
  BY DEF SpillManifest, SpillArchive, Read, Flush, ManifestOut, Says, table
<1>2. Survivors' \subseteq Survivors /\ CurrentStore' = CurrentStore
      /\ CurrentStore \in Survivors'
  BY <1>1, SurvivorsSettle
<1>3. UNCHANGED NextPlace
  BY <1>1, SameStore
<1> QED
  BY <1>1, <1>2, <1>3, SameStore DEF Promise!Settle, Promise!Says

(* Where sequence() goes on, from the cursor and from the next place.      *)
LEMMA AheadSame ==
    ASSUME TypeInv, IsOpen, NEW start \in BOOLEAN
    PROVE  LET from == IF start THEN 1 ELSE NextPlace
           IN  Ahead(start) = {i \in Promise!LivePlaces : from # 0 /\ i >= from}
<1> DEFINE from == IF start THEN 1 ELSE NextPlace
<1>1. CurrentStore.order = entries.order /\ entries.order \in Seq(Keys)
      /\ \A k \in Keys : k \in CurrentStore.live <=> Present(k)
  BY StoreSaid, CurrentLive DEF StoreOf, TypeInv, TypeOK
<1>2. Promise!LivePlaces = LivePlaces
  BY <1>1 DEF Promise!LivePlaces, LivePlaces
<1>3. \A i \in LivePlaces : i \in Nat \ {0}
  BY <1>1 DEF LivePlaces
<1>4. cursor \in {"Start", "Next"} /\ cursorPos \in Nat
  BY DEF TypeInv, TypeOK
<1>5. CASE start \/ cursor = "Start"
  <2>1. from = 1
    BY <1>5 DEF NextPlace
  <2> HIDE DEF from
  <2> QED
    BY <1>2, <1>3, <1>5, <2>1 DEF Ahead, from
<1>6. CASE ~start /\ cursor = "Next" /\ cursorPos = End
  <2>1. from = 0
    BY <1>6 DEF NextPlace, End
  <2> HIDE DEF from
  <2> QED
    BY <1>2, <1>6, <2>1 DEF Ahead, from
<1>7. CASE ~start /\ cursor = "Next" /\ cursorPos # End
  <2>1. from = cursorPos + 1 /\ from # 0
    BY <1>4, <1>7 DEF NextPlace, End
  <2>2. Ahead(start) = {i \in LivePlaces : i > cursorPos}
    BY <1>7 DEF Ahead
  <2>3. \A i \in LivePlaces : i > cursorPos <=> i >= cursorPos + 1
    BY <1>3, <1>4
  <2> HIDE DEF from
  <2> QED
    BY <1>2, <2>1, <2>2, <2>3 DEF from
<1> QED
  BY <1>4, <1>5, <1>6, <1>7

LEMMA SequenceEndsPromise ==
    ASSUME TypeInv, NEW start \in BOOLEAN, SequenceEnds(start)
    PROVE  Promise!Sequence(start)
<1>1. /\ IsOpen /\ Idle /\ Ahead(start) = {} /\ cursorPos' = 0 /\ cursor' = cursor
      /\ answer' = [out |-> "ended", keys |-> {}]
      /\ UNCHANGED <<manifest, onDisk, countFile, entries, mode>>
      /\ cursor \in {"Start", "Next"} /\ cursorPos \in Nat
  BY DEF TypeInv, TypeOK, SequenceEnds, Idle, Says, End, files, table
<1>2. UNCHANGED <<CurrentStore, Survivors>>
  BY <1>1, SameStore
<1>3. NextPlace' = IF NextPlace = 1 THEN 1 ELSE 0
  BY <1>1 DEF NextPlace, End
<1> QED
  BY <1>1, <1>2, <1>3, AheadSame, SameStore, ModeSaid DEF Promise!Sequence, Promise!Says, Promise!Ended

LEMMA SequencePromise ==
    ASSUME TypeInv, NEW start \in BOOLEAN, NEW returnData \in BOOLEAN,
           Sequence(start, returnData)
    PROVE  Promise!Sequence(start)
<1> DEFINE i == FirstAhead(start)
<1>1. /\ IsOpen /\ Idle /\ Ahead(start) # {} /\ cursorPos' = i /\ cursor' = "Next"
      /\ answer' = [out |-> "key", keys |-> {entries.order[i]}]
      /\ UNCHANGED <<manifest, onDisk, countFile, entries, mode>>
  BY DEF Sequence, Idle, SaysKey, table
<1>2. /\ i \in Ahead(start) /\ \A j \in Ahead(start) : i <= j
      /\ i \in 1 .. Len(entries.order) /\ Len(entries.order) \in Nat
  BY <1>1, AheadType DEF TypeInv, TypeOK
<1> HIDE DEF i
<1>3. UNCHANGED <<CurrentStore, Survivors>>
  BY <1>1, SameStore
<1>4. NextPlace' = i + 1
  BY <1>1, <1>2 DEF NextPlace, End
<1>5. CurrentStore.order = entries.order
  BY <1>1, StoreSaid DEF StoreOf
<1> QED
  BY <1>1, <1>2, <1>3, <1>4, <1>5, AheadSame, SameStore, ModeSaid
     DEF Promise!Sequence, Promise!SaysKey, Promise!Ended

LEMMA AimedPromise ==
    ASSUME TypeInv, NEW k \in Keys, SetCursorAtKey(k)
    PROVE  Promise!SetCursorAtKey(k)
<1>1. /\ IsOpen /\ Idle /\ Present(k)
      /\ AimsAtStart \/ cursor = "Next" \/ entries.order[1] = k
      /\ answer' = [out |-> "aimed", keys |-> {k}]
      /\ UNCHANGED <<manifest, onDisk, countFile, entries, mode>>
      /\ cursor \in {"Start", "Next"}
  BY DEF SetCursorAtKey, Idle, SaysKey, files, table, TypeInv, TypeOK
<1>2. PICK i \in DOMAIN entries.order : entries.order[i] = k /\ Aimed(i)
  BY DEF SetCursorAtKey
<1>3. i \in Nat \ {0} /\ 1 \in DOMAIN entries.order
  <2>1. entries.order \in Seq(Keys)
    BY DEF TypeInv, TypeOK
  <2> QED
    BY <1>2, <2>1
<1>4. NextPlace' = i \/ (AimsAtStart /\ NextPlace = 1 /\ NextPlace' = NextPlace)
  <2>1. CASE i = 1
    BY <1>2, <2>1 DEF Aimed, NextPlace
  <2>2. CASE i # 1 /\ cursor = "Next"
    BY <1>2, <1>3, <2>2 DEF Aimed, NextPlace, End
  <2>3. CASE i # 1 /\ cursor # "Next"
    <3>1. AimsAtStart
      BY <1>1, <1>2, <1>3, <2>3, TableOnce
    <3> QED
      BY <1>1, <1>2, <2>3, <3>1 DEF Aimed, NextPlace
  <2> QED
    BY <2>1, <2>2, <2>3
<1>5. UNCHANGED <<CurrentStore, Survivors, PromiseMode>>
  BY <1>1, SameStore
<1>6. CurrentStore.order = entries.order /\ k \in CurrentStore.live
  BY <1>1, StoreSaid, CurrentLive DEF StoreOf
<1> QED
  BY <1>1, <1>2, <1>4, <1>5, <1>6, ModeSaid DEF Promise!SetCursorAtKey, Promise!SaysKey

(* While the control file is empty a kill leaves nothing, and what was     *)
(* written out takes contents away.                                        *)
LEMMA SaveBeginsPromise ==
    ASSUME TypeInv, TypeInv', SyncBegins \/ CloseBegins
    PROVE  Promise!SaveBegins
<1>1. /\ UNCHANGED <<manifest, entries, position>> /\ IsOpen /\ IsOpen'
      /\ onDisk' = onDisk \/ onDisk' = Len(manifest)
      /\ mode = "ReadWrite" /\ mode' \in Saving
      /\ answer' = [out |-> "saving", keys |-> {}]
  BY DEF SyncBegins, CloseBegins, ManifestOut, Says, table, Writable, IsOpen, Saving
<1>2. CurrentStore' = CurrentStore
  BY <1>1, StoreSaid
<1>3. Survivors' \subseteq Survivors \cup {NoStore}
  <2>1. Survivors' \subseteq {CurrentStore}
                     \cup {StoreAfter(n) : n \in onDisk' .. (Len(manifest) - 1)}
                     \cup {NoStore}
    BY <1>1, <1>2 DEF Survivors, StoreAfter, NoStore
  <2>2. onDisk' .. (Len(manifest) - 1) \subseteq onDisk .. (Len(manifest) - 1)
    BY <1>1 DEF TypeInv, TypeOK
  <2> QED
    BY <2>1, <2>2 DEF Survivors
<1>4. CurrentStore \in Survivors'
  BY <1>2 DEF Survivors
<1>5. UNCHANGED NextPlace
  BY <1>1, SameStore
<1>6. Promise!Nothing = NoStore
  BY DEF Promise!Nothing, NoStore
<1> QED
  BY <1>1, <1>2, <1>3, <1>4, <1>5, <1>6, ModeSaid DEF Promise!SaveBegins, Promise!Says

(* The control file has its count again: a kill leaves a store.            *)
LEMMA SyncSavesPromise ==
    ASSUME TypeInv, TypeInv', SyncSaves
    PROVE  Promise!Settle
<1>1. /\ UNCHANGED <<manifest, onDisk, entries, position>> /\ IsOpen /\ IsOpen'
      /\ mode \in Saving /\ mode' \in Saving /\ countFile' = count
      /\ answer' = [out |-> "settled", keys |-> {}]
  BY DEF SyncSaves, Says, table, IsOpen, Saving
<1>2. CurrentStore' = CurrentStore /\ countFile' # Missing
  BY <1>1, StoreSaid DEF TypeInv, TypeOK, Missing
<1>3. Survivors' \subseteq Survivors /\ CurrentStore \in Survivors'
  BY <1>1, <1>2 DEF Survivors, StoreAfter, NoStore
<1>4. UNCHANGED NextPlace
  BY <1>1, SameStore
<1> QED
  BY <1>1, <1>2, <1>3, <1>4, ModeSaid DEF Promise!Settle, Promise!Says

LEMMA SyncPromise ==
    ASSUME TypeInv, TypeInv', Sync
    PROVE  Promise!Sync
<1>1. /\ UNCHANGED <<manifest, entries, countFile, position>> /\ IsOpen /\ IsOpen'
      /\ onDisk' = Len(manifest') /\ countFile # Missing
      /\ mode \in Saving /\ mode' = "ReadWrite"
      /\ answer' = [out |-> "synced", keys |-> {}]
  BY DEF Sync, ManifestOut, Says, table, IsOpen, Saving, TypeInv, ReadInv
<1>2. CurrentStore' = CurrentStore
  BY <1>1, StoreSaid
<1>3. Survivors' = {CurrentStore}
  BY <1>1, <1>2, OnlyCurrent
<1>4. UNCHANGED NextPlace
  BY <1>1, SameStore
<1> QED
  BY <1>1, <1>2, <1>3, <1>4, ModeSaid DEF Promise!Sync, Promise!Says

LEMMA ClosePromise ==
    ASSUME TypeInv, TypeInv', Close \/ CloseReadOnly
    PROVE  Promise!Close
<1>1. /\ UNCHANGED <<manifest, onDisk>> /\ mode' = "closed" /\ IsOpen
      /\ mode \in Saving \cup {"ReadOnly"} /\ NoBuffers /\ cursor' = "Start"
      /\ \/ mode = "closing" /\ countFile' = count
         \/ mode = "ReadOnly" /\ countFile' = countFile
      /\ answer' = [out |-> "closed", keys |-> {}]
  BY DEF Close, CloseReadOnly, Gone, Says, files, Saving, NoBuffers, IsOpen
<1>2. countFile' # Missing /\ onDisk' = Len(manifest')
  <2>1. count # Missing
    BY DEF TypeInv, TypeOK, Missing
  <2> QED
    BY <1>1, <2>1 DEF TypeInv, ReadInv
<1>3. CurrentStore' = CurrentStore
  BY <1>1, <1>2, StoreSaid DEF Lost
<1>4. Survivors' = {CurrentStore}
  BY <1>2, <1>3, OnlyCurrent
<1>5. NextPlace' = 1
  BY <1>1 DEF NextPlace
<1> QED
  BY <1>1, <1>3, <1>4, <1>5, ModeSaid DEF Promise!Close, Promise!Says

(* A kill leaves the lines on the disk, or a store that cannot be opened.  *)
LEMMA KillPromise ==
    ASSUME TypeInv, TypeInv', Kill
    PROVE  Promise!Kill
<1>1. /\ manifest' = SubSeq(manifest, 1, onDisk) /\ mode' = "closed" /\ IsOpen /\ ~IsOpen'
      /\ onDisk' = onDisk /\ cursor' = "Start" /\ countFile' = countFile
      /\ answer' = [out |-> "killed", keys |-> {}]
      /\ manifest \in Seq(Line) /\ onDisk \in 0 .. Len(manifest) /\ Len(manifest) \in Nat
  BY DEF Kill, Gone, Says, IsOpen, TypeInv, TypeOK
<1>2. Len(manifest') = onDisk' /\ StoreOf(ReadManifest(manifest')) = After(manifest, onDisk)
  BY <1>1, AfterCut
<1>3. Survivors' = {CurrentStore'}
  BY <1>1, <1>2, OnlyCurrent
<1>4. CurrentStore' \in Survivors
  <2>1. CASE countFile = Missing
    <3>1. CurrentStore' = NoStore
      BY <1>1, <2>1 DEF CurrentStore, Lost, NoStore
    <3> QED
      BY <2>1, <3>1 DEF Survivors
  <2>2. CASE countFile # Missing
    <3>1. CurrentStore' = After(manifest, onDisk)
      BY <1>1, <1>2, <2>2, StoreSaid DEF Lost
    <3>2. CASE onDisk = Len(manifest)
      <4>1. CurrentStore = After(manifest, onDisk)
        BY <1>1, <3>2, AfterAll, StoreSaid
      <4> QED
        BY <3>1, <4>1 DEF Survivors
    <3>3. CASE onDisk # Len(manifest)
      <4>1. onDisk \in onDisk .. (Len(manifest) - 1)
        BY <1>1, <3>3
      <4>2. StoreAfter(onDisk) \in Survivors
        BY <4>1 DEF Survivors
      <4> QED
        BY <3>1, <4>2 DEF StoreAfter, After
    <3> QED
      BY <3>2, <3>3
  <2> QED
    BY <2>1, <2>2
<1>5. NextPlace' = 1
  BY <1>1 DEF NextPlace
<1>6. PromiseMode # "closed" /\ PromiseMode' = "closed"
  BY <1>1, ModeSaid DEF PromiseMode, IsOpen
<1> QED
  BY <1>1, <1>3, <1>4, <1>5, <1>6 DEF Promise!Kill, Promise!Says

LEMMA OpenPromise ==
    ASSUME TypeInv, TypeInv', NEW m \in {"ReadWrite", "ReadOnly"}, Open(m)
    PROVE  Promise!Open(m)
<1>1. /\ UNCHANGED <<manifest, onDisk, countFile, position>> /\ mode = "closed" /\ mode' = m
      /\ countFile # Missing /\ ~IsOpen /\ IsOpen'
      /\ answer' = [out |-> "opened", keys |-> {}]
  BY DEF Open, files, Says, IsOpen
<1>2. CurrentStore = StoreOf(ReadManifest(manifest)) /\ CurrentStore' = CurrentStore
  BY <1>1, StoreSaid DEF Lost
<1>3. CurrentStore.exists
  BY <1>2 DEF StoreOf
<1>4. Survivors = {CurrentStore} /\ Survivors' = {CurrentStore'}
  <2>1. onDisk = Len(manifest)
    BY <1>1 DEF TypeInv, ReadInv, NoBuffers
  <2> QED
    BY <1>1, <2>1, OnlyCurrent
<1>5. UNCHANGED NextPlace
  BY <1>1, SameStore
<1> QED
  BY <1>1, <1>2, <1>3, <1>4, <1>5, ModeSaid DEF Promise!Open, Promise!Says

(* vacuum() lists the live places in their order, and loses no record.     *)
LEMMA VacuumPromise ==
    ASSUME TypeInv, TypeInv', Vacuum
    PROVE  Promise!Vacuum
<1> DEFINE old == ReadManifest(manifest)
           kept == LiveInOrder(old)
           from == Ascending(LivePlacesOf(old))
<1>1. /\ manifest \in Seq(Line) /\ mode = "closed" /\ ~IsOpen /\ countFile # Missing
      /\ manifest' = [i \in DOMAIN kept |-> [key |-> kept[i], offset |-> i]]
      /\ onDisk' = Len(kept) /\ countFile' = Len(kept) % UIntValues
      /\ answer' = [out |-> "vacuumed", keys |-> {}]
      /\ UNCHANGED <<mode, position>>
  BY DEF TypeInv, TypeOK, Vacuum, IsOpen, Says
<1>2. /\ kept \in Seq(Keys) /\ DOMAIN from = DOMAIN kept
      /\ \A n \in DOMAIN kept :
           from[n] \in LivePlacesOf(old) /\ kept[n] = old.order[from[n]]
      /\ \A m, n \in DOMAIN kept : m < n => from[m] < from[n]
      /\ \A i \in LivePlacesOf(old) : \E n \in DOMAIN kept : from[n] = i
      /\ \A m, n \in DOMAIN kept : kept[m] = kept[n] => m = n
      /\ \A n \in DOMAIN kept : kept[n] \in LiveIn(old)
      /\ \A k \in LiveIn(old) : \E n \in DOMAIN kept : kept[n] = k
  BY <1>1, KeptInOrder
<1>3. /\ old.order \in Seq(Keys)
      /\ \A n \in DOMAIN old.order : old.place[old.order[n]] # Unknown
  BY <1>1, OrderRead
<1>4. from = [n \in DOMAIN from |-> from[n]]
  BY DEF Ascending
<1> HIDE DEF old, kept, from
<1>5. /\ Len(manifest') = Len(kept) /\ ReadManifest(manifest').order = kept
      /\ LiveIn(ReadManifest(manifest')) = {kept[i] : i \in DOMAIN kept}
  BY <1>1, <1>2, CompactedRead
<1>6. countFile' # Missing /\ ~IsOpen'
  <2>1. Len(kept) \in Int
    BY <1>2
  <2>2. Len(kept) % UIntValues \in 0 .. UIntValues - 1
    BY <2>1, ModOf
  <2> QED
    BY <1>1, <2>2 DEF Missing, IsOpen, ArchiveAssumption
<1>7. CurrentStore = StoreOf(old) /\ CurrentStore' = StoreOf(ReadManifest(manifest'))
  BY <1>1, <1>6, StoreSaid DEF Lost, old
<1>8. CurrentStore.order = old.order /\ CurrentStore'.order = kept
      /\ CurrentStore'.exists = CurrentStore.exists
  BY <1>5, <1>7 DEF StoreOf
<1>9. CurrentStore.live = LiveIn(old) /\ CurrentStore'.live = CurrentStore.live
  <2>1. \A e : StoreOf(e).live = LiveIn(e)
    BY DEF StoreOf, LiveIn
  <2>2. LiveIn(old) = {kept[i] : i \in DOMAIN kept}
    BY <1>2
  <2> QED
    BY <1>5, <1>7, <2>1, <2>2
<1>10. Promise!LivePlaces = LivePlacesOf(old)
  <2>1. \A n \in DOMAIN old.order : old.order[n] \in Keys
    BY <1>3
  <2> QED
    BY <1>3, <1>8, <1>9, <2>1 DEF Promise!LivePlaces, LivePlacesOf, LiveIn
<1>11. from \in [DOMAIN kept -> Promise!LivePlaces]
  BY <1>2, <1>4, <1>10
<1>12. Survivors' = {CurrentStore'}
  BY <1>1, <1>5, <1>6, OnlyCurrent
<1>13. UNCHANGED NextPlace
  BY <1>1, SameStore
<1>14. \E f \in [DOMAIN CurrentStore'.order -> Promise!LivePlaces] :
          /\ \A i \in Promise!LivePlaces : \E n \in DOMAIN f : f[n] = i
          /\ \A m, n \in DOMAIN f : m < n => f[m] < f[n]
          /\ \A n \in DOMAIN f : CurrentStore'.order[n] = CurrentStore.order[f[n]]
  BY <1>2, <1>8, <1>10, <1>11
<1> QED
  BY <1>1, <1>8, <1>9, <1>12, <1>13, <1>14, ModeSaid DEF Promise!Vacuum, Promise!Says

LEMMA NextPromise ==
    TypeInv /\ TypeInv' /\ [Next]_vars => [Promise!Next]_(Promise!vars)
<1> SUFFICES ASSUME TypeInv, TypeInv', [Next]_vars
             PROVE  Promise!Next \/ UNCHANGED Promise!vars
  OBVIOUS
<1>1. CASE UNCHANGED vars
  BY <1>1, SameStore DEF vars, files, table, position, Promise!vars
<1>2. CASE Refuses
  BY <1>2, RefusesPromise
<1>3. CASE \/ SpillManifest \/ SpillArchive \/ Kill \/ Vacuum
           \/ \E k \in Keys : Read(k) \/ Flush(k)
  BY <1>3, SettlePromise, KillPromise, VacuumPromise DEF Promise!Next
<1>4. CASE SyncBegins \/ SyncSaves \/ Sync \/ CloseBegins \/ Close \/ CloseReadOnly
  BY <1>4, SaveBeginsPromise, SyncSavesPromise, SyncPromise, ClosePromise DEF Promise!Next
<1>5. ASSUME NEW k \in Keys, Insert(k) \/ Remove(k) \/ SetCursorAtKey(k)
      PROVE  Promise!Next
  BY <1>5, InsertPromise, RemovePromise, AimedPromise DEF Promise!Next
<1>6. CASE \/ \E start \in BOOLEAN : SequenceEnds(start)
           \/ \E start, returnData \in BOOLEAN : Sequence(start, returnData)
  BY <1>6, SequenceEndsPromise, SequencePromise DEF Promise!Next
<1>7. ASSUME NEW m \in {"ReadWrite", "ReadOnly"}, Open(m) PROVE Promise!Next
  BY <1>7, OpenPromise DEF Promise!Next
<1> QED
  BY <1>1, <1>2, <1>3, <1>4, <1>5, <1>6, <1>7 DEF Next, Client, ClientOf, Refuses

(* The archive store implements RecordStore: in full for clients that aim  *)
(* when they have begun to sequence or at the first key, and for others    *)
(* but for a cursor set before the first sequence(), which may be lost.  A *)
(* kill while sync() or the destructor rewrites the control file may leave *)
(* nothing, which RecordStore says.                                        *)
THEOREM PromiseCorrect == Spec => PromiseKept
<1>1. Init => TypeInv /\ Promise!Init
  BY InitTypeInv, InitPromise
<1>2. TypeInv /\ [Next]_vars => TypeInv'
  BY NextTypeInv
<1>3. TypeInv /\ TypeInv' /\ [Next]_vars => [Promise!Next]_(Promise!vars)
  BY NextPromise
<1> QED
  BY <1>1, <1>2, <1>3, PTL DEF Spec, PromiseKept, Promise!Spec
=============================================================================
