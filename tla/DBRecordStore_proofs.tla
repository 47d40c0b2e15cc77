------------------------ MODULE DBRecordStore_proofs ------------------------
(***************************************************************************)
(* Proofs about DBRecordStore, for any keys, records and failures.         *)
(*                                                                         *)
(* RecordsIntact rests on what the segments of a key are: as long as no    *)
(* operation on the key failed part of the way they are those of the       *)
(* record last written, or none at all, so that removing as many as can be *)
(* read leaves nothing behind for the next insertion to find.              *)
(*                                                                         *)
(* SequencesOnce rests on where the cursor is: every record it has yet to  *)
(* come to is at or behind it, every one it has been to before it, unless  *)
(* an insertion puts it back.  The refinement of the sorted store rests on *)
(* both, and on a cursor that is on no record only beside spoiled keys.    *)
(***************************************************************************)
EXTENDS DBRecordStoreProperties, FiniteSetTheorems, WellFoundedInduction, TLAPS

LEMMA IntervalSize ==
    \A n \in Nat : IsFiniteSet(1 .. n) /\ Cardinality(1 .. n) = n
  BY FS_Interval

LEMMA SmallRemainder ==
    \A a \in Nat, b \in Nat \ {0} : a < b => a % b = a
  OBVIOUS

USE DBAssumption

Empty(k) == \A i \in Places : segment[k][i] = Missing

(* The segments of k are those of d and no others.                         *)
Holds(k, d) ==
    \A i \in Places : segment[k][i] = IF i <= Len(d) THEN d[i] ELSE Missing

(* What is under a key no operation failed on part of the way.             *)
KeyIntact(k) ==
    k \notin spoiled =>
        IF k \in Live THEN written[k] \in Records /\ Holds(k, written[k])
        ELSE Empty(k)

(* A cursor that is set up is on a record, there or deleted; one that is   *)
(* on none has found none but what failed insertions left.                 *)
CursorSet ==
    /\ cursorIsInit => at # Unset
    /\ at = Unset => Live \subseteq spoiled

(* The records are counted as long as no operation failed.                 *)
Counted ==
    failures = 0 => spoiled = {} /\ count = Cardinality(Live)

(* What the sequence in progress has to return is ahead of the cursor, and *)
(* what it has returned is before it.                                      *)
CursorTrue ==
    /\ due \subseteq Live /\ done \subseteq Live
    /\ due \subseteq Ahead /\ done \cap Ahead = {}
    /\ cursor = "Next" => \A k \in done : k < at \/ (k = at /\ atEnd)

-----------------------------------------------------------------------------
(* Every nonempty set of natural numbers has a least element.              *)
LEMMA NatMin ==
    ASSUME NEW S \in SUBSET Nat, S # {}
    PROVE  \E x \in S : \A y \in S : x <= y
<1> DEFINE R == OpToRel(<, Nat)
<1>1. IsWellFoundedOn(R, Nat)
  BY NatLessThanWellFounded
<1>2. \A x, y \in Nat : x < y => <<x, y>> \in R
  BY DEF OpToRel
<1> HIDE DEF R
<1>3. PICK x \in S : \A y \in S : ~(<<y, x>> \in R)
  BY <1>1, WFMin
<1>4. ASSUME NEW y \in S PROVE x <= y
  <2>1. x \in Nat /\ y \in Nat
    OBVIOUS
  <2>2. ~(y < x)
    BY <1>2, <1>3, <2>1
  <2> QED
    BY <2>1, <2>2
<1> QED
  BY <1>4

(* DB_FIRST finds a record if there is one, and no record is before it.    *)
LEMMA FirstFound ==
    ASSUME NEW seg
    PROVE  /\ First(seg) \subseteq InPrimary(seg)
           /\ InPrimary(seg) # {} => First(seg) # {}
<1>1. InPrimary(seg) \in SUBSET Nat
  BY DEF InPrimary
<1> QED
  BY <1>1, NatMin DEF First

(* DB_NEXT finds a record if there is one behind the cursor, and none is   *)
(* between the cursor and the one it finds.                                *)
LEMMA NextFound ==
    ASSUME NEW seg, NEW c \in Int
    PROVE  /\ After(seg, c) \subseteq InPrimary(seg)
           /\ After(seg, c) = {} => \A j \in InPrimary(seg) : j <= c
           /\ \A k \in After(seg, c) :
                 /\ k > c
                 /\ \A j \in InPrimary(seg) : j > c => j >= k
<1> DEFINE S == {j \in InPrimary(seg) : j > c}
<1>1. S \in SUBSET Nat /\ InPrimary(seg) \subseteq Nat
  BY DEF InPrimary
<1>2. S # {} => After(seg, c) # {}
  BY <1>1, NatMin DEF After
<1> QED
  BY <1>1, <1>2 DEF After

LEMMA MovedToTarget ==
    ASSUME NEW T, NEW c
    PROVE  /\ T = {} => MovedTo(T, c) = c
           /\ T # {} => MovedTo(T, c) \in T
  BY DEF MovedTo

-----------------------------------------------------------------------------
LEMMA InitTypes == Init => TypeOK
<1> SUFFICES ASSUME Init PROVE TypeOK
  OBVIOUS
<1>1. /\ segment \in [Keys -> [Places -> Nat]]
      /\ written \in [Keys -> Records \cup {<<>>}]
  BY DEF Init, Missing
<1>2. count \in 0 .. UIntValues - 1 /\ failures \in 0 .. MaxFailures
  BY DEF Init
<1> QED
  BY <1>1, <1>2 DEF Init, TypeOK

LEMMA KeysAreNumbers ==
    /\ \A k \in Keys : k \in Nat
    /\ \A seg : InPrimary(seg) \subseteq Keys
    /\ Live \subseteq Keys
    /\ 1 \in Places
    /\ \A d \in Records : /\ Len(d) \in Places
                          /\ \A i \in 1 .. Len(d) : d[i] \in Nat \ {0}
<1>1. \A k \in Keys : k \in Nat
  OBVIOUS
<1>2. \A seg : InPrimary(seg) \subseteq Keys
  BY DEF InPrimary
<1>3. Live \subseteq Keys
  BY DEF Live, InPrimary
<1>4. 1 \in Places
  BY DEF Places
<1>5. ASSUME NEW d \in Records
      PROVE  Len(d) \in Places /\ \A i \in 1 .. Len(d) : d[i] \in Nat \ {0}
  <2>1. d \in Seq(Nat \ {0}) /\ Len(d) \in 1 .. MaxSegments
    OBVIOUS
  <2> QED
    BY <2>1 DEF Places
<1> QED
  BY <1>1, <1>2, <1>3, <1>4, <1>5

(* Putting and deleting segments keeps the databases databases.            *)
LEMMA SegmentTypes ==
    ASSUME segment \in [Keys -> [Places -> Nat]], NEW k \in Keys
    PROVE  /\ \A d \in Records : \A n \in 0 .. Len(d) :
                 PutSegments(k, d, n) \in [Keys -> [Places -> Nat]]
           /\ \A n \in Int : DeleteSegments(k, n) \in [Keys -> [Places -> Nat]]
<1>1. ASSUME NEW d \in Records, NEW n \in 0 .. Len(d)
      PROVE  PutSegments(k, d, n) \in [Keys -> [Places -> Nat]]
  <2>1. \A i \in Places : i <= n => i \in 1 .. Len(d)
    BY DEF Places
  <2>2. [i \in Places |-> IF i <= n THEN d[i] ELSE segment[k][i]]
          \in [Places -> Nat]
    BY <2>1, KeysAreNumbers
  <2> QED
    BY <2>2 DEF PutSegments
<1>2. ASSUME NEW n \in Int
      PROVE  DeleteSegments(k, n) \in [Keys -> [Places -> Nat]]
  BY DEF DeleteSegments, Missing
<1> QED
  BY <1>1, <1>2

LEMMA Counts ==
    ASSUME TypeOK, NEW k \in Keys
    PROVE  /\ \A d \in Records : FreeFor(k, d) \in 0 .. Len(d)
           /\ Cardinality(Prefix(segment[k])) \in 0 .. MaxSegments
           /\ OneMore \in 0 .. UIntValues - 1 /\ OneFewer \in 0 .. UIntValues - 1
<1>1. ASSUME NEW d \in Records PROVE FreeFor(k, d) \in 0 .. Len(d)
  <2>1. Len(d) \in Nat
    OBVIOUS
  <2>2. IsFiniteSet(1 .. Len(d)) /\ Cardinality(1 .. Len(d)) = Len(d)
    BY <2>1, IntervalSize
  <2>3. RoomFor(k, d) \in SUBSET (1 .. Len(d))
    BY DEF RoomFor
  <2> QED
    BY <2>1, <2>2, <2>3, FS_Subset, FS_CardinalityType DEF FreeFor
<1>2. Cardinality(Prefix(segment[k])) \in 0 .. MaxSegments
  <2>1. IsFiniteSet(Places) /\ Cardinality(Places) = MaxSegments
    BY FS_Interval DEF Places
  <2>2. Prefix(segment[k]) \in SUBSET Places
    BY DEF Prefix
  <2> QED
    BY <2>1, <2>2, FS_Subset, FS_CardinalityType
<1>3. OneMore \in 0 .. UIntValues - 1 /\ OneFewer \in 0 .. UIntValues - 1
  BY DEF TypeOK, OneMore, OneFewer
<1> QED
  BY <1>1, <1>2, <1>3

(* A step of the cursor ends on a key.                                     *)
LEMMA MovesToKey ==
    ASSUME NEW seg, NEW c \in Keys \cup {Unset}
    PROVE  /\ MovedTo(First(seg), c) \in Keys \cup {Unset}
           /\ \A b \in Int : MovedTo(After(seg, b), c) \in Keys \cup {Unset}
  BY MovedToTarget DEF First, After, InPrimary

LEMMA NextTypes == TypeOK /\ [Next]_vars => TypeOK'
<1> SUFFICES ASSUME TypeOK, [Next]_vars PROVE TypeOK'
  OBVIOUS
<1> USE DEF TypeOK
<1>1. at \in Int
  BY KeysAreNumbers DEF Unset
<1>2. ASSUME NEW k \in Keys, NEW d \in Records, Insert(k, d) PROVE TypeOK'
  <2>1. segment' \in [Keys -> [Places -> Nat]]
    <3>1. Len(d) \in 0 .. Len(d)
      OBVIOUS
    <3> QED
      BY <1>2, <3>1, SegmentTypes DEF Insert
  <2>2. /\ at' \in Keys \cup {Unset} /\ atEnd' \in BOOLEAN
        /\ cursorIsInit' \in BOOLEAN
    <3> DEFINE c == IF cursorIsInit THEN at ELSE MovedTo(First(segment'), at)
    <3>1. c \in Keys \cup {Unset}
      BY MovesToKey
    <3>2. c \in Int
      <4> HIDE DEF c
      <4> QED
        BY <3>1, KeysAreNumbers DEF Unset
    <3>3. MovedTo(After(segment', c), c) \in Keys \cup {Unset}
      BY <3>1, <3>2, MovesToKey
    <3>4. /\ at' = IF atEnd THEN MovedTo(After(segment', c), c) ELSE c
          /\ atEnd' = (atEnd /\ After(segment', c) = {})
          /\ cursorIsInit' = TRUE
      BY <1>2 DEF Insert, CursorAfterInsert
    <3> QED
      BY <3>1, <3>3, <3>4
  <2>3. count' \in 0 .. UIntValues - 1
    BY <1>2, Counts DEF Insert
  <2> QED
    BY <1>2, <2>1, <2>2, <2>3 DEF Insert, SetBack
<1>3. ASSUME NEW k \in Keys, NEW d \in Records,
             InsertExisting(k, d) \/ \E n \in 0 .. MaxSegments : InsertFails(k, d, n)
      PROVE  TypeOK'
  <2>1. segment' \in [Keys -> [Places -> Nat]]
    <3>1. FreeFor(k, d) \in 0 .. Len(d) /\ Len(d) \in Nat
      BY Counts
    <3>2. \A n \in 0 .. MaxSegments : n < Len(d) => n \in 0 .. Len(d)
      BY <3>1
    <3> QED
      BY <1>3, <3>1, <3>2, SegmentTypes DEF InsertExisting, InsertFails
  <2>2. /\ written' = written /\ spoiled' \in {spoiled, spoiled \cup {k}}
        /\ failures' \in 0 .. MaxFailures
    BY <1>3 DEF InsertExisting, InsertFails, Fails, Spoils
  <2>3. UNCHANGED <<at, atEnd, cursorIsInit, cursor, count, mode, due, done>>
    BY <1>3 DEF InsertExisting, InsertFails, position, scan
  <2> QED
    BY <2>1, <2>2, <2>3
<1>4. ASSUME NEW k \in Keys, Remove(k) PROVE TypeOK'
  <2>1. segment' \in [Keys -> [Places -> Nat]]
    BY <1>4, Counts, SegmentTypes DEF Remove
  <2>2. /\ at' \in Keys \cup {Unset} /\ atEnd' \in BOOLEAN
        /\ cursorIsInit' \in BOOLEAN
    BY <1>1, <1>4, MovesToKey DEF Remove, CursorAfterRemove
  <2>3. count' \in 0 .. UIntValues - 1
    BY <1>4, Counts DEF Remove
  <2> QED
    BY <1>4, <2>1, <2>2, <2>3 DEF Remove, Leaves
<1>5. ASSUME NEW k \in Keys, NEW n \in 0 .. MaxSegments, RemoveFails(k, n)
      PROVE  TypeOK'
  <2>1. segment' \in [Keys -> [Places -> Nat]]
    BY <1>5, SegmentTypes DEF RemoveFails
  <2>2. /\ written' = written /\ spoiled' \in {spoiled, spoiled \cup {k}}
        /\ failures' \in 0 .. MaxFailures
        /\ due' \in SUBSET Keys /\ done' \in SUBSET Keys
    <3>1. failures' \in 0 .. MaxFailures
      BY <1>5 DEF RemoveFails, Fails
    <3>2. \/ UNCHANGED <<written, spoiled, scan>>
          \/ Spoils(k) /\ Leaves(k)
      BY <1>5 DEF RemoveFails
    <3> QED
      BY <3>1, <3>2 DEF Spoils, Leaves, scan
  <2>3. UNCHANGED <<at, atEnd, cursorIsInit, cursor, count, mode>>
    BY <1>5 DEF RemoveFails, position
  <2> QED
    BY <2>1, <2>2, <2>3
<1>6. ASSUME NEW out, Throws(out) PROVE TypeOK'
  BY <1>6 DEF Throws, position, history, scan
<1>7. ASSUME NEW start \in BOOLEAN, Sequence(start) PROVE TypeOK'
  <2>1. PICK k \in Keys :
          /\ MovesBehind(k)
          /\ due'  = (IF FromFirst(start) THEN Live ELSE due) \ {k}
          /\ done' = (IF FromFirst(start) THEN {} ELSE done) \cup {k}
    BY <1>7 DEF Sequence, Returned, First, After, Live, InPrimary
  <2>2. at' \in Keys \cup {Unset} /\ atEnd' \in BOOLEAN
    <3>1. k \in Int /\ k \in Keys \cup {Unset}
      BY KeysAreNumbers
    <3>2. MovedTo(After(segment, k), k) \in Keys \cup {Unset}
      BY <3>1, MovesToKey
    <3> QED
      BY <2>1, <3>2 DEF MovesBehind
  <2> QED
    BY <1>7, <2>1, <2>2, KeysAreNumbers DEF Sequence, history
<1>8. ASSUME NEW k \in Keys, SetCursorAtKey(k) PROVE TypeOK'
  BY <1>8, KeysAreNumbers DEF SetCursorAtKey, history
<1>9. ASSUME Setup
      PROVE  at' \in Keys \cup {Unset} /\ cursorIsInit' \in BOOLEAN
  BY <1>9, MovesToKey DEF Setup
<1>10. ASSUME NEW m \in {"ReadWrite", "ReadOnly"}, Open(m) PROVE TypeOK'
  BY <1>9, <1>10, KeysAreNumbers DEF Open, history
<1>11. CASE Close
  BY <1>11 DEF Close, position, history, scan
<1>12. CASE Move
  BY <1>9, <1>12 DEF Move, history
<1>13. CASE UNCHANGED vars
  BY <1>13 DEF vars, position, history, scan
<1> QED
  BY <1>2, <1>3, <1>4, <1>5, <1>6, <1>7, <1>8, <1>10, <1>11, <1>12, <1>13
     DEF Next, RemoveAbsent, AimAbsent, SequenceEnds, RefusedReadOnly

(* TypeOK: every variable keeps its type, the count its width.             *)
THEOREM TypeCorrect == Spec => []TypeOK
<1> QED
  BY InitTypes, NextTypes, PTL DEF Spec

-----------------------------------------------------------------------------
(* What putting and deleting segments changes.                             *)
LEMMA PutEffect ==
    ASSUME TypeOK, NEW k \in Keys, NEW d \in Records, NEW n \in 0 .. Len(d),
           segment' = PutSegments(k, d, n)
    PROVE  /\ \A j \in Keys, i \in Places :
                 segment'[j][i] = IF j = k /\ i <= n THEN d[i] ELSE segment[j][i]
           /\ Live' = IF n = 0 THEN Live ELSE Live \cup {k}
           /\ InPrimary(segment') = Live'
<1>1. \A j \in Keys, i \in Places :
        segment'[j][i] = IF j = k /\ i <= n THEN d[i] ELSE segment[j][i]
  BY DEF TypeOK, PutSegments
<1>2. n \in Nat /\ (n # 0 => 1 <= n /\ d[1] # Missing)
  BY KeysAreNumbers DEF Missing
<1>3. \A j \in Keys : segment'[j][1] # Missing <=>
                       segment[j][1] # Missing \/ (j = k /\ n # 0)
  BY <1>1, <1>2, KeysAreNumbers
<1> QED
  BY <1>1, <1>3 DEF Live, InPrimary

LEMMA DeleteEffect ==
    ASSUME TypeOK, NEW k \in Keys, NEW n \in Nat, segment' = DeleteSegments(k, n)
    PROVE  /\ \A j \in Keys, i \in Places :
                 segment'[j][i] = IF j = k /\ i <= n THEN Missing ELSE segment[j][i]
           /\ Live' = IF n = 0 THEN Live ELSE Live \ {k}
           /\ InPrimary(segment') = Live'
<1>1. \A j \in Keys, i \in Places :
        segment'[j][i] = IF j = k /\ i <= n THEN Missing ELSE segment[j][i]
  BY DEF TypeOK, DeleteSegments
<1>2. \A j \in Keys : segment'[j][1] # Missing <=>
                       segment[j][1] # Missing /\ ~(j = k /\ n # 0)
  BY <1>1, KeysAreNumbers
<1> QED
  BY <1>1, <1>2 DEF Live, InPrimary

(* How many segments of d there is room for under k.                       *)
LEMMA RoomUnderKey ==
    ASSUME TypeOK, NEW k \in Keys, NEW d \in Records
    PROVE  /\ FreeFor(k, d) = Len(d) => k \notin Live
           /\ Empty(k) => FreeFor(k, d) = Len(d)
           /\ k \in Live => FreeFor(k, d) = 0
<1>1. /\ Len(d) \in 1 .. MaxSegments /\ 1 \in 1 .. Len(d)
      /\ IsFiniteSet(1 .. Len(d)) /\ Cardinality(1 .. Len(d)) = Len(d)
  <2>1. Len(d) \in Nat
    OBVIOUS
  <2>2. IsFiniteSet(1 .. Len(d)) /\ Cardinality(1 .. Len(d)) = Len(d)
    BY <2>1, IntervalSize
  <2>3. Len(d) \in 1 .. MaxSegments
    OBVIOUS
  <2> QED
    BY <2>1, <2>2, <2>3
<1>2. RoomFor(k, d) \in SUBSET (1 .. Len(d))
  BY DEF RoomFor
<1>3. FreeFor(k, d) = Len(d) => RoomFor(k, d) = 1 .. Len(d)
  BY <1>1, <1>2, FS_Subset DEF FreeFor
<1>4. FreeFor(k, d) = Len(d) => k \notin Live
  BY <1>1, <1>3 DEF RoomFor, Live, InPrimary
<1>5. ASSUME Empty(k) PROVE FreeFor(k, d) = Len(d)
  <2>1. \A i \in 1 .. Len(d) : i \in Places
    BY <1>1 DEF Places
  <2>2. RoomFor(k, d) = 1 .. Len(d)
    BY <1>1, <1>5, <2>1 DEF Empty, RoomFor
  <2> QED
    BY <1>1, <2>2 DEF FreeFor
<1>6. ASSUME k \in Live PROVE FreeFor(k, d) = 0
  <2>1. RoomFor(k, d) = {}
    BY <1>1, <1>6 DEF RoomFor, Live, InPrimary
  <2> QED
    BY <2>1, FS_EmptySet DEF FreeFor
<1> QED
  BY <1>4, <1>5, <1>6

(* How many segments can be read under a key.                              *)
LEMMA ReadableUnderKey ==
    ASSUME TypeOK, NEW k \in Live
    PROVE  /\ Cardinality(Prefix(segment[k])) \in Nat \ {0}
           /\ \A d \in Records : Holds(k, d) =>
                 /\ Prefix(segment[k]) = 1 .. Len(d)
                 /\ Cardinality(Prefix(segment[k])) = Len(d)
<1>1. k \in Keys /\ segment[k][1] # Missing
  BY DEF Live, InPrimary
<1>2. 1 \in Prefix(segment[k])
  BY <1>1, KeysAreNumbers DEF Prefix
<1>3. Prefix(segment[k]) \in SUBSET Places /\ IsFiniteSet(Places)
  BY FS_Interval DEF Prefix, Places
<1>4. Cardinality(Prefix(segment[k])) \in Nat \ {0}
  BY <1>2, <1>3, FS_Subset, FS_CardinalityType, FS_EmptySet
<1>5. ASSUME NEW d \in Records, Holds(k, d)
      PROVE  Prefix(segment[k]) = 1 .. Len(d)
  <2>1. \A i \in Places : segment[k][i] # Missing <=> i <= Len(d)
    <3>1. \A i \in Places : i <= Len(d) => d[i] # Missing
      BY KeysAreNumbers DEF Places, Missing
    <3> QED
      BY <1>5, <3>1 DEF Holds
  <2>2. Len(d) \in 1 .. MaxSegments
    OBVIOUS
  <2>3. ASSUME NEW i \in Places PROVE i \in Prefix(segment[k]) <=> i <= Len(d)
    <3>1. \A j \in 1 .. i : j \in Places
      BY DEF Places
    <3>2. i \in 1 .. i
      BY DEF Places
    <3> QED
      BY <2>1, <2>2, <3>1, <3>2 DEF Prefix, Places
  <2>4. 1 .. Len(d) = {i \in Places : i <= Len(d)}
    BY <2>2 DEF Places
  <2> QED
    BY <1>3, <2>3, <2>4
<1>6. ASSUME NEW d \in Records PROVE Cardinality(1 .. Len(d)) = Len(d)
  <2>1. Len(d) \in Nat
    OBVIOUS
  <2> QED
    BY <2>1, IntervalSize
<1> QED
  BY <1>4, <1>5, <1>6

-----------------------------------------------------------------------------
(* A step leaves every key intact that it does not spoil.                  *)
LEMMA InsertKeepsKeys ==
    ASSUME TypeOK, \A j \in Keys : KeyIntact(j),
           NEW k \in Keys, NEW d \in Records, Insert(k, d)
    PROVE  \A j \in Keys : KeyIntact(j)'
<1> SUFFICES ASSUME NEW j \in Keys, j \notin spoiled PROVE KeyIntact(j)'
  BY DEF Insert, KeyIntact
<1>1. Len(d) \in 1 .. MaxSegments /\ Len(d) \in 0 .. Len(d) /\ Len(d) # 0
  OBVIOUS
<1>2. /\ \A i \in Keys, p \in Places :
            segment'[i][p] = IF i = k /\ p <= Len(d) THEN d[p] ELSE segment[i][p]
      /\ Live' = Live \cup {k}
  BY <1>1, PutEffect DEF Insert
<1>3. k \notin Live /\ spoiled' = spoiled
  BY RoomUnderKey DEF Insert
<1>4. CASE j = k
  <2>1. written'[j] = d
    BY <1>4 DEF TypeOK, Insert
  <2>2. Empty(j)
    BY <1>3, <1>4 DEF KeyIntact
  <2>3. Holds(j, d)'
    BY <1>2, <1>4, <2>2 DEF Holds, Empty
  <2> QED
    BY <1>2, <1>4, <2>1, <2>3 DEF KeyIntact, Holds
<1>5. CASE j # k
  <2>1. written'[j] = written[j] /\ (j \in Live' <=> j \in Live)
    BY <1>2, <1>5 DEF TypeOK, Insert
  <2>2. \A p \in Places : segment'[j][p] = segment[j][p]
    BY <1>2, <1>5
  <2> QED
    BY <1>3, <2>1, <2>2 DEF KeyIntact, Holds, Empty
<1> QED
  BY <1>4, <1>5

LEMMA PartialPutKeepsKeys ==
    ASSUME TypeOK, \A j \in Keys : KeyIntact(j),
           NEW k \in Keys, NEW d \in Records, NEW n \in 0 .. Len(d),
           segment' = PutSegments(k, d, n), written' = written,
           spoiled' = IF n = 0 THEN spoiled ELSE spoiled \cup {k}
    PROVE  \A j \in Keys : KeyIntact(j)'
<1> SUFFICES ASSUME NEW j \in Keys, j \notin spoiled' PROVE KeyIntact(j)'
  BY DEF KeyIntact
<1>1. \A p \in Places : segment'[j][p] = segment[j][p]
  BY PutEffect DEF Places
<1>2. j \in Live' <=> j \in Live
  BY PutEffect
<1>3. j \notin spoiled /\ KeyIntact(j)
  OBVIOUS
<1> QED
  BY <1>1, <1>2, <1>3 DEF KeyIntact, Holds, Empty

LEMMA RemoveKeepsKeys ==
    ASSUME TypeOK, \A j \in Keys : KeyIntact(j), NEW k \in Keys, Remove(k)
    PROVE  \A j \in Keys : KeyIntact(j)'
<1> SUFFICES ASSUME NEW j \in Keys, j \notin spoiled PROVE KeyIntact(j)'
  BY DEF Remove, KeyIntact
<1> DEFINE n == Cardinality(Prefix(segment[k]))
<1>1. k \in Live /\ n \in Nat \ {0}
  BY ReadableUnderKey DEF Remove
<1>2. /\ \A i \in Keys, p \in Places :
            segment'[i][p] = IF i = k /\ p <= n THEN Missing ELSE segment[i][p]
      /\ Live' = Live \ {k}
  BY <1>1, DeleteEffect DEF Remove
<1>3. spoiled' = spoiled /\ KeyIntact(j)
  BY DEF Remove
<1>4. CASE j = k
  <2>1. written[j] \in Records /\ Holds(j, written[j]) /\ n = Len(written[j])
    BY <1>1, <1>3, <1>4, ReadableUnderKey DEF KeyIntact
  <2>2. Empty(j)'
    BY <1>2, <1>4, <2>1 DEF Holds, Empty
  <2> QED
    BY <1>2, <1>4, <2>2 DEF KeyIntact, Empty
<1>5. CASE j # k
  <2>1. written'[j] = written[j] /\ (j \in Live' <=> j \in Live)
    BY <1>2, <1>5 DEF TypeOK, Remove
  <2>2. \A p \in Places : segment'[j][p] = segment[j][p]
    BY <1>2, <1>5
  <2> QED
    BY <1>3, <2>1, <2>2 DEF KeyIntact, Holds, Empty
<1> QED
  BY <1>4, <1>5

LEMMA PartialDeleteKeepsKeys ==
    ASSUME TypeOK, \A j \in Keys : KeyIntact(j),
           NEW k \in Keys, NEW n \in Nat,
           segment' = DeleteSegments(k, n), written' = written,
           spoiled' = IF n = 0 THEN spoiled ELSE spoiled \cup {k}
    PROVE  \A j \in Keys : KeyIntact(j)'
<1> SUFFICES ASSUME NEW j \in Keys, j \notin spoiled' PROVE KeyIntact(j)'
  BY DEF KeyIntact
<1>1. \A p \in Places : segment'[j][p] = segment[j][p]
  BY DeleteEffect DEF Places
<1>2. j \in Live' <=> j \in Live
  BY DeleteEffect
<1>3. j \notin spoiled /\ KeyIntact(j)
  OBVIOUS
<1> QED
  BY <1>1, <1>2, <1>3 DEF KeyIntact, Holds, Empty

LEMMA NextKeys ==
    ASSUME TypeOK, \A j \in Keys : KeyIntact(j), [Next]_vars
    PROVE  \A j \in Keys : KeyIntact(j)'
<1> DEFINE Kept == \A j \in Keys : KeyIntact(j)'
<1>1. ASSUME NEW k \in Keys, NEW d \in Records, InsertExisting(k, d)
      PROVE  Kept
  <2>1. FreeFor(k, d) \in 0 .. Len(d)
    BY Counts
  <2> QED
    BY <1>1, <2>1, PartialPutKeepsKeys DEF InsertExisting, Spoils
<1>2. ASSUME NEW k \in Keys, NEW d \in Records, NEW n \in 0 .. MaxSegments,
             InsertFails(k, d, n)
      PROVE  Kept
  <2>1. n \in 0 .. Len(d)
    BY <1>2 DEF InsertFails
  <2> QED
    BY <1>2, <2>1, PartialPutKeepsKeys DEF InsertFails, Spoils
<1>3. ASSUME NEW k \in Keys, NEW n \in 0 .. MaxSegments, RemoveFails(k, n)
      PROVE  Kept
  BY <1>3, PartialDeleteKeepsKeys DEF RemoveFails, Spoils
<1>4. ASSUME UNCHANGED <<segment, written, spoiled>> PROVE Kept
  BY <1>4 DEF KeyIntact, Live, InPrimary, Holds, Empty
<1>5. ASSUME NEW out, Throws(out) PROVE Kept
  BY <1>4, <1>5 DEF Throws, history
<1>6. ASSUME \E start \in BOOLEAN : Sequence(start) PROVE Kept
  BY <1>4, <1>6 DEF Sequence, history
<1>7. ASSUME \E k \in Keys : SetCursorAtKey(k) PROVE Kept
  BY <1>4, <1>7 DEF SetCursorAtKey, history
<1>8. ASSUME \E m \in {"ReadWrite", "ReadOnly"} : Open(m) PROVE Kept
  BY <1>4, <1>8 DEF Open, history
<1>9. ASSUME Close \/ Move PROVE Kept
  BY <1>4, <1>9 DEF Close, Move, history
<1>10. ASSUME UNCHANGED vars PROVE Kept
  BY <1>4, <1>10 DEF vars, history
<1> HIDE DEF Kept
<1>11. ASSUME \E k \in Keys : Remove(k) \/ \E d \in Records : Insert(k, d)
       PROVE  Kept
  BY <1>11, InsertKeepsKeys, RemoveKeepsKeys DEF Kept
<1>12. Kept
  BY <1>1, <1>2, <1>3, <1>5, <1>6, <1>7, <1>8, <1>9, <1>10, <1>11
     DEF Next, RemoveAbsent, AimAbsent, SequenceEnds, RefusedReadOnly
<1> QED
  BY <1>12 DEF Kept

-----------------------------------------------------------------------------
LEMMA SetupKeeps ==
    ASSUME TypeOK, Setup, UNCHANGED segment
    PROVE  CursorSet'
<1>1. First(segment) \subseteq Live /\ (Live # {} => First(segment) # {})
  BY FirstFound DEF Live
<1>2. Live # {} => at' \in Live
  BY <1>1, MovedToTarget DEF Setup
<1>3. Unset \notin Live
  BY KeysAreNumbers DEF Unset
<1>4. Live' = Live
  BY DEF Live, InPrimary
<1> QED
  BY <1>2, <1>3, <1>4 DEF Setup, CursorSet

LEMMA NextCursorSet ==
    ASSUME TypeOK, CursorSet, [Next]_vars
    PROVE  CursorSet'
<1>1. Unset \notin Keys /\ at \in Int
  BY KeysAreNumbers DEF Unset, TypeOK
<1> DEFINE Partial(k) == /\ UNCHANGED position
                         /\ \/ Live' \subseteq Live /\ spoiled \subseteq spoiled'
                            \/ Live' = Live \cup {k} /\ spoiled' = spoiled \cup {k}
<1>2. ASSUME NEW k \in Keys, NEW d \in Records, Insert(k, d) PROVE CursorSet'
  <2>1. k \in InPrimary(segment')
    <3>1. Len(d) \in 0 .. Len(d) /\ Len(d) # 0
      BY KeysAreNumbers DEF Places
    <3> QED
      BY <1>2, <3>1, PutEffect DEF Insert
  <2> DEFINE c == IF cursorIsInit THEN at ELSE MovedTo(First(segment'), at)
  <2>2. c \in Keys
    <3>1. CASE cursorIsInit
      BY <3>1 DEF CursorSet, TypeOK
    <3>2. CASE ~cursorIsInit
      <4>1. MovedTo(First(segment'), at) \in InPrimary(segment')
        BY <2>1, FirstFound, MovedToTarget
      <4> QED
        BY <3>2, <4>1, KeysAreNumbers
    <3> QED
      BY <3>1, <3>2
  <2>3. at' = IF atEnd THEN MovedTo(After(segment', c), c) ELSE c
    BY <1>2 DEF Insert, CursorAfterInsert
  <2> HIDE DEF c
  <2>4. MovedTo(After(segment', c), c) \in Keys
    BY <2>2, MovedToTarget DEF After, InPrimary
  <2> QED
    BY <1>1, <2>2, <2>3, <2>4 DEF CursorSet
<1>3. ASSUME NEW k \in Keys, Remove(k) PROVE CursorSet'
  <2>1. CASE at = Unset
    <3>1. Live' \subseteq Live /\ spoiled' = spoiled
      BY <1>3, ReadableUnderKey, DeleteEffect DEF Remove
    <3> QED
      BY <1>3, <2>1, <3>1 DEF Remove, CursorSet
  <2>2. CASE at # Unset
    <3>1. at \in Keys
      BY <2>2 DEF TypeOK
    <3>2. MovedTo(After(segment', at), at) \in Keys
      BY <3>1, MovedToTarget DEF After, InPrimary
    <3> QED
      BY <1>1, <1>3, <2>2, <3>1, <3>2 DEF Remove, CursorAfterRemove, CursorSet
  <2> QED
    BY <2>1, <2>2
<1>4. ASSUME NEW start \in BOOLEAN, Sequence(start) PROVE CursorSet'
  <2>1. PICK k \in Keys : MovesBehind(k)
    BY <1>4 DEF Sequence, Returned, First, After, Live, InPrimary
  <2>2. MovedTo(After(segment, k), k) \in Keys
    BY MovedToTarget DEF After, InPrimary
  <2> QED
    BY <1>1, <2>1, <2>2 DEF MovesBehind, CursorSet
<1>5. ASSUME NEW k \in Keys, SetCursorAtKey(k) PROVE CursorSet'
  BY <1>1, <1>5 DEF SetCursorAtKey, CursorSet
<1>6. ASSUME Move \/ \E m \in {"ReadWrite", "ReadOnly"} : Open(m) PROVE CursorSet'
  BY <1>6, SetupKeeps DEF Move, Open
<1>7. ASSUME UNCHANGED <<segment, position, spoiled>> PROVE CursorSet'
  BY <1>7 DEF position, CursorSet, Live, InPrimary
<1>8. ASSUME NEW out, Throws(out) PROVE CursorSet'
  BY <1>7, <1>8 DEF Throws, history
<1>9. ASSUME NEW k \in Keys, Partial(k) PROVE CursorSet'
  BY <1>9 DEF position, CursorSet
<1>10. ASSUME NEW k \in Keys, NEW d \in Records, NEW n \in 0 .. MaxSegments,
              InsertExisting(k, d) \/ InsertFails(k, d, n)
       PROVE  Partial(k)
  <2>1. FreeFor(k, d) \in 0 .. Len(d)
    BY Counts
  <2>2. CASE InsertExisting(k, d)
    <3>1. Live' = IF FreeFor(k, d) = 0 THEN Live ELSE Live \cup {k}
      BY <2>1, <2>2, PutEffect DEF InsertExisting
    <3> QED
      BY <2>2, <3>1 DEF InsertExisting, Spoils
  <2>3. CASE InsertFails(k, d, n)
    <3>1. n \in 0 .. Len(d)
      BY <2>3 DEF InsertFails
    <3>2. Live' = IF n = 0 THEN Live ELSE Live \cup {k}
      BY <2>3, <3>1, PutEffect DEF InsertFails
    <3> QED
      BY <2>3, <3>2 DEF InsertFails, Spoils
  <2> QED
    BY <1>10, <2>2, <2>3
<1>11. ASSUME NEW k \in Keys, NEW n \in 0 .. MaxSegments, RemoveFails(k, n)
       PROVE  Partial(k)
  <2>1. Live' \subseteq Live
    <3>1. n \in Nat
      OBVIOUS
    <3>2. segment' = DeleteSegments(k, n)
      BY <1>11 DEF RemoveFails
    <3> QED
      BY <3>1, <3>2, DeleteEffect
  <2> QED
    BY <1>11, <2>1 DEF RemoveFails, Spoils
<1>12. ASSUME UNCHANGED vars \/ Close PROVE CursorSet'
  BY <1>7, <1>12 DEF vars, Close, history
<1> HIDE DEF Partial
<1>13. 0 \in 0 .. MaxSegments
  OBVIOUS
<1> QED
  BY <1>2, <1>3, <1>4, <1>5, <1>6, <1>8, <1>9, <1>10, <1>11, <1>12, <1>13
     DEF Next, RemoveAbsent, AimAbsent, SequenceEnds, RefusedReadOnly

(* Counting is right as long as nothing fails and the count has room.      *)
LEMMA CountOfLive ==
    ASSUME TypeOK
    PROVE  /\ IsFiniteSet(Live) /\ Cardinality(Live) \in Nat
           /\ Cardinality(Live) <= Cardinality(Keys)
           /\ \A k \in Keys \ Live :
                 /\ Cardinality(Live \cup {k}) = Cardinality(Live) + 1
                 /\ Cardinality(Live) + 1 <= Cardinality(Keys)
           /\ \A k \in Live : Cardinality(Live \ {k}) = Cardinality(Live) - 1
<1>1. Live \in SUBSET Keys /\ IsFiniteSet(Keys)
  BY DEF Live, InPrimary
<1>2. /\ IsFiniteSet(Live) /\ Cardinality(Live) \in Nat
      /\ Cardinality(Live) <= Cardinality(Keys)
  BY <1>1, FS_Subset, FS_CardinalityType
<1>3. ASSUME NEW k \in Keys \ Live
      PROVE  /\ Cardinality(Live \cup {k}) = Cardinality(Live) + 1
             /\ Cardinality(Live) + 1 <= Cardinality(Keys)
  <2>1. Cardinality(Live \cup {k}) = Cardinality(Live) + 1
    BY <1>2, <1>3, FS_AddElement
  <2>2. Live \cup {k} \in SUBSET Keys
    BY <1>1, <1>3
  <2> QED
    BY <1>1, <2>1, <2>2, FS_Subset
<1>4. ASSUME NEW k \in Live
      PROVE  Cardinality(Live \ {k}) = Cardinality(Live) - 1
  BY <1>2, FS_RemoveElement
<1> QED
  BY <1>2, <1>3, <1>4

LEMMA InsertCounts ==
    ASSUME TypeOK, Cardinality(Keys) < UIntValues, Counted,
           NEW k \in Keys, NEW d \in Records, Insert(k, d)
    PROVE  Counted'
<1> SUFFICES ASSUME failures = 0
             PROVE  spoiled' = {} /\ count' = Cardinality(Live)'
  BY DEF Insert, Counted
<1>1. spoiled' = {} /\ count = Cardinality(Live) /\ count' = OneMore
  BY DEF Insert, Counted
<1>2. Len(d) \in 0 .. Len(d) /\ Len(d) # 0
  BY KeysAreNumbers DEF Places
<1>3. k \notin Live /\ Live' = Live \cup {k}
  BY <1>2, PutEffect, RoomUnderKey DEF Insert
<1>4. /\ Cardinality(Live \cup {k}) = count + 1
      /\ count + 1 <= Cardinality(Keys) /\ count \in Nat
      /\ Cardinality(Keys) \in Nat
  BY <1>1, <1>3, CountOfLive, FS_CardinalityType
<1>5. OneMore = count + 1
  <2>1. count + 1 \in Nat /\ UIntValues \in Nat \ {0} /\ count + 1 < UIntValues
    BY <1>4
  <2> QED
    BY <2>1, SmallRemainder DEF OneMore
<1> QED
  BY <1>1, <1>3, <1>4, <1>5

LEMMA RemoveCounts ==
    ASSUME TypeOK, Cardinality(Keys) < UIntValues, Counted, CursorSet,
           NEW k \in Keys, Remove(k)
    PROVE  Counted'
<1> SUFFICES ASSUME failures = 0
             PROVE  spoiled' = {} /\ count' = Cardinality(Live)'
  BY DEF Remove, Counted
<1>1. /\ k \in Live /\ at # Unset /\ spoiled' = {}
      /\ count = Cardinality(Live) /\ count' = OneFewer
  BY DEF Remove, Counted, CursorSet
<1>2. Live' = Live \ {k}
  BY <1>1, ReadableUnderKey, DeleteEffect DEF Remove
<1>3. Cardinality(Live') = count - 1
  BY <1>1, <1>2, CountOfLive
<1>4. count \in Nat /\ count <= Cardinality(Keys) /\ Cardinality(Keys) \in Nat
      /\ count # 0
  BY <1>1, CountOfLive, FS_CardinalityType, FS_EmptySet
<1>5. OneFewer = count - 1
  BY <1>4 DEF OneFewer
<1> QED
  BY <1>1, <1>3, <1>5

LEMMA NextCounts ==
    ASSUME TypeOK, CursorSet, \A k \in Keys : KeyIntact(k),
           Cardinality(Keys) < UIntValues, Counted, [Next]_vars
    PROVE  Counted'
<1>2. ASSUME UNCHANGED <<segment, spoiled, failures, count>> PROVE Counted'
  BY <1>2 DEF Counted, Live, InPrimary
<1>3. ASSUME NEW k \in Keys, NEW d \in Records, InsertExisting(k, d)
      PROVE  Counted'
  <2> SUFFICES ASSUME failures = 0 PROVE Counted'
    BY <1>3 DEF InsertExisting, Counted
  <2>1. spoiled = {} /\ KeyIntact(k)
    BY DEF Counted
  <2>2. Len(d) \in Nat /\ FreeFor(k, d) = 0
    BY <1>3, <2>1, RoomUnderKey DEF InsertExisting, KeyIntact
  <2>3. 0 \in 0 .. Len(d)
    BY <2>2
  <2>4. Live' = Live
    BY <1>3, <2>2, <2>3, PutEffect DEF InsertExisting
  <2> QED
    BY <1>3, <2>2, <2>4 DEF InsertExisting, Counted
<1>4. ASSUME NEW k \in Keys, NEW n \in 0 .. MaxSegments,
             RemoveFails(k, n) \/ \E d \in Records : InsertFails(k, d, n)
      PROVE  Counted'
  <2>1. failures \in Nat /\ failures' = failures + 1
    BY <1>4 DEF RemoveFails, InsertFails, Fails, TypeOK
  <2> QED
    BY <2>1 DEF Counted
<1>5. ASSUME NEW start \in BOOLEAN, Sequence(start) PROVE Counted'
  BY <1>2, <1>5 DEF Sequence, history
<1>6. ASSUME \E k \in Keys : SetCursorAtKey(k) PROVE Counted'
  BY <1>2, <1>6 DEF SetCursorAtKey, history
<1>7. ASSUME Move \/ \E m \in {"ReadWrite", "ReadOnly"} : Open(m) PROVE Counted'
  BY <1>2, <1>7 DEF Move, Open, history
<1>8. ASSUME Close \/ UNCHANGED vars PROVE Counted'
  BY <1>2, <1>8 DEF Close, vars, history
<1>9. ASSUME NEW out, Throws(out) PROVE Counted'
  BY <1>2, <1>9 DEF Throws, history
<1>10. ASSUME \E k \in Keys : Remove(k) \/ \E d \in Records : Insert(k, d)
       PROVE  Counted'
  BY <1>10, InsertCounts, RemoveCounts
<1> QED
  BY <1>3, <1>4, <1>5, <1>6, <1>7, <1>8, <1>9, <1>10
     DEF Next, RemoveAbsent, AimAbsent, SequenceEnds, RefusedReadOnly

LEMMA InitInv == Init => CursorSet /\ Counted /\ \A k \in Keys : KeyIntact(k)
<1> SUFFICES ASSUME Init
             PROVE  CursorSet /\ Counted /\ \A k \in Keys : KeyIntact(k)
  OBVIOUS
<1>1. Live = {} /\ \A k \in Keys : Empty(k)
  BY KeysAreNumbers DEF Init, Live, InPrimary, Empty
<1> QED
  BY <1>1, FS_EmptySet DEF Init, CursorSet, Counted, KeyIntact

(* RecordsIntact: what is read is what was inserted, and the count that of *)
(* the records, if it has room for as many as there are keys.              *)
THEOREM RecordsCorrect == Cardinality(Keys) < UIntValues => (Spec => []RecordsIntact)
<1> SUFFICES ASSUME Cardinality(Keys) < UIntValues PROVE Spec => []RecordsIntact
  OBVIOUS
<1> DEFINE Inv == TypeOK /\ CursorSet /\ Counted /\ \A k \in Keys : KeyIntact(k)
<1>1. Init => Inv
  BY InitTypes, InitInv
<1>2. Inv /\ [Next]_vars => Inv'
  BY NextTypes, NextCursorSet, NextCounts, NextKeys
<1>3. Inv => RecordsIntact
  <2> SUFFICES ASSUME Inv, NEW k \in Live, k \notin spoiled
               PROVE  Read(k) = written[k]
    BY DEF RecordsIntact, Counted
  <2>1. /\ k \in Keys /\ TypeOK
        /\ written[k] \in Records /\ Holds(k, written[k])
    BY KeysAreNumbers DEF KeyIntact
  <2>2. Cardinality(Prefix(segment[k])) = Len(written[k])
    BY <2>1, ReadableUnderKey
  <2>3. \A i \in 1 .. Len(written[k]) : i \in Places
    BY <2>1, KeysAreNumbers DEF Places
  <2>4. Read(k) = [i \in 1 .. Len(written[k]) |-> written[k][i]]
    BY <2>1, <2>2, <2>3 DEF Read, Holds
  <2>5. written[k] = [i \in 1 .. Len(written[k]) |-> written[k][i]]
    <3>1. written[k] \in Seq(Nat \ {0})
      BY <2>1
    <3> QED
      BY <3>1
  <2> QED
    BY <2>4, <2>5
<1> QED
  BY <1>1, <1>2, <1>3, PTL DEF Spec

-----------------------------------------------------------------------------
(* What an insertion does to the cursor.                                   *)
LEMMA InsertMoves ==
    ASSUME TypeOK, CursorSet, NEW k \in Keys, NEW d \in Records, Insert(k, d)
    PROVE  /\ Live' = Live \cup {k} /\ k \notin Live
           /\ UNCHANGED <<cursor, due, mode, spoiled>> /\ cursorIsInit'
           /\ done' = IF cursorIsInit THEN done ELSE {}
           /\ at' \in Keys
           /\ ~atEnd => ~atEnd'
           /\ ~atEnd /\ cursorIsInit => at' = at
           /\ ~atEnd /\ ~cursorIsInit => \A j \in Live' : j >= at'
           /\ atEnd /\ cursorIsInit => \/ at' = at /\ atEnd'
                                       \/ at' > at /\ ~atEnd'
           /\ cursorIsInit => at \in Keys
<1>1. /\ Live' = Live \cup {k} /\ InPrimary(segment') = Live' /\ k \notin Live
      /\ UNCHANGED <<cursor, due, mode, spoiled>> /\ cursorIsInit'
      /\ done' = IF cursorIsInit THEN done ELSE {}
  <2>1. Len(d) \in 0 .. Len(d) /\ Len(d) # 0
    BY KeysAreNumbers DEF Places
  <2> QED
    BY <2>1, PutEffect, RoomUnderKey DEF Insert, CursorAfterInsert, SetBack
<1>2. PICK c \in Keys :
        /\ at' = IF atEnd THEN MovedTo(After(segment', c), c) ELSE c
        /\ atEnd' = (atEnd /\ After(segment', c) = {})
        /\ cursorIsInit => c = at
        /\ ~cursorIsInit => \A j \in Live' : c <= j
  <2>1. CASE cursorIsInit
    BY <2>1 DEF Insert, CursorAfterInsert, CursorSet, TypeOK
  <2>2. CASE ~cursorIsInit
    <3>1. MovedTo(First(segment'), at) \in First(segment')
      BY <1>1, FirstFound, MovedToTarget
    <3>2. /\ MovedTo(First(segment'), at) \in Keys
          /\ \A j \in Live' : MovedTo(First(segment'), at) <= j
      BY <1>1, <3>1, KeysAreNumbers DEF First
    <3> QED
      BY <2>2, <3>2 DEF Insert, CursorAfterInsert
  <2> QED
    BY <2>1, <2>2
<1>3. \A j \in Keys : j \in Int
  BY KeysAreNumbers
<1>4. CASE ~atEnd
  <2>1. at' = c /\ ~atEnd'
    BY <1>2, <1>4
  <2>2. Live' \subseteq Keys
    BY <1>1, KeysAreNumbers
  <2> QED
    BY <1>1, <1>2, <1>3, <1>4, <2>1, <2>2
<1>5. CASE atEnd
  <2>1. CASE After(segment', c) = {}
    <3>1. at' = c /\ atEnd'
      BY <1>2, <1>5, <2>1, MovedToTarget
    <3> QED
      BY <1>1, <1>2, <1>5, <3>1
  <2>2. CASE After(segment', c) # {}
    <3>1. at' \in After(segment', c) /\ ~atEnd'
      BY <1>2, <1>5, <2>2, MovedToTarget
    <3>2. at' \in Keys /\ at' > c
      BY <3>1 DEF After, InPrimary
    <3> QED
      BY <1>1, <1>2, <1>5, <3>1, <3>2
  <2> QED
    BY <2>1, <2>2
<1> QED
  BY <1>4, <1>5

(* The rest of a sequence after an insertion.                              *)
LEMMA InsertAhead ==
    ASSUME TypeOK, CursorSet, CursorTrue, NEW k \in Keys, NEW d \in Records,
           Insert(k, d)
    PROVE  /\ Ahead \subseteq Ahead' /\ Ahead' \subseteq Live'
           /\ cursor = "Start" => Ahead' = Live' /\ done = {} /\ done' = {}
           /\ \A g \in done' :
                 /\ cursor = "Next" => g < at' \/ (g = at' /\ atEnd')
                 /\ \A j \in Ahead' : g < j
<1>1. Live \subseteq Live' /\ Live' \subseteq Keys /\ cursor' = cursor
  BY InsertMoves, KeysAreNumbers
<1>2. \A j \in Keys : j \in Int
  BY KeysAreNumbers
<1>3. CASE cursor = "Start"
  <2>1. Ahead = Live /\ Ahead' = Live'
    BY <1>1, <1>3 DEF Ahead
  <2>2. done = {}
    BY <2>1 DEF CursorTrue
  <2>3. done' = {}
    BY <2>2, InsertMoves
  <2> QED
    BY <1>1, <1>3, <2>1, <2>2, <2>3
<1>4. CASE cursor = "Next"
  <2>1. /\ Ahead = {j \in Live : ~atEnd /\ j >= at}
        /\ Ahead' = {j \in Live' : ~atEnd' /\ j >= at'}
    BY <1>1, <1>4 DEF Ahead
  <2>2. at' \in Keys
    BY InsertMoves
  <2>3. Ahead \subseteq Ahead'
    <3>1. CASE atEnd
      BY <2>1, <3>1
    <3>2. CASE ~atEnd /\ cursorIsInit
      <4>1. ~atEnd' /\ at' = at
        BY <3>2, InsertMoves
      <4> QED
        BY <1>1, <2>1, <4>1
    <3>3. CASE ~atEnd /\ ~cursorIsInit
      <4>1. ~atEnd' /\ \A j \in Live' : j >= at'
        BY <3>3, InsertMoves
      <4> QED
        BY <1>1, <2>1, <4>1
    <3> QED
      BY <3>1, <3>2, <3>3
  <2>4. ASSUME NEW g \in done' PROVE g < at' \/ (g = at' /\ atEnd')
    <3>1. cursorIsInit /\ g \in done /\ at \in Keys
      BY <2>4, InsertMoves
    <3>2. g \in Keys /\ (g < at \/ (g = at /\ atEnd))
      BY <1>4, <3>1, KeysAreNumbers DEF CursorTrue
    <3>3. CASE ~atEnd
      <4>1. at' = at
        BY <3>1, <3>3, InsertMoves
      <4> QED
        BY <3>2, <3>3, <4>1
    <3>4. CASE atEnd
      <4>1. (at' = at /\ atEnd') \/ at' > at
        BY <3>1, <3>4, InsertMoves
      <4>2. g \in Int /\ at \in Int /\ at' \in Int
        BY <1>2, <2>2, <3>1, <3>2
      <4> QED
        BY <3>2, <4>1, <4>2
    <3> QED
      BY <3>3, <3>4
  <2>5. ASSUME NEW g \in done', NEW j \in Ahead' PROVE g < j
    <3>1. g < at' /\ j >= at' /\ j \in Keys
      BY <1>1, <2>1, <2>4, <2>5
    <3>2. g \in Keys
      <4>1. g \in done
        BY <2>5, InsertMoves
      <4> QED
        BY <4>1, KeysAreNumbers DEF CursorTrue
    <3> QED
      BY <1>2, <2>2, <3>1, <3>2
  <2> QED
    BY <1>4, <2>1, <2>3, <2>4, <2>5
<1> QED
  BY <1>3, <1>4 DEF TypeOK

(* A sequence in progress while the store is changed.                      *)
LEMMA InsertSequences ==
    ASSUME TypeOK, CursorSet, CursorTrue, NEW k \in Keys, NEW d \in Records,
           Insert(k, d)
    PROVE  CursorTrue'
<1>1. /\ Live \subseteq Live' /\ due' = due /\ done' \subseteq done
      /\ cursor' = cursor
  BY InsertMoves
<1>2. due' \subseteq Live' /\ done' \subseteq Live' /\ due' \subseteq Ahead'
  BY <1>1, InsertAhead DEF CursorTrue
<1>3. done' \cap Ahead' = {}
  <2>1. \A g \in done' : g \in Int
    BY <1>1, KeysAreNumbers DEF CursorTrue
  <2>2. \A g \in done' : \A j \in Ahead' : g < j
    BY InsertAhead
  <2> QED
    BY <2>1, <2>2
<1>4. cursor' = "Next" => \A j \in done' : j < at' \/ (j = at' /\ atEnd')
  BY <1>1, InsertAhead
<1> QED
  BY <1>2, <1>3, <1>4 DEF CursorTrue

(* Records come or go and the cursor stays.                                *)
LEMMA CursorRests ==
    ASSUME TypeOK, CursorTrue, UNCHANGED position, Live' \in SUBSET Keys,
           \/ Live \subseteq Live' /\ UNCHANGED scan
           \/ \E k \in Keys : Live' = Live \ {k} /\ Leaves(k)
    PROVE  CursorTrue'
<1>1. UNCHANGED <<at, atEnd, cursorIsInit, cursor>>
  BY DEF position
<1>2. CASE Live \subseteq Live' /\ UNCHANGED scan
  <2>1. due' = due /\ done' = done
    BY <1>2 DEF scan
  <2>2. \A j \in done : j \in Keys /\ j \in Int
    BY KeysAreNumbers DEF CursorTrue
  <2>3. at \in Int
    BY KeysAreNumbers DEF TypeOK, Unset
  <2>4. done \cap Ahead' = {}
    <3>1. CASE cursor = "Start"
      BY <3>1 DEF CursorTrue, Ahead
    <3>2. CASE cursor = "Next"
      BY <1>1, <2>2, <2>3, <3>2 DEF CursorTrue, Ahead
    <3> QED
      BY <3>1, <3>2 DEF TypeOK
  <2> QED
    BY <1>1, <1>2, <2>1, <2>4 DEF CursorTrue, Ahead
<1>3. ASSUME NEW k \in Keys, Live' = Live \ {k}, Leaves(k) PROVE CursorTrue'
  <2>1. due' = due \ {k} /\ done' = done \ {k}
    BY <1>3 DEF Leaves
  <2>2. Ahead' = Ahead \ {k}
    BY <1>1, <1>3 DEF Ahead
  <2> QED
    BY <1>1, <1>3, <2>1, <2>2 DEF CursorTrue
<1> QED
  BY <1>2, <1>3

(* What a removal does to the cursor: it rests, or finds nothing to step   *)
(* onto, or steps onto the record behind.                                  *)
LEMMA RemoveMoves ==
    ASSUME TypeOK, NEW k \in Keys, Remove(k)
    PROVE  /\ k \in Live /\ Live' = Live \ {k} /\ cursor' = cursor
           /\ \/ UNCHANGED <<at, atEnd, cursorIsInit>>
              \/ /\ at # Unset /\ at' = at /\ atEnd' /\ ~cursorIsInit'
                 /\ \A j \in Live' : j < at
              \/ /\ at # Unset /\ at' \in Keys /\ at' > at
                 /\ UNCHANGED <<atEnd, cursorIsInit>>
                 /\ \A j \in Live' : j >= at <=> j >= at'
<1>1. /\ k \in Live /\ Live' = Live \ {k} /\ InPrimary(segment') = Live'
      /\ cursor' = cursor
  BY ReadableUnderKey, DeleteEffect DEF Remove
<1>2. Live' \subseteq Keys /\ \A j \in Keys : j \in Int
  BY <1>1, KeysAreNumbers
<1>3. CASE at = Unset
  BY <1>1, <1>3 DEF Remove
<1>4. CASE at # Unset
  <2>1. at \in Keys /\ at \in Int
    BY <1>2, <1>4 DEF TypeOK
  <2>2. IF at \in Live' THEN UNCHANGED <<at, atEnd, cursorIsInit>>
        ELSE /\ at' = MovedTo(After(segment', at), at)
             /\ atEnd' = (atEnd \/ After(segment', at) = {})
             /\ cursorIsInit' = (cursorIsInit /\ After(segment', at) # {})
    BY <1>1, <1>4 DEF Remove, CursorAfterRemove
  <2>3. CASE at \in Live'
    BY <1>1, <2>2, <2>3
  <2>4. CASE at \notin Live' /\ After(segment', at) = {}
    <3>1. at' = at /\ atEnd' /\ ~cursorIsInit'
      BY <2>2, <2>4, MovedToTarget
    <3>2. \A j \in Live' : j <= at /\ j # at /\ j \in Int
      BY <1>1, <1>2, <2>1, <2>4, NextFound
    <3>3. \A j \in Live' : j < at
      BY <2>1, <3>2
    <3> QED
      BY <1>1, <1>4, <3>1, <3>3
  <2>5. CASE at \notin Live' /\ After(segment', at) # {}
    <3>1. at' \in After(segment', at)
      BY <2>2, <2>5, MovedToTarget
    <3>2. /\ at' \in Live' /\ at' > at
          /\ \A j \in Live' : j > at => j >= at'
      BY <1>1, <2>1, <3>1, NextFound
    <3>3. atEnd' = atEnd
      BY <2>2, <2>5 DEF TypeOK
    <3>4. cursorIsInit' = cursorIsInit
      BY <2>2, <2>5 DEF TypeOK
    <3>5. at' \in Keys
      BY <1>2, <3>2
    <3>6. \A j \in Live' : j >= at <=> j >= at'
      BY <1>2, <2>1, <2>5, <3>2, <3>5
    <3> QED
      BY <1>1, <1>4, <3>2, <3>3, <3>4, <3>5, <3>6
  <2> QED
    BY <2>3, <2>4, <2>5
<1> QED
  BY <1>3, <1>4

(* The rest of a sequence is what it was without the record removed.       *)
LEMMA RemoveAhead ==
    ASSUME TypeOK, NEW k \in Keys, Remove(k)
    PROVE  /\ k \in Live
           /\ Live' = Live \ {k} /\ Ahead' = Ahead \ {k}
<1>1. k \in Live /\ Live' = Live \ {k} /\ cursor' = cursor
  BY RemoveMoves
<1>2. CASE UNCHANGED <<at, atEnd, cursorIsInit>>
  BY <1>1, <1>2 DEF Ahead
<1>3. CASE /\ at # Unset /\ at' = at /\ atEnd'
           /\ \A j \in Live' : j < at
  <2>1. at \in Int /\ \A j \in Live' : j \in Int
    BY <1>1, KeysAreNumbers DEF TypeOK, Unset
  <2>2. \A j \in Live' : ~(j >= at)
    BY <1>3, <2>1
  <2> QED
    BY <1>1, <1>3, <2>2 DEF Ahead
<1>4. CASE /\ UNCHANGED <<atEnd, cursorIsInit>>
           /\ \A j \in Live' : j >= at <=> j >= at'
  BY <1>1, <1>4 DEF Ahead
<1> QED
  BY <1>2, <1>3, <1>4, RemoveMoves

LEMMA RemoveSequences ==
    ASSUME TypeOK, CursorTrue, NEW k \in Keys, Remove(k)
    PROVE  CursorTrue'
<1>1. /\ k \in Live /\ Live' = Live \ {k} /\ Ahead' = Ahead \ {k}
      /\ cursor' = cursor /\ due' = due \ {k} /\ done' = done \ {k}
  BY RemoveAhead DEF Remove, Leaves
<1>2. \A j \in done' : j \in Keys /\ j \in Int /\ j \in Live'
  BY <1>1, KeysAreNumbers DEF CursorTrue
<1>3. ASSUME cursor = "Next", NEW j \in done'
      PROVE  j < at' \/ (j = at' /\ atEnd')
  <2>1. j < at \/ (j = at /\ atEnd)
    BY <1>1, <1>3 DEF CursorTrue
  <2>2. CASE UNCHANGED <<at, atEnd, cursorIsInit>>
    BY <2>1, <2>2
  <2>3. CASE at' = at /\ \A i \in Live' : i < at
    BY <1>2, <1>3, <2>3
  <2>4. CASE at # Unset /\ at' \in Keys /\ at' > at
    <3>1. at \in Int /\ at' \in Int
      BY <2>4, KeysAreNumbers DEF TypeOK
    <3> QED
      BY <1>2, <1>3, <2>1, <2>4, <3>1
  <2> QED
    BY <2>2, <2>3, <2>4, RemoveMoves
<1> QED
  BY <1>1, <1>3 DEF CursorTrue

LEMMA SequenceSequences ==
    ASSUME TypeOK, CursorTrue, NEW start \in BOOLEAN, Sequence(start)
    PROVE  CursorTrue'
<1>1. PICK k \in Returned(start) :
        /\ MovesBehind(k)
        /\ due'  = (IF FromFirst(start) THEN Live ELSE due) \ {k}
        /\ done' = (IF FromFirst(start) THEN {} ELSE done) \cup {k}
  BY DEF Sequence
<1>2. Live' = Live /\ cursor' = "Next" /\ cursorIsInit' = cursorIsInit
  BY DEF Sequence, Live
<1>3. /\ Live \subseteq Keys /\ \A j \in Keys : j \in Int
      /\ at \in Int /\ InPrimary(segment) = Live
  BY KeysAreNumbers DEF TypeOK, Unset, Live
<1>4. k \in Live
  BY <1>1, <1>3 DEF Returned, First, After
<1>5. \A j \in Live : j \in Ahead' <=> j > k
  <2>1. CASE After(segment, k) = {}
    <3>1. atEnd'
      BY <1>1, <2>1 DEF MovesBehind
    <3>2. k \in Int
      BY <1>3, <1>4
    <3> QED
      BY <1>2, <1>3, <2>1, <3>1, <3>2, NextFound DEF Ahead
  <2>2. CASE After(segment, k) # {}
    <3>1. at' \in After(segment, k) /\ ~atEnd'
      BY <1>1, <2>2, MovedToTarget DEF MovesBehind
    <3>2. /\ at' \in Live /\ at' > k
          /\ \A j \in Live : j > k => j >= at'
      BY <1>3, <1>4, <3>1, NextFound
    <3> QED
      BY <1>2, <1>3, <1>4, <3>1, <3>2 DEF Ahead
  <2> QED
    BY <2>1, <2>2
<1>6. \A j \in Keys : j <= k => j < at' \/ (j = at' /\ atEnd')
  <2>1. CASE After(segment, k) = {}
    <3>1. at' = k /\ atEnd'
      BY <1>1, <2>1, MovedToTarget DEF MovesBehind
    <3> QED
      BY <1>3, <1>4, <3>1
  <2>2. CASE After(segment, k) # {}
    <3>1. at' \in After(segment, k)
      BY <1>1, <2>2, MovedToTarget DEF MovesBehind
    <3>2. at' \in Live /\ at' > k
      BY <1>3, <1>4, <3>1, NextFound
    <3> QED
      BY <1>3, <1>4, <3>2
  <2> QED
    BY <2>1, <2>2
<1>7. Ahead' \subseteq Live
  BY <1>2 DEF Ahead
<1>8. /\ due' \subseteq Live /\ done' \subseteq Live
      /\ \A j \in due' : j > k
      /\ \A j \in done' : j <= k
  <2>1. CASE FromFirst(start)
    <3>1. \A j \in Live : k <= j
      BY <1>1, <1>3, <2>1 DEF Returned, First
    <3> QED
      BY <1>1, <1>3, <1>4, <2>1, <3>1
  <2>2. CASE ~FromFirst(start)
    <3>1. cursor = "Next" /\ ~atEnd
      BY <1>1, <2>2 DEF Returned, FromFirst, TypeOK
    <3>2. \A j \in due : j \in Live /\ j >= at
      BY <3>1 DEF CursorTrue, Ahead
    <3>3. \A j \in done : j \in Live /\ j < at
      BY <3>1 DEF CursorTrue
    <3>4. \A j \in Live : j >= at => j >= k
      <4>1. CASE at \in Live
        BY <1>1, <2>2, <3>1, <4>1 DEF Returned
      <4>2. CASE at \notin Live
        BY <1>1, <1>3, <2>2, <3>1, <4>2, NextFound DEF Returned
      <4> QED
        BY <4>1, <4>2
    <3>5. at <= k
      BY <1>1, <1>3, <1>4, <2>2, <3>1, NextFound DEF Returned
    <3>6. due' = due \ {k} /\ done' = done \cup {k}
      BY <1>1, <2>2
    <3>7. \A j \in due' : j \in Live /\ j >= k /\ j # k
      BY <3>2, <3>4, <3>6
    <3>8. \A j \in done' : j \in Live /\ j <= k
      <4>1. \A j \in Live : j \in Int
        BY <1>3
      <4>2. \A j \in done : j \in Int /\ j < at
        BY <3>3, <4>1
      <4>3. k \in Int /\ \A j \in done : j <= k
        BY <1>3, <1>4, <3>5, <4>1, <4>2
      <4> QED
        BY <1>4, <3>3, <3>6, <4>3
    <3>9. \A j \in due' : j > k
      <4>1. \A j \in Live : j \in Int
        BY <1>3
      <4> QED
        BY <1>4, <3>7, <4>1
    <3> QED
      BY <3>7, <3>8, <3>9
  <2> QED
    BY <2>1, <2>2
<1>9. due' \subseteq Ahead'
  BY <1>5, <1>8
<1>10. done' \cap Ahead' = {}
  BY <1>3, <1>4, <1>5, <1>7, <1>8
<1>11. \A j \in done' : j < at' \/ (j = at' /\ atEnd')
  BY <1>3, <1>6, <1>8
<1> QED
  BY <1>2, <1>8, <1>9, <1>10, <1>11 DEF CursorTrue

LEMMA AimSequences ==
    ASSUME TypeOK, CursorTrue, NEW k \in Keys, SetCursorAtKey(k)
    PROVE  CursorTrue'
<1>1. /\ Live' = Live /\ at' = k /\ ~atEnd' /\ cursor' = "Next"
      /\ due' = {j \in Live : j >= k} /\ done' = {j \in Live : j < k}
      /\ cursorIsInit' = cursorIsInit
  BY DEF SetCursorAtKey, Live
<1>2. k \in Int /\ \A j \in Live : j \in Int
  BY KeysAreNumbers
<1>3. Ahead' = {j \in Live : j >= k}
  BY <1>1 DEF Ahead
<1>4. done' \cap Ahead' = {}
  BY <1>1, <1>2, <1>3
<1> QED
  BY <1>1, <1>3, <1>4 DEF CursorTrue

LEMMA NextSequences ==
    ASSUME TypeOK, CursorSet, CursorTrue, [Next]_vars
    PROVE  CursorTrue'
<1>1. ASSUME NEW k \in Keys, NEW d \in Records, NEW n \in 0 .. Len(d),
             segment' = PutSegments(k, d, n), UNCHANGED <<position, scan>>
      PROVE  CursorTrue'
  <2>1. Live' = IF n = 0 THEN Live ELSE Live \cup {k}
    BY <1>1, PutEffect
  <2> QED
    BY <1>1, <2>1, CursorRests, KeysAreNumbers
<1>2. ASSUME NEW k \in Keys, NEW d \in Records, InsertExisting(k, d)
      PROVE  CursorTrue'
  <2>1. FreeFor(k, d) \in 0 .. Len(d)
    BY Counts
  <2> QED
    BY <1>1, <1>2, <2>1 DEF InsertExisting
<1>3. ASSUME NEW k \in Keys, NEW d \in Records, NEW n \in 0 .. MaxSegments,
             InsertFails(k, d, n)
      PROVE  CursorTrue'
  <2>1. n \in 0 .. Len(d)
    BY <1>3 DEF InsertFails
  <2> QED
    BY <1>1, <1>3, <2>1 DEF InsertFails
<1>4. ASSUME NEW k \in Keys, NEW n \in 0 .. MaxSegments, RemoveFails(k, n)
      PROVE  CursorTrue'
  <2>1. Live' = IF n = 0 THEN Live ELSE Live \ {k}
    BY <1>4, DeleteEffect DEF RemoveFails
  <2>2. UNCHANGED position
    BY <1>4 DEF RemoveFails
  <2>3. IF n = 0 THEN UNCHANGED scan ELSE Leaves(k)
    BY <1>4 DEF RemoveFails
  <2>4. Live' \in SUBSET Keys
    BY <2>1, KeysAreNumbers
  <2>5. CASE n = 0
    BY <2>1, <2>2, <2>3, <2>4, <2>5, CursorRests
  <2>6. CASE n # 0
    BY <2>1, <2>2, <2>3, <2>4, <2>6, CursorRests
  <2> QED
    BY <2>5, <2>6
<1>5. ASSUME UNCHANGED <<segment, position, scan>> PROVE CursorTrue'
  BY <1>5 DEF position, scan, CursorTrue, Ahead, Live, InPrimary
<1>6. ASSUME NEW out, Throws(out) PROVE CursorTrue'
  BY <1>5, <1>6 DEF Throws
<1>7. ASSUME NEW m \in {"ReadWrite", "ReadOnly"}, Open(m) PROVE CursorTrue'
  <2>1. /\ Live' = Live /\ cursor' = "Start" /\ due' = Live /\ done' = {}
    BY <1>7 DEF Open, Live
  <2> QED
    BY <2>1 DEF CursorTrue, Ahead
<1>8. ASSUME Move PROVE CursorTrue'
  <2>1. /\ Live' = Live /\ due' = {} /\ done' = {}
    BY <1>8 DEF Move, Live
  <2> QED
    BY <2>1 DEF CursorTrue
<1>9. ASSUME Close \/ UNCHANGED vars PROVE CursorTrue'
  BY <1>5, <1>9 DEF Close, vars
<1>10. ASSUME NEW k \in Keys,
              Remove(k) \/ SetCursorAtKey(k) \/ \E d \in Records : Insert(k, d)
       PROVE  CursorTrue'
  BY <1>10, InsertSequences, RemoveSequences, AimSequences
<1> QED
  BY <1>2, <1>3, <1>4, <1>6, <1>7, <1>8, <1>9, <1>10, SequenceSequences
     DEF Next, RemoveAbsent, AimAbsent, SequenceEnds, RefusedReadOnly

(* SequencesOnce: a sequence returns every record that stays, and none     *)
(* twice but where an insertion sets it back, whatever is inserted,        *)
(* removed and failed meanwhile.                                           *)
THEOREM SequencesCorrect == Spec => []SequencesOnce
<1> DEFINE Inv == TypeOK /\ CursorSet /\ CursorTrue
<1>1. Init => Inv
  <2> SUFFICES ASSUME Init PROVE Inv
    OBVIOUS
  <2>1. Live = {}
    BY KeysAreNumbers DEF Init, Live, InPrimary
  <2> QED
    BY <2>1, InitTypes, InitInv DEF Init, CursorTrue
<1>2. Inv /\ [Next]_vars => Inv'
  BY NextTypes, NextCursorSet, NextSequences
<1>3. Inv => SequencesOnce
  BY DEF CursorTrue, SequencesOnce
<1> QED
  BY <1>1, <1>2, <1>3, PTL DEF Spec

-----------------------------------------------------------------------------
(* The refinement of SortedRecordStore.                                    *)

(* A record more: what the sequence had still to return it still has, and  *)
(* what it may come to is behind what it returned.                         *)
LEMMA JoinsKept ==
    ASSUME TypeOK, NEW k \in Keys, Live' = Live \cup {k},
           UNCHANGED <<cursor, mode>>,
           Ahead \subseteq Ahead',
           \A j \in Ahead' : \A g \in done' : g < j
    PROVE  Promise!Joins(k)
<1>1. Ahead' \subseteq Live'
  BY DEF Ahead
<1>2. CASE cursor = "Start"
  <2>1. Ahead' = Live' /\ Ahead = Live
    BY <1>2 DEF Ahead
  <2> QED
    BY <1>1, <1>2, <2>1 DEF Promise!Joins
<1>3. CASE cursor = "Next"
  BY <1>1, <1>3 DEF Promise!Joins
<1> QED
  BY <1>2, <1>3 DEF TypeOK

LEMMA RestingJoins ==
    ASSUME TypeOK, CursorTrue, NEW k \in Keys, Live' = Live \cup {k},
           UNCHANGED <<position, scan, mode>>
    PROVE  Promise!Joins(k)
<1>1. UNCHANGED <<at, atEnd, cursorIsInit, cursor, due, done, mode>>
  BY DEF position, scan
<1>2. Ahead \subseteq Ahead'
  BY <1>1 DEF Ahead
<1>3. at \in Int /\ \A j \in Live' : j \in Int
  BY KeysAreNumbers DEF TypeOK, Unset
<1>4. \A g \in done : g \in Int
  BY KeysAreNumbers DEF CursorTrue
<1>5. ASSUME NEW j \in Ahead', NEW g \in done PROVE g < j
  <2>0. cursor = "Next"
    <3>1. cursor # "Start"
      BY <1>5 DEF CursorTrue, Ahead
    <3> QED
      BY <3>1 DEF TypeOK
  <2>1. ~atEnd /\ j >= at /\ j \in Int
    BY <1>1, <1>3, <1>5, <2>0 DEF Ahead
  <2>2. g < at /\ g \in Int
    BY <1>4, <1>5, <2>0, <2>1 DEF CursorTrue
  <2> QED
    BY <1>3, <2>1, <2>2
<1> QED
  BY <1>1, <1>2, <1>5, JoinsKept

LEMMA InsertKept ==
    ASSUME TypeOK, CursorSet, CursorTrue, NEW k \in Keys, NEW d \in Records,
           Insert(k, d)
    PROVE  Promise!Insert(k)
<1>1. /\ Live' = Live \cup {k} /\ k \notin Live
      /\ UNCHANGED <<cursor, mode, spoiled>>
      /\ cursorIsInit' /\ done' = IF cursorIsInit THEN done ELSE {}
  BY InsertMoves
<1>2. mode = "ReadWrite" /\ Promise!SaysKey("inserted", k)
  BY DEF Insert, Writable, SaysKey, Promise!SaysKey
<1>3. Promise!Joins(k)
  BY <1>1, InsertAhead, JoinsKept
<1>4. Promise!SetsBack
  BY <1>1 DEF Promise!SetsBack
<1> QED
  BY <1>1, <1>2, <1>3, <1>4 DEF Promise!Insert

(* Nothing of d can be put only where the first segment's name is taken,   *)
(* and less than all of it only where a failure left a name.               *)
LEMMA TakenUnderKey ==
    ASSUME TypeOK, NEW k \in Keys, KeyIntact(k), NEW d \in Records,
           FreeFor(k, d) < Len(d), k \notin Live
    PROVE  FreeFor(k, d) \in 1 .. Len(d) /\ k \in spoiled
<1>1. ~Empty(k)
  BY RoomUnderKey
<1>2. 1 \in RoomFor(k, d)
  <2>1. segment[k][1] = Missing
    BY DEF Live, InPrimary
  <2>2. 1 \in 1 .. Len(d) /\ \A j \in 1 .. 1 : j = 1
    BY KeysAreNumbers DEF Places
  <2> QED
    BY <2>1, <2>2 DEF RoomFor
<1>3. IsFiniteSet(RoomFor(k, d))
  <2>1. Len(d) \in Nat
    BY KeysAreNumbers DEF Places
  <2>2. IsFiniteSet(1 .. Len(d)) /\ RoomFor(k, d) \subseteq 1 .. Len(d)
    BY <2>1, FS_Interval DEF RoomFor
  <2> QED
    BY <2>2, FS_Subset
<1>4. FreeFor(k, d) # 0
  BY <1>2, <1>3, FS_EmptySet DEF FreeFor
<1> QED
  BY <1>1, <1>4, Counts DEF KeyIntact

LEMMA InsertExistingKept ==
    ASSUME TypeOK, CursorTrue, NEW k \in Keys, KeyIntact(k), NEW d \in Records,
           InsertExisting(k, d)
    PROVE  Promise!Insert(k)
<1>1. /\ mode = "ReadWrite" /\ Promise!Says("exists")
      /\ UNCHANGED <<position, mode, scan>>
      /\ FreeFor(k, d) < Len(d) /\ segment' = PutSegments(k, d, FreeFor(k, d))
      /\ FreeFor(k, d) \in 0 .. Len(d)
  BY Counts DEF InsertExisting, Writable, Says, Promise!Says
<1>2. Live' = IF FreeFor(k, d) = 0 THEN Live ELSE Live \cup {k}
  BY <1>1, PutEffect
<1>3. CASE k \in Live
  <2>1. FreeFor(k, d) = 0 /\ UNCHANGED spoiled
    BY <1>3, RoomUnderKey DEF InsertExisting
  <2> QED
    BY <1>1, <1>2, <1>3, <2>1
       DEF Promise!Insert, Promise!Refused, Ahead, position, scan
<1>4. CASE k \notin Live
  <2>1. FreeFor(k, d) # 0 /\ k \in spoiled
    BY <1>1, <1>4, TakenUnderKey
  <2>2. spoiled' = spoiled
    BY <2>1 DEF InsertExisting, Spoils
  <2>3. Promise!Joins(k)
    BY <1>1, <1>2, <2>1, RestingJoins
  <2> QED
    BY <1>1, <1>4, <2>1, <2>2, <2>3 DEF Promise!Insert, position, scan
<1> QED
  BY <1>3, <1>4

LEMMA InsertFailsKept ==
    ASSUME TypeOK, CursorTrue, NEW k \in Keys, NEW d \in Records,
           NEW n \in 0 .. MaxSegments, InsertFails(k, d, n)
    PROVE  Promise!Insert(k)
<1>1. /\ mode = "ReadWrite" /\ Promise!Says("failed")
      /\ UNCHANGED <<position, mode, scan>>
      /\ n \in 0 .. Len(d) /\ n <= FreeFor(k, d)
      /\ Live' = IF n = 0 THEN Live ELSE Live \cup {k}
  <2>1. n \in 0 .. Len(d)
    BY DEF InsertFails
  <2> QED
    BY <2>1, PutEffect DEF InsertFails, Fails, Writable, Says, Promise!Says
<1>2. CASE n = 0
  BY <1>1, <1>2
     DEF InsertFails, Promise!Insert, Promise!Refused, Ahead, position, scan
<1>3. CASE n # 0
  <2>1. k \notin Live
    BY <1>1, <1>3, RoomUnderKey
  <2>2. spoiled' = spoiled \cup {k}
    BY <1>3 DEF InsertFails, Spoils
  <2>3. Promise!Joins(k)
    BY <1>1, <1>3, RestingJoins
  <2> QED
    BY <1>1, <2>1, <2>2, <2>3 DEF Promise!Insert, position, scan
<1> QED
  BY <1>2, <1>3

LEMMA RemoveKept ==
    ASSUME TypeOK, CursorSet, NEW k \in Keys, Remove(k)
    PROVE  Promise!Remove(k)
<1>1. /\ k \in Live /\ Live' = Live \ {k} /\ Ahead' = Ahead \ {k}
  BY RemoveAhead
<1>2. /\ mode = "ReadWrite" /\ UNCHANGED <<cursor, mode, spoiled>>
      /\ done' = done \ {k}
  BY DEF Remove, Writable, Leaves
<1>3. (~cursorIsInit') \in
         {~cursorIsInit, ~cursorIsInit \/ cursor # "Next" \/ Ahead' = {}}
  <2>1. CASE cursorIsInit' = cursorIsInit
    BY <2>1
  <2>2. CASE atEnd' /\ ~cursorIsInit'
    <3>1. cursor = "Next" => Ahead' = {}
      BY <1>2, <2>2 DEF Ahead
    <3> QED
      BY <2>2, <3>1
  <2> QED
    BY <2>1, <2>2, RemoveMoves
<1>4. Promise!Leaves(k)
  BY <1>1, <1>2, <1>3 DEF Promise!Leaves
<1>5. CASE at = Unset
  <2>1. spoiled' = spoiled \cup {k} /\ Promise!Says("failed")
    BY <1>1, <1>2, <1>5 DEF CursorSet, Remove, Says, Promise!Says
  <2> QED
    BY <1>2, <1>4, <2>1 DEF Promise!Remove
<1>6. CASE at # Unset
  <2>1. Promise!Says("removed")
    BY <1>6 DEF Remove, Says, Promise!Says
  <2> QED
    BY <1>2, <1>4, <2>1 DEF Promise!Remove
<1> QED
  BY <1>5, <1>6

LEMMA RemoveFailsKept ==
    ASSUME TypeOK, NEW k \in Keys, NEW n \in 0 .. MaxSegments, RemoveFails(k, n)
    PROVE  Promise!Remove(k)
<1>1. /\ mode = "ReadWrite" /\ k \in Live /\ Promise!Says("failed")
      /\ UNCHANGED <<position, mode>>
      /\ Live' = IF n = 0 THEN Live ELSE Live \ {k}
  <2>1. n \in Nat
    OBVIOUS
  <2>2. segment' = DeleteSegments(k, n)
    BY DEF RemoveFails
  <2>3. Live' = IF n = 0 THEN Live ELSE Live \ {k}
    BY <2>1, <2>2, DeleteEffect
  <2> QED
    BY <2>3 DEF RemoveFails, Fails, Writable, Says, Promise!Says
<1>2. UNCHANGED <<at, atEnd, cursorIsInit, cursor>>
  BY <1>1 DEF position
<1>3. CASE n = 0
  BY <1>1, <1>2, <1>3
     DEF RemoveFails, Promise!Remove, Promise!Refused, Ahead, scan
<1>4. CASE n # 0
  <2>1. spoiled' = spoiled \cup {k} /\ done' = done \ {k}
    BY <1>4 DEF RemoveFails, Spoils, Leaves
  <2>2. Ahead' = Ahead \ {k}
    BY <1>1, <1>2, <1>4 DEF Ahead
  <2> QED
    BY <1>1, <1>2, <1>4, <2>1, <2>2 DEF Promise!Remove, Promise!Leaves
<1> QED
  BY <1>3, <1>4

(* What sequence() returns is the first record it has to return, and none  *)
(* only if there is none.                                                  *)
LEMMA ReturnedIsFirst ==
    ASSUME TypeOK, CursorTrue, NEW start \in BOOLEAN,
           NEW ahead, ahead = IF start THEN Live ELSE Ahead
    PROVE  /\ Returned(start) = {} => ahead = {}
           /\ \A k \in Returned(start) : k \in ahead /\ \A j \in ahead : k <= j
<1>1. /\ Live \subseteq Keys /\ \A j \in Live : j \in Int
      /\ at \in Int /\ InPrimary(segment) = Live
  BY KeysAreNumbers DEF TypeOK, Unset, Live
<1>2. CASE FromFirst(start)
  <2>1. ahead = Live /\ Returned(start) = First(segment)
    BY <1>2 DEF FromFirst, Ahead, Returned
  <2> QED
    BY <1>1, <2>1, FirstFound DEF First
<1>3. CASE ~FromFirst(start)
  <2>1. ahead = {j \in Live : ~atEnd /\ j >= at}
    BY <1>3 DEF FromFirst, Ahead
  <2>2. CASE atEnd
    BY <1>3, <2>1, <2>2 DEF Returned
  <2>3. CASE ~atEnd /\ at \in Live
    <3>1. Returned(start) = {at}
      BY <1>3, <2>3 DEF Returned
    <3> QED
      BY <1>1, <2>1, <2>3, <3>1
  <2>4. CASE ~atEnd /\ at \notin Live
    <3>1. Returned(start) = After(segment, at)
      BY <1>3, <2>4 DEF Returned
    <3>2. \A j \in Live : j >= at <=> j > at
      BY <1>1, <2>4
    <3>3. ahead = {j \in Live : j > at}
      BY <2>1, <2>4, <3>2
    <3>4. After(segment, at) = {} => \A j \in Live : ~(j > at)
      BY <1>1, NextFound
    <3>5. \A k \in After(segment, at) :
            k \in Live /\ k > at /\ \A j \in Live : j > at => j >= k
      BY <1>1, NextFound
    <3> QED
      BY <1>1, <3>1, <3>3, <3>4, <3>5
  <2> QED
    BY <2>2, <2>3, <2>4
<1> QED
  BY <1>2, <1>3

LEMMA SequenceKept ==
    ASSUME TypeOK, CursorTrue, NEW start \in BOOLEAN,
           Sequence(start) \/ SequenceEnds(start)
    PROVE  Promise!Sequence(start)
<1> DEFINE ahead == IF start THEN Live ELSE Ahead
<1>1. CASE SequenceEnds(start)
  <2>1. ahead = {} /\ mode # "closed"
    BY <1>1, ReturnedIsFirst DEF SequenceEnds, IsOpen
  <2>2. Promise!Refused("ended")
    BY <1>1 DEF SequenceEnds, Throws, Says, Promise!Refused, Promise!Says,
                position, history, scan, Live, InPrimary, Ahead
  <2> QED
    BY <2>1, <2>2 DEF Promise!Sequence
<1>2. CASE Sequence(start)
  <2>1. PICK k \in Returned(start) :
          /\ MovesBehind(k)
          /\ done' = (IF FromFirst(start) THEN {} ELSE done) \cup {k}
          /\ SaysKey("key", k)
    BY <1>2 DEF Sequence
  <2>2. /\ k \in ahead /\ \A j \in ahead : k <= j
    BY <2>1, ReturnedIsFirst
  <2>3. /\ mode # "closed" /\ Live' = Live /\ cursor' = "Next"
        /\ UNCHANGED <<mode, spoiled, cursorIsInit>> /\ InPrimary(segment) = Live
    BY <1>2 DEF Sequence, IsOpen, Live, history
  <2>4. done' = (IF start THEN {} ELSE done) \cup {k}
    <3>1. cursor = "Start" => done = {}
      BY DEF CursorTrue, Ahead
    <3> QED
      BY <2>1, <3>1 DEF FromFirst
  <2>5. \A j \in Live : j \in Int
    BY KeysAreNumbers
  <2>6. k \in Live /\ k \in Int
    BY <2>2, <2>5 DEF Ahead
  <2>7. \A j \in ahead : j \in Live
    BY DEF Ahead
  <2>8. \A j \in Live : j > k => j \in ahead
    <3>1. CASE start \/ cursor = "Start"
      BY <3>1 DEF Ahead
    <3>2. CASE ~start /\ cursor # "Start"
      <4>1. ~atEnd /\ k >= at /\ ahead = {j \in Live : j >= at}
        BY <2>2, <3>2 DEF Ahead
      <4>2. at \in Int
        BY KeysAreNumbers DEF TypeOK, Unset
      <4> QED
        BY <2>5, <2>6, <4>1, <4>2
    <3> QED
      BY <3>1, <3>2
  <2>9. \A j \in Live : j \in Ahead' <=> j > k
    <3>1. CASE After(segment, k) = {}
      <4>1. atEnd'
        BY <2>1, <3>1 DEF MovesBehind
      <4>2. \A j \in Live : ~(j > k)
        BY <2>3, <2>5, <2>6, <3>1, NextFound
      <4> QED
        BY <2>3, <4>1, <4>2 DEF Ahead
    <3>2. CASE After(segment, k) # {}
      <4>1. at' \in After(segment, k) /\ ~atEnd'
        BY <2>1, <3>2, MovedToTarget DEF MovesBehind
      <4>2. /\ at' \in Live /\ at' > k
            /\ \A j \in Live : j > k => j >= at'
        BY <2>3, <2>6, <4>1, NextFound
      <4>3. \A j \in Live : j >= at' => j > k
        BY <2>5, <2>6, <4>2
      <4> QED
        BY <2>3, <4>1, <4>2, <4>3 DEF Ahead
    <3> QED
      BY <3>1, <3>2
  <2>10. Ahead' = ahead \ {k}
    <3>1. Ahead' \subseteq Live
      BY <2>3 DEF Ahead
    <3>2. \A j \in Live : j \in ahead \ {k} <=> j > k
      <4> HIDE DEF ahead
      <4> QED
        BY <2>2, <2>5, <2>6, <2>8
    <3> HIDE DEF ahead
    <3> QED
      BY <2>7, <2>9, <3>1, <3>2
  <2>11. Promise!SaysKey("key", k)
    BY <2>1 DEF SaysKey, Promise!SaysKey
  <2> QED
    BY <2>2, <2>3, <2>4, <2>10, <2>11 DEF Promise!Sequence
<1> QED
  BY <1>1, <1>2

LEMMA AimKept ==
    ASSUME NEW k \in Keys, SetCursorAtKey(k)
    PROVE  Promise!SetCursorAtKey(k)
<1>1. /\ mode # "closed" /\ k \in Live /\ Live' = Live
      /\ at' = k /\ ~atEnd' /\ cursor' = "Next"
      /\ done' = {j \in Live : j < k}
      /\ UNCHANGED <<mode, spoiled, cursorIsInit>>
      /\ Promise!SaysKey("aimed", k)
  BY DEF SetCursorAtKey, Live, IsOpen, SaysKey, Promise!SaysKey, history
<1>2. Ahead' = {j \in Live : j >= k}
  BY <1>1 DEF Ahead
<1>3. k \in Int /\ \A j \in Live : j \in Int
  BY KeysAreNumbers
<1>4. done' = Live \ {j \in Live : j >= k}
  <2>1. \A j \in Live : j < k <=> ~(j >= k)
    BY <1>3
  <2> QED
    BY <1>1, <2>1
<1> QED
  BY <1>1, <1>2, <1>4 DEF Promise!SetCursorAtKey

LEMMA OpenKept ==
    ASSUME NEW m \in {"ReadWrite", "ReadOnly"}, Open(m)
    PROVE  Promise!Open(m)
<1>1. /\ mode = "closed" /\ mode' = m /\ cursor' = "Start" /\ done' = {}
      /\ Live' = Live /\ spoiled' = spoiled /\ Promise!Says("opened")
      /\ cursorIsInit' = (Live # {})
  BY DEF Open, Setup, Live, Says, Promise!Says, history
<1>2. Ahead' = Live
  BY <1>1 DEF Ahead
<1> QED
  BY <1>1, <1>2 DEF Promise!Open

LEMMA MoveKept == TypeOK /\ Move => Promise!Move
<1> SUFFICES ASSUME TypeOK, Move PROVE Promise!Move
  OBVIOUS
<1>1. /\ mode = "ReadWrite" /\ done' = {} /\ Promise!Says("moved")
      /\ Live' = Live /\ UNCHANGED <<spoiled, mode, cursor>>
      /\ cursorIsInit' = (Live # {})
  BY DEF Move, Setup, Writable, Live, Says, Promise!Says, history
<1>2. Ahead' \subseteq Live /\ (cursor = "Start" => Ahead' = Live)
  BY <1>1 DEF Ahead
<1>3. (~(cursor = "Next")) => Ahead' = Live
  BY <1>2 DEF TypeOK
<1> QED
  BY <1>1, <1>2, <1>3 DEF Promise!Move

LEMMA CloseKept == Close => Promise!Close
BY DEF Close, Promise!Close, Says, Promise!Says, IsOpen, Live, Ahead,
       position, history, scan

(* A call that throws changes nothing.                                     *)
LEMMA RefusedKept ==
    ASSUME NEW out, Throws(out)
    PROVE  Promise!Refused(out)
BY DEF Throws, Promise!Refused, Says, Promise!Says, Live, InPrimary, Ahead,
       position, history, scan

LEMMA NextKept ==
    ASSUME TypeOK, CursorSet, CursorTrue, \A k \in Keys : KeyIntact(k),
           [Next]_vars
    PROVE  [Promise!Next]_(Promise!vars)
<1>1. ASSUME NEW k \in Keys, NEW d \in Records,
             \/ Insert(k, d) \/ InsertExisting(k, d)
             \/ \E n \in 0 .. MaxSegments : InsertFails(k, d, n)
      PROVE  Promise!Next
  BY <1>1, InsertKept, InsertExistingKept, InsertFailsKept DEF Promise!Next
<1>2. ASSUME NEW k \in Keys, RemoveAbsent(k) PROVE Promise!Next
  <2>1. Promise!Remove(k)
    BY <1>2, RefusedKept DEF RemoveAbsent, Writable, Promise!Remove
  <2> QED
    BY <2>1 DEF Promise!Next
<1>3. ASSUME NEW k \in Keys,
             Remove(k) \/ \E n \in 0 .. MaxSegments : RemoveFails(k, n)
      PROVE  Promise!Next
  BY <1>3, RemoveKept, RemoveFailsKept DEF Promise!Next
<1>4. ASSUME NEW k \in Keys, AimAbsent(k) PROVE Promise!Next
  <2>1. Promise!SetCursorAtKey(k)
    BY <1>4, RefusedKept DEF AimAbsent, IsOpen, Promise!SetCursorAtKey
  <2> QED
    BY <2>1 DEF Promise!Next
<1>5. ASSUME NEW k \in Keys, SetCursorAtKey(k) PROVE Promise!Next
  BY <1>5, AimKept DEF Promise!Next
<1>6. ASSUME NEW start \in BOOLEAN, SequenceEnds(start) \/ Sequence(start)
      PROVE  Promise!Next
  BY <1>6, SequenceKept DEF Promise!Next
<1>7. ASSUME RefusedReadOnly PROVE Promise!Next
  BY <1>7, RefusedKept DEF RefusedReadOnly, Promise!RefusedReadOnly, Promise!Next
<1>8. ASSUME NEW m \in {"ReadWrite", "ReadOnly"}, Open(m) PROVE Promise!Next
  BY <1>8, OpenKept DEF Promise!Next
<1>9. ASSUME Close \/ Move PROVE Promise!Next
  BY <1>9, CloseKept, MoveKept DEF Promise!Next
<1>10. ASSUME UNCHANGED vars PROVE UNCHANGED Promise!vars
  BY <1>10 DEF vars, Promise!vars, position, history, scan, Live, InPrimary, Ahead
<1> QED
  BY <1>1, <1>2, <1>3, <1>4, <1>5, <1>6, <1>7, <1>8, <1>9, <1>10 DEF Next

(***************************************************************************)
(* PromiseKept: whatever fails, the store implements SortedRecordStore.    *)
(***************************************************************************)
THEOREM PromiseCorrect == Spec => PromiseKept
<1> DEFINE Inv == TypeOK /\ CursorSet /\ CursorTrue /\ \A k \in Keys : KeyIntact(k)
<1>1. Init => Inv /\ Promise!Init
  <2> SUFFICES ASSUME Init PROVE Inv /\ Promise!Init
    OBVIOUS
  <2>1. Live = {}
    BY KeysAreNumbers DEF Init, Live, InPrimary
  <2>2. Ahead = {}
    BY <2>1 DEF Ahead
  <2>3. CursorTrue
    BY <2>1 DEF Init, CursorTrue
  <2>4. Promise!Init
    BY <2>1, <2>2 DEF Init, Promise!Init
  <2> QED
    BY <2>3, <2>4, InitTypes, InitInv
<1>2. Inv /\ [Next]_vars => Inv'
  BY NextTypes, NextCursorSet, NextSequences, NextKeys
<1>3. Inv /\ [Next]_vars => [Promise!Next]_(Promise!vars)
  BY NextKept
<1> HIDE DEF Inv
<1> QED
  BY <1>1, <1>2, <1>3, PTL DEF Spec, PromiseKept, Promise!Spec
=============================================================================
