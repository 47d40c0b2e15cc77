--------------------------- MODULE DBRecordStore ---------------------------
(***************************************************************************)
(* A DBRecordStore (be_io_dbrecstore_impl.cpp): records in a Berkeley DB   *)
(* B-tree, sorted by key.  A record longer than MAX_REC_SIZE is cut into   *)
(* segments: the first goes to the primary database under the record's     *)
(* key, the others to the subordinate one under names made from the key.   *)
(* The segments are put and deleted one by one, without a transaction, so  *)
(* an operation that fails part of the way leaves the others behind.       *)
(*                                                                         *)
(* sequence() walks the primary database with one Berkeley DB cursor, kept *)
(* on the record to return next; _atEnd says that there is none, and the   *)
(* cursor is then still on the last record.                                *)
(*                                                                         *)
(* Abstractions: keys are numbers, in their order; a record is the         *)
(* sequence of its segments; key syntax, flushing and a killed process     *)
(* (what Berkeley DB has then written) are left out.  replace() is         *)
(* remove() then insert().                                                 *)
(***************************************************************************)
EXTENDS Integers, FiniteSets, Sequences

CONSTANTS
    Keys,           \* the keys clients use
    Records,        \* the records they insert: sequences of segments
    MaxSegments,    \* the most segments a record has
    UIntValues,     \* values of an unsigned int: 2^32 in the build
    MaxFailures     \* bound: puts and deletes that Berkeley DB fails

ASSUME DBAssumption ==
    /\ Keys \subseteq Nat /\ IsFiniteSet(Keys)
    /\ MaxSegments \in Nat \ {0} /\ MaxFailures \in Nat
    /\ \A d \in Records : d \in Seq(Nat \ {0}) /\ Len(d) \in 1 .. MaxSegments
    /\ UIntValues \in Nat \ {0}

VARIABLES
    segment,      \* segment[k][1] in the primary database, the others of k
                  \* in the subordinate one
    at,           \* the record the cursor is on, deleted or not, or Unset
    atEnd,        \* _atEnd
    cursorIsInit, \* _cursorIsInit
    cursor,       \* _cursor: "Start" or "Next"
    count,        \* the Count property
    mode,         \* _mode, or "closed" when there is no object
    answer,       \* what the last step returned or threw
    written,      \* history: the record last inserted under each key,
                  \* <<>> when it was removed
    spoiled,      \* history: keys an operation failed on part of the way
    failures,     \* history: how many operations failed
    due, done     \* history: keys the sequence in progress has to return,
                  \* and those it has returned or was set past since the
                  \* cursor was last put on a record

position == <<at, atEnd, cursorIsInit, cursor>>
history  == <<written, spoiled, failures>>
scan     == <<due, done>>
vars == <<segment, position, count, mode, answer, history, scan>>

Missing == 0    \* no such segment
Unset   == -1   \* a cursor that is on no record

Places == 1 .. MaxSegments

---------------------------------------------------------------------------
(* The two databases *)

InPrimary(seg) == {k \in Keys : seg[k][1] # Missing}
Live == InPrimary(segment)

\* The places from the first on that hold a segment, without a gap.
Prefix(s) == {i \in Places : \A j \in 1 .. i : s[j] # Missing}

\* readRecordSegments(): segment by segment until one is missing.
Read(k) == [i \in 1 .. Cardinality(Prefix(segment[k])) |-> segment[k][i]]

\* Segments m + 1 to n of d are put under k.
PutSegments(k, d, n) ==
    [segment EXCEPT ![k] = [i \in Places |-> IF i <= n THEN d[i] ELSE @[i]]]

\* A mistake: the subordinate database is forgotten.
DeletePrimary(k, n) ==
    [segment EXCEPT ![k] = [i \in Places |-> IF i <= n /\ i = 1 THEN Missing
                                             ELSE @[i]]]

\* The first n segments under k are deleted.
DeleteSegments(k, n) ==
    [segment EXCEPT ![k] = [i \in Places |-> IF i <= n THEN Missing ELSE @[i]]]

\* A mistake: put() without DB_NOOVERWRITE.
OverwritesIn(k, d) == 1 .. Len(d)

\* DB_NOOVERWRITE: the segments of d before the first name that is taken.
RoomFor(k, d) ==
    {i \in 1 .. Len(d) : \A j \in 1 .. i : segment[k][j] = Missing}
FreeFor(k, d) == Cardinality(RoomFor(k, d))

---------------------------------------------------------------------------
(* The cursor *)

\* Where DB_FIRST and DB_NEXT would put the cursor: at most one record.
First(seg) == {k \in InPrimary(seg) : \A j \in InPrimary(seg) : k <= j}
After(seg, c) ==
    {k \in InPrimary(seg) :
        /\ k > c
        /\ \A j \in InPrimary(seg) : j > c => k <= j}

\* DB_FIRST, or DB_NEXT from c: the cursor stays where nothing is found.
MovedTo(targets, c) == IF targets = {} THEN c ELSE CHOOSE k \in targets : TRUE

---------------------------------------------------------------------------
Says(out) == answer' = [out |-> out, keys |-> {}]
SaysKey(out, k) == answer' = [out |-> out, keys |-> {k}]

Throws(out) ==
    Says(out) /\ UNCHANGED <<segment, position, count, mode, history, scan>>

IsOpen   == mode # "closed"
Writable == mode = "ReadWrite"

\* insert() and remove() of a store opened read-only.
RefusedReadOnly == mode = "ReadOnly" /\ Throws("readonly")

\* RecordStore::Impl::insert() and remove(): the property in memory.
OneMore  == (count + 1) % UIntValues
NoWrap   == count - 1                                           \* a mistake
OneFewer == (count - 1) % UIntValues

\* Part of an operation on k is done, and the rest is not.
Spoils(k) == spoiled' = spoiled \cup {k} /\ UNCHANGED written
Fails ==
    /\ failures < MaxFailures
    /\ failures' = failures + 1
    /\ Says("failed")

\* The sequence no longer has to return k, nor to avoid it.
Leaves(k) == due' = due \ {k} /\ done' = done \ {k}

---------------------------------------------------------------------------
(* insert() *)

\* An insertion that finds _cursorIsInit unset puts the cursor on the first
\* record, wherever it was: what was returned before may come again.
SetBack == done' = IF cursorIsInit THEN done ELSE {}

\* The cursor comes off the end when there is a record behind it.
CursorAfterInsert ==
    LET c == IF cursorIsInit THEN at ELSE MovedTo(First(segment'), at)
        behind == After(segment', c)
    IN  /\ at' = IF atEnd THEN MovedTo(behind, c) ELSE c
        /\ atEnd' = (atEnd /\ behind = {})
        /\ cursorIsInit' = TRUE

Insert(k, d) ==
    /\ Writable
    /\ FreeFor(k, d) = Len(d)
    /\ segment' = PutSegments(k, d, Len(d))
    /\ CursorAfterInsert
    /\ count' = OneMore
    /\ written' = [written EXCEPT ![k] = d]
    /\ SetBack
    /\ SaysKey("inserted", k)
    /\ UNCHANGED <<cursor, mode, spoiled, failures, due>>

\* A name is taken: of the key, or of a segment an earlier operation left.
InsertExisting(k, d) ==
    /\ Writable
    /\ FreeFor(k, d) < Len(d)
    /\ segment' = PutSegments(k, d, FreeFor(k, d))
    /\ IF FreeFor(k, d) = 0 THEN UNCHANGED <<written, spoiled>>
       ELSE Spoils(k)
    /\ Says("exists")
    /\ UNCHANGED <<position, count, mode, failures, scan>>

\* Berkeley DB fails after n segments: those stay, nothing reverts them.
InsertFails(k, d, n) ==
    /\ Writable
    /\ n <= FreeFor(k, d) /\ n < Len(d)
    /\ segment' = PutSegments(k, d, n)
    /\ Fails
    /\ IF n = 0 THEN UNCHANGED <<written, spoiled>> ELSE Spoils(k)
    /\ UNCHANGED <<position, count, mode, scan>>

---------------------------------------------------------------------------
(* remove() *)

RemoveAbsent(k) == Writable /\ k \notin Live /\ Throws("absent")

\* The cursor steps off a deleted record, or is at the end, and then set up
\* again by the next insertion, whether or not the store has records.
CursorAfterRemove ==
    LET behind == After(segment', at)
    IN  IF at \in InPrimary(segment') THEN UNCHANGED <<at, atEnd, cursorIsInit>>
        ELSE /\ at' = MovedTo(behind, at)
             /\ atEnd' = (atEnd \/ behind = {})
             /\ cursorIsInit' = (cursorIsInit /\ behind # {})

Remove(k) ==
    /\ Writable
    /\ k \in Live
    /\ segment' = DeleteSegments(k, Cardinality(Prefix(segment[k])))
    /\ written' = [written EXCEPT ![k] = <<>>]
    /\ Leaves(k)
    /\ IF at = Unset
       THEN \* DB_CURRENT of a cursor on no record throws
            /\ Says("failed")
            /\ UNCHANGED <<at, atEnd, cursorIsInit, count>>
       ELSE /\ CursorAfterRemove
            /\ count' = OneFewer
            /\ Says("removed")
    /\ UNCHANGED <<cursor, mode, spoiled, failures>>

\* Berkeley DB fails after n deletes: the cursor is left where it is.
RemoveFails(k, n) ==
    /\ Writable
    /\ k \in Live
    /\ n <= Cardinality(Prefix(segment[k]))
    /\ segment' = DeleteSegments(k, n)
    /\ Fails
    /\ IF n = 0 THEN UNCHANGED <<written, spoiled, scan>>
       ELSE Spoils(k) /\ Leaves(k)
    /\ UNCHANGED <<position, count, mode>>

---------------------------------------------------------------------------
(* Sequencing *)

FromFirst(start) == start \/ cursor = "Start"

\* The record i_sequence() returns: the first one, the one under the cursor,
\* or the one behind it when that is deleted.
Returned(start) ==
    IF FromFirst(start) THEN First(segment)
    ELSE IF atEnd THEN {}
    ELSE IF at \in Live THEN {at} ELSE After(segment, at)

SequenceEnds(start) ==
    /\ IsOpen
    /\ Returned(start) = {}
    /\ Throws("ended")

StaysOn(k) == at' = k /\ atEnd' = FALSE                         \* a mistake

\* DB_NEXT: on to the record to return next, or at the end.
MovesBehind(k) ==
    LET behind == After(segment, k)
    IN  at' = MovedTo(behind, k) /\ atEnd' = (behind = {})

Sequence(start) ==
    /\ IsOpen
    /\ \E k \in Returned(start) :
        /\ MovesBehind(k)
        /\ due'  = (IF FromFirst(start) THEN Live ELSE due) \ {k}
        /\ done' = (IF FromFirst(start) THEN {} ELSE done) \cup {k}
        /\ SaysKey("key", k)
    /\ cursor' = "Next"
    /\ UNCHANGED <<segment, cursorIsInit, count, mode, history>>

AimAbsent(k) == IsOpen /\ k \notin Live /\ Throws("absent")

SetCursorAtKey(k) ==
    /\ IsOpen
    /\ k \in Live
    /\ at' = k
    /\ atEnd' = FALSE
    /\ cursor' = "Next"
    /\ due'  = {j \in Live : j >= k}
    /\ done' = {j \in Live : j < k}
    /\ SaysKey("aimed", k)
    /\ UNCHANGED <<segment, cursorIsInit, count, mode, history>>

---------------------------------------------------------------------------
(* Opening and closing *)

\* i_setup(): a new cursor, on the first record if there is one.
Setup ==
    /\ at' = MovedTo(First(segment), Unset)
    /\ cursorIsInit' = (Live # {})

Open(m) ==
    /\ mode = "closed"
    /\ mode' = m
    /\ Setup
    /\ atEnd' = FALSE
    /\ cursor' = "Start"
    /\ due' = Live /\ done' = {}
    /\ Says("opened")
    /\ UNCHANGED <<segment, count, history>>

Close ==
    /\ IsOpen
    /\ mode' = "closed"
    /\ Says("closed")
    /\ UNCHANGED <<segment, position, count, history, scan>>

\* The files get another name: _atEnd and _cursor stay what they were, and
\* the header promises nothing of a sequence in progress.
Move ==
    /\ Writable
    /\ Setup
    /\ due' = {} /\ done' = {}
    /\ Says("moved")
    /\ UNCHANGED <<segment, atEnd, cursor, count, mode, history>>

---------------------------------------------------------------------------
\* A store just created.
Init ==
    /\ segment = [k \in Keys |-> [i \in Places |-> Missing]]
    /\ at = Unset
    /\ atEnd = FALSE
    /\ cursorIsInit = FALSE
    /\ cursor = "Start"
    /\ count = 0
    /\ mode = "ReadWrite"
    /\ answer = [out |-> "created", keys |-> {}]
    /\ written = [k \in Keys |-> <<>>]
    /\ spoiled = {}
    /\ failures = 0
    /\ due = {} /\ done = {}

Next ==
    \/ \E k \in Keys, d \in Records :
          \/ Insert(k, d) \/ InsertExisting(k, d)
          \/ \E n \in 0 .. MaxSegments : InsertFails(k, d, n)
    \/ \E k \in Keys :
          \/ RemoveAbsent(k) \/ Remove(k)
          \/ \E n \in 0 .. MaxSegments : RemoveFails(k, n)
          \/ AimAbsent(k) \/ SetCursorAtKey(k)
    \/ \E start \in BOOLEAN : SequenceEnds(start) \/ Sequence(start)
    \/ RefusedReadOnly
    \/ \E m \in {"ReadWrite", "ReadOnly"} : Open(m)
    \/ Close \/ Move

Spec == Init /\ [][Next]_vars
=============================================================================
