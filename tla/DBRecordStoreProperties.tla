---------------------- MODULE DBRecordStoreProperties ----------------------
(***************************************************************************)
(* What a DBRecordStore must keep, whatever is inserted, removed,          *)
(* sequenced, moved and opened again, in any order.                        *)
(***************************************************************************)
EXTENDS DBRecordStore

\* Every variable keeps its type: the cursor is on a record or on none, the
\* count is a number of the build.
TypeOK ==
    /\ segment \in [Keys -> [Places -> Nat]]
    /\ at \in Keys \cup {Unset}
    /\ atEnd \in BOOLEAN /\ cursorIsInit \in BOOLEAN
    /\ cursor \in {"Start", "Next"}
    /\ count \in 0 .. UIntValues - 1
    /\ mode \in {"closed", "ReadWrite", "ReadOnly"}
    /\ written \in [Keys -> Records \cup {<<>>}]
    /\ spoiled \in SUBSET Keys /\ failures \in 0 .. MaxFailures
    /\ due \in SUBSET Keys /\ done \in SUBSET Keys

\* read() returns every record as it was inserted, all its segments and no
\* other's, unless an operation on that very key failed part of the way; and
\* getCount() is the number of records if none did.
RecordsIntact ==
    /\ \A k \in Live \ spoiled : Read(k) = written[k]
    /\ failures = 0 => count = Cardinality(Live)

\* The records sequence(NEXT) would go on to return.
Ahead ==
    IF cursor = "Start" THEN Live
    ELSE {k \in Live : ~atEnd /\ k >= at}

\* A sequence, from the start or from the key it was set to, returns every
\* record that was there when it began and stays, whatever is inserted and
\* removed meanwhile; and none of them twice, unless an insertion found the
\* cursor not set up and put it back on the first record.
SequencesOnce ==
    IsOpen => due \subseteq Ahead /\ done \cap Ahead = {}

Promise == INSTANCE SortedRecordStore WITH
    live <- Live,
    torn <- spoiled,
    loose <- ~cursorIsInit,
    begun <- (cursor = "Next"),
    left <- Ahead,
    given <- done

\* The store does what a sorted store promises, also where an operation on
\* one of its keys failed: every step is one of SortedRecordStore's.
PromiseKept == Promise!Spec
=============================================================================
