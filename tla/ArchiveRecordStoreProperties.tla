-------------------- MODULE ArchiveRecordStoreProperties --------------------
(***************************************************************************)
(* What an archive record store must keep, whatever is inserted, removed,  *)
(* sequenced, flushed, closed, killed and opened again, in any order.      *)
(***************************************************************************)
EXTENDS ArchiveRecordStore

\* Every variable keeps its type, and the positions stay inside the files.
TypeOK ==
    /\ manifest \in Seq(Line) /\ onDisk \in 0..Len(manifest)
    /\ archive \in Seq(Nat) /\ archiveFile \in Seq(Nat)
    /\ streamPos \in Nat \ {0} /\ appending \in BOOLEAN
    /\ entries.order \in Seq(Keys)
    /\ entries.place \in [Keys -> Nat \cup {Unknown}]
    /\ cursor \in {"Start", "Next"} /\ cursorPos \in 0..Len(entries.order)
    /\ dirty \in BOOLEAN /\ count \in 0..UIntValues - 1
    /\ countFile \in (0..UIntValues - 1) \cup {Missing}
    /\ mode \in {"closed", "ReadWrite", "ReadOnly"} \cup Saving
    /\ written \in [Keys -> Nat \cup {Missing}] /\ settled \subseteq Keys
    /\ kills \in 0..MaxKills

(***************************************************************************)
(* The refinement: the manifest is the history of the store, a kill leaves *)
(* one of its prefixes that has at least the lines on the disk, or nothing *)
(* usable while the control file is empty: before the first sync(), and    *)
(* whenever the file is being rewritten.                                   *)
(***************************************************************************)
StoreOf(e) ==
    [exists |-> TRUE, order |-> e.order,
     live |-> {k \in Keys : e.place[k] \notin {Unknown, Removed}}]

StoreAfter(n) == StoreOf(ReadManifest(SubSeq(manifest, 1, n)))

NoStore == [exists |-> FALSE, order |-> <<>>, live |-> {}]

Lost == ~IsOpen /\ countFile = Missing

CurrentStore ==
    IF Lost THEN NoStore
    ELSE IF IsOpen THEN StoreOf(entries) ELSE StoreAfter(Len(manifest))

Survivors ==
    {CurrentStore}
    \cup {StoreAfter(n) : n \in onDisk..(Len(manifest) - 1)}
    \cup (IF countFile = Missing THEN {NoStore} ELSE {})

NextPlace ==
    IF cursor = "Start" THEN 1
    ELSE IF cursorPos = End THEN End ELSE cursorPos + 1

PromiseMode == IF mode \in Saving THEN "saving" ELSE mode

Promise == INSTANCE RecordStore WITH
    current <- CurrentStore, survivors <- Survivors,
    mode <- PromiseMode, next <- NextPlace, ForgetsAim <- AimsAtStart

\* The store does what be_io_recordstore.h says of keys, order, sequencing,
\* sync() and a store opened again, except that a kill while sync() or the
\* destructor saves the count may leave a store that cannot be opened any
\* more: every step is one of RecordStore's.
PromiseKept == Promise!Spec

\* read() returns what was last inserted under the key: always if no process
\* was killed, and after a kill for what was right at the last sync().
RecordsIntact ==
    IsOpen => \A k \in Live :
        (kills = 0 \/ k \in settled) => Intact(k)

\* getCount() is the number of records, in any session, unless a kill left
\* the control file behind the manifest.
CountIsRecords ==
    (IsOpen /\ kills = 0) => count = Cardinality(Live)

\* "Key will be the first record returned from the next call to sequence()":
\* after setCursorAtKey(k) the next place sequence() comes to is k's.
AimedKeyIsNext ==
    answer.out = "aimed" =>
        /\ Ahead(FALSE) # {}
        /\ answer.keys = {entries.order[FirstAhead(FALSE)]}
=============================================================================
