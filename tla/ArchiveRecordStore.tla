------------------------- MODULE ArchiveRecordStore -------------------------
(***************************************************************************)
(* An ArchiveRecordStore (be_io_archiverecstore_impl.cpp): the data of all *)
(* records in one archive file, and a manifest file with one line per      *)
(* insertion or removal, from which the table of entries is rebuilt when   *)
(* the store is opened.  The number of records is a property in the        *)
(* control file, kept in memory until sync() or the destructor writes it.  *)
(*                                                                         *)
(* Both files are written through stdio streams: what has not been         *)
(* flushed is lost when the process is killed.  The archive has a single   *)
(* stream position that reads and writes share, and insert() takes the     *)
(* offset of a new record from it.  The control file is rewritten: it is   *)
(* empty between being opened and being written (PropertiesFile::sync()).  *)
(*                                                                         *)
(* Abstractions: the data of every record fills one cell of the archive;   *)
(* a manifest line reaches the disk whole or not at all; sizes, key syntax *)
(* and I/O errors are left out.  replace() is remove() then insert().      *)
(***************************************************************************)
EXTENDS Integers, FiniteSets, Sequences, FiniteSetsExt

CONSTANTS
    Keys,
    MaxLines,           \* bound: lines of the manifest
    MaxCells,           \* bound: records in the archive file
    MaxKills,           \* bound: processes killed with the store open
    UIntValues,         \* values of an unsigned int: 2^32 in the build
    ReadsThenInserts,   \* whether clients insert after they read elsewhere
    AimsAtStart         \* whether clients call setCursorAtKey() on a store
                        \* they have not begun to sequence

ASSUME ArchiveAssumption ==
    /\ IsFiniteSet(Keys)
    /\ MaxLines \in Nat /\ MaxCells \in Nat /\ MaxKills \in Nat
    /\ UIntValues \in Nat \ {0}
    /\ ReadsThenInserts \in BOOLEAN
    /\ AimsAtStart \in BOOLEAN

VARIABLES
    manifest,       \* lines of the manifest, with those still in the buffer
    onDisk,         \* how many of them are in the file
    archive,        \* data of the archive, with what is still in the buffer
    archiveFile,    \* data in the archive file
    streamPos,      \* the position of the archive's stream
    appending,      \* the archive was opened with app (not created)
    entries,        \* _entries: keys in order, and the offset of each
    cursor,         \* _cursor: "Start" or "Next"
    cursorPos,      \* _cursorPos: an index of entries.order, or End
    dirty,          \* _dirty
    count,          \* the Count property in memory
    countFile,      \* the Count property in the control file, or Missing
    mode,           \* _mode, or "closed" when there is no object, or where
                    \* sync() or the destructor of a writable store is
    answer,         \* what the last step returned or threw
    written,        \* history: the data last inserted under each key, or
                    \* Missing where it was removed since
    settled,        \* history: keys whose data were right when last synced
    kills           \* history: processes that were killed

files == <<manifest, onDisk, archive, archiveFile, countFile>>
stream == <<streamPos, appending>>
table == <<entries, dirty, count>>
position == <<cursor, cursorPos>>
history == <<written, settled, kills>>
vars == <<files, stream, table, position, mode, answer, history>>

Unknown == -1   \* no line for the key
Removed == 0    \* OFFSET_RECORD_REMOVED
Missing == -1   \* the control file has no Count
End == 0        \* _entries.end()

Line == [key : Keys, offset : Nat]

---------------------------------------------------------------------------
(* The table of entries *)

NoEntries == [order |-> <<>>, place |-> [k \in Keys |-> Unknown]]

\* m[k] = v: a key keeps its first place in the order.
EfficientInsert(e, k, offset) ==
    [order |-> IF e.place[k] = Unknown THEN Append(e.order, k) ELSE e.order,
     place |-> [e.place EXCEPT ![k] = offset]]

\* The members of a finite set of numbers, from the least to the greatest.
Ascending(S) ==
    [n \in 1 .. Cardinality(S) |->
        CHOOSE i \in S : Cardinality({j \in S : j <= i}) = n]

LinesOf(lines, k) == {i \in DOMAIN lines : lines[i].key = k}

FirstLines(lines) ==
    {i \in DOMAIN lines : \A j \in 1 .. i - 1 : lines[j].key # lines[i].key}

\* read_manifest(), line by line: the first line of a key gives its place in
\* the order, the last one its offset.
ReadManifest(lines) ==
    LET first == Ascending(FirstLines(lines))
    IN  [order |-> [n \in DOMAIN first |-> lines[first[n]].key],
         place |-> [k \in Keys |-> IF LinesOf(lines, k) = {} THEN Unknown
                                   ELSE lines[Max(LinesOf(lines, k))].offset]]

NeverDirty(lines) == FALSE                                      \* a mistake
HasRemovals(lines) == \E i \in DOMAIN lines : lines[i].offset = Removed

Present(k) == entries.place[k] \notin {Unknown, Removed}

\* keyExists(): without removals any entry is a record.
KeyExists(k) ==
    IF dirty THEN Present(k) ELSE entries.place[k] # Unknown

Live == {k \in Keys : Present(k)}

\* The archive has data where the entry says they are.
HasData(k) == entries.place[k] \in DOMAIN archive

\* What read(k) returns is what was inserted under the key.
Intact(k) == HasData(k) /\ archive[entries.place[k]] = written[k]

---------------------------------------------------------------------------
Says(out) == answer' = [out |-> out, keys |-> {}]
SaysKey(out, k) == answer' = [out |-> out, keys |-> {k}]

Throws(out) == Says(out) /\ UNCHANGED <<files, stream, table, position, mode, history>>

\* sync() has emptied the control file; has written it; the destructor has
\* closed the streams and emptied the control file.
Saving == {"syncing", "flushing", "closing"}

IsOpen == mode # "closed"
Idle == IsOpen /\ mode \notin Saving
Writable == mode = "ReadWrite"

\* insert(), remove() and flush() of a store opened read-only.
RefusedReadOnly == mode = "ReadOnly" /\ Throws("readonly")

\* RecordStore::Impl::insert() and remove(): the property in memory.
OneMore == (count + 1) % UIntValues

NoneFewer == count                                              \* a mistake
OneFewer == (count - 1) % UIntValues

\* A line more, in the buffer and in the table.
WriteManifestEntry(k, offset) ==
    /\ Len(manifest) < MaxLines
    /\ manifest' = Append(manifest, [key |-> k, offset |-> offset])
    /\ entries' = EfficientInsert(entries, k, offset)

InsertExisting(k) == Writable /\ KeyExists(k) /\ Throws("exists")

\* What a client inserts differs from insertion to insertion.
NewData == Len(manifest) + 1

\* The offset is tellp(): a stream opened with app still writes at the end.
Insert(k) ==
    /\ Writable
    /\ ~KeyExists(k)
    /\ Len(archive) < MaxCells
    /\ ReadsThenInserts \/ streamPos = Len(archive) + 1
    /\ WriteManifestEntry(k, streamPos)
    /\ archive' = IF appending \/ streamPos > Len(archive)
                  THEN Append(archive, NewData)
                  ELSE [archive EXCEPT ![streamPos] = NewData]
    /\ streamPos' = streamPos + 1
    /\ count' = OneMore
    /\ written' = [written EXCEPT ![k] = NewData]
    /\ settled' = settled \ {k}
    /\ Says("inserted")
    /\ UNCHANGED <<onDisk, archiveFile, countFile, appending, dirty, position,
                   mode, kills>>

RemoveAbsent(k) == Writable /\ ~KeyExists(k) /\ Throws("absent")

Remove(k) ==
    /\ Writable
    /\ KeyExists(k)
    /\ WriteManifestEntry(k, Removed)
    /\ count' = OneFewer
    /\ dirty' = TRUE
    /\ written' = [written EXCEPT ![k] = Missing]
    /\ settled' = settled \ {k}
    /\ Says("removed")
    /\ UNCHANGED <<onDisk, archive, archiveFile, countFile, stream, position,
                   mode, kills>>

\* seekg() to the offset flushes the buffer; read() moves on behind the data.
ReadsData(k) ==
    /\ archiveFile' = archive
    /\ streamPos' = IF HasData(k) THEN entries.place[k] + 1
                    ELSE entries.place[k]

Read(k) ==
    /\ Idle
    /\ Present(k)
    /\ ReadsData(k)
    /\ Says("settled")
    /\ UNCHANGED <<manifest, onDisk, archive, countFile, appending, table,
                   position, mode, history>>

---------------------------------------------------------------------------
(* Sequencing *)

LivePlaces == {i \in DOMAIN entries.order : Present(entries.order[i])}

\* The places i_sequence() may still come to, for the cursor it is given.
Ahead(start) ==
    IF start \/ cursor = "Start" THEN LivePlaces
    ELSE {i \in LivePlaces : cursorPos # End /\ i > cursorPos}

FirstAhead(start) == Min(Ahead(start))

SequenceEnds(start) ==
    /\ Idle
    /\ Ahead(start) = {}
    /\ cursorPos' = End
    /\ Says("ended")
    /\ UNCHANGED <<files, stream, table, cursor, mode, history>>

\* i_sequence(): sequence() reads the data of the record, sequenceKey() not.
Sequence(start, returnData) ==
    /\ Idle
    /\ Ahead(start) # {}
    /\ LET i == FirstAhead(start)
           k == entries.order[i]
       IN  /\ cursorPos' = i
           /\ SaysKey("key", k)
           /\ IF returnData THEN ReadsData(k)
              ELSE UNCHANGED <<archiveFile, streamPos>>
    /\ cursor' = "Next"
    /\ UNCHANGED <<manifest, onDisk, archive, countFile, appending, table,
                   mode, history>>

AimAbsent(k) == Idle /\ ~Present(k) /\ Throws("absent")

\* The entry before the key, so that the next call steps onto the key; the
\* first one has none, and sets the cursor back to START.
Aimed(i) ==
    IF i = 1 THEN cursorPos' = 1 /\ cursor' = "Start"
    ELSE cursorPos' = i - 1 /\ UNCHANGED cursor

SetCursorAtKey(k) ==
    /\ Idle
    /\ Present(k)
    /\ AimsAtStart \/ cursor = "Next" \/ entries.order[1] = k
    /\ \E i \in DOMAIN entries.order : entries.order[i] = k /\ Aimed(i)
    /\ SaysKey("aimed", k)
    /\ UNCHANGED <<files, stream, table, mode, history>>

---------------------------------------------------------------------------
(* What reaches the disk *)

ManifestOut == onDisk' = Len(manifest)

\* A mistake: sync() and flush() forget the stream of the archive.
ArchiveKept == UNCHANGED <<archiveFile, streamPos>>

\* What a stream opened with app had to write leaves it at the end.
ArchiveOut ==
    /\ archiveFile' = archive
    /\ streamPos' = IF appending /\ archiveFile # archive
                    THEN Len(archive) + 1 ELSE streamPos

\* A full buffer is written without being asked to.
SpillManifest ==
    /\ Writable
    /\ onDisk < Len(manifest)
    /\ ManifestOut
    /\ Says("settled")
    /\ UNCHANGED <<manifest, archive, archiveFile, countFile, stream, table,
                   position, mode, history>>

SpillArchive ==
    /\ Writable
    /\ archiveFile # archive
    /\ ArchiveOut
    /\ Says("settled")
    /\ UNCHANGED <<manifest, onDisk, archive, countFile, appending, table,
                   position, mode, history>>

RightNow == {k \in Live : Intact(k)}

SyncReadOnly == mode = "ReadOnly" /\ Throws("synced")

\* sync() opens the control file, which empties it, writes it, and then has
\* both streams flushed.
SyncBegins ==
    /\ Writable
    /\ countFile' = Missing
    /\ mode' = "syncing"
    /\ Says("saving")
    /\ UNCHANGED <<manifest, onDisk, archive, archiveFile, stream, table,
                   position, history>>

SyncSaves ==
    /\ mode = "syncing"
    /\ countFile' = count
    /\ mode' = "flushing"
    /\ Says("settled")
    /\ UNCHANGED <<manifest, onDisk, archive, archiveFile, stream, table,
                   position, history>>

Sync ==
    /\ mode = "flushing"
    /\ ManifestOut
    /\ ArchiveOut
    /\ settled' = RightNow
    /\ mode' = "ReadWrite"
    /\ Says("synced")
    /\ UNCHANGED <<manifest, archive, countFile, appending, table, position,
                   written, kills>>

\* flush(key) flushes both streams, whatever the key, but not the count.
Flush(k) ==
    /\ Writable
    /\ Present(k)
    /\ ManifestOut
    /\ ArchiveOut
    /\ Says("settled")
    /\ UNCHANGED <<manifest, archive, countFile, appending, table, position,
                   mode, history>>

\* A mistake: the iterator outlives the entries it points into.
GoneButIterator ==
    /\ mode' = "closed"
    /\ entries' = NoEntries
    /\ dirty' = FALSE
    /\ count' = 0
    /\ UNCHANGED <<cursor, cursorPos>>
    /\ streamPos' = 1
    /\ appending' = TRUE

\* The object is gone, and what it kept in memory.
Gone ==
    /\ mode' = "closed"
    /\ entries' = NoEntries
    /\ dirty' = FALSE
    /\ count' = 0
    /\ cursor' = "Start"
    /\ cursorPos' = End
    /\ streamPos' = 1
    /\ appending' = TRUE

\* The destructor closes the streams, and that of the properties saves them
\* as sync() does.
CloseBegins ==
    /\ Writable
    /\ ManifestOut
    /\ archiveFile' = archive
    /\ countFile' = Missing
    /\ mode' = "closing"
    /\ Says("saving")
    /\ UNCHANGED <<manifest, archive, stream, table, position, history>>

Close ==
    /\ mode = "closing"
    /\ countFile' = count
    /\ settled' = RightNow
    /\ Gone
    /\ Says("closed")
    /\ UNCHANGED <<manifest, onDisk, archive, archiveFile, written, kills>>

CloseReadOnly ==
    /\ mode = "ReadOnly"
    /\ Gone
    /\ Says("closed")
    /\ UNCHANGED <<files, history>>

Kill ==
    /\ IsOpen
    /\ kills < MaxKills
    /\ kills' = kills + 1
    /\ manifest' = SubSeq(manifest, 1, onDisk)
    /\ archive' = archiveFile
    /\ Gone
    /\ Says("killed")
    /\ UNCHANGED <<onDisk, archiveFile, countFile, written, settled>>

---------------------------------------------------------------------------
(* Opening, and vacuum() of a store that is not open *)

OpenFails == mode = "closed" /\ countFile = Missing /\ Throws("failed")

Open(m) ==
    /\ mode = "closed"
    /\ countFile # Missing
    /\ mode' = m
    /\ entries' = ReadManifest(manifest)
    /\ dirty' = HasRemovals(manifest)
    /\ count' = countFile
    /\ streamPos' = IF m = "ReadWrite" THEN Len(archive) + 1 ELSE 1
    /\ Says("opened")
    /\ UNCHANGED <<files, appending, position, history>>

\* The keys of the table that are not removed, in its order.
LiveInOrder(e) ==
    LET live == Ascending({n \in DOMAIN e.order : e.place[e.order[n]] # Removed})
    IN  [n \in DOMAIN live |-> e.order[live[n]]]

\* The records, in order, merged into a store that takes this one's place;
\* one that cannot be read stops the merge, and this store stays.
Vacuum ==
    LET old == ReadManifest(manifest)
        kept == LiveInOrder(old)
    IN  /\ mode = "closed"
        /\ countFile # Missing
        /\ HasRemovals(manifest)
        /\ \A i \in DOMAIN kept : old.place[kept[i]] \in DOMAIN archive
        /\ manifest' = [i \in DOMAIN kept |-> [key |-> kept[i], offset |-> i]]
        /\ archive' = [i \in DOMAIN kept |-> archive[old.place[kept[i]]]]
        /\ onDisk' = Len(kept)
        /\ archiveFile' = archive'
        /\ countFile' = Len(kept) % UIntValues
        /\ Says("vacuumed")
    /\ UNCHANGED <<stream, table, position, mode, history>>

---------------------------------------------------------------------------
\* A store just created; its control file is still empty.
Init ==
    /\ manifest = <<>>
    /\ onDisk = 0
    /\ archive = <<>>
    /\ archiveFile = <<>>
    /\ streamPos = 1
    /\ appending = FALSE
    /\ entries = NoEntries
    /\ cursor = "Start"
    /\ cursorPos = End
    /\ dirty = FALSE
    /\ count = 0
    /\ countFile = Missing
    /\ mode = "ReadWrite"
    /\ answer = [out |-> "created", keys |-> {}]
    /\ written = [k \in Keys |-> Missing]
    /\ settled = {}
    /\ kills = 0

ClientOf(k) ==
    \/ InsertExisting(k) \/ Insert(k)
    \/ RemoveAbsent(k) \/ Remove(k)
    \/ Read(k) \/ AimAbsent(k) \/ SetCursorAtKey(k) \/ Flush(k)

Client ==
    \/ \E k \in Keys : ClientOf(k)
    \/ \E start \in BOOLEAN : SequenceEnds(start)
    \/ \E start, returnData \in BOOLEAN : Sequence(start, returnData)
    \/ RefusedReadOnly
    \/ SyncBegins \/ SyncSaves \/ Sync \/ SyncReadOnly
    \/ CloseBegins \/ Close \/ CloseReadOnly
    \/ OpenFails
    \/ \E m \in {"ReadWrite", "ReadOnly"} : Open(m)
    \/ Vacuum

Next == Client \/ SpillManifest \/ SpillArchive \/ Kill

Spec == Init /\ [][Next]_vars
=============================================================================
