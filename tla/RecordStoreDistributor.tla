----------------------- MODULE RecordStoreDistributor -----------------------
(***************************************************************************)
(* The record source of an MPI job: MPI::RecordStoreDistributor, the       *)
(* input RecordStore it sequences, and the checkpoint PropertiesFile it    *)
(* shares with its base class MPI::Distributor.                            *)
(*                                                                         *)
(* The input store is read-only for the job and sequenced in one order, so *)
(* a record is its position in that order, 1 .. NumRecords.  Reading a     *)
(* member of Unreadable throws an Error::Exception (a missing archive      *)
(* segment, a short read).  The package's bytes are abstracted to the set  *)
(* of records it holds.  Job-level actions are in module MPIJob.           *)
(*                                                                         *)
(* Here and in the other modules a definition marked "a mistake" is a      *)
(* plausible slip in the definition below it.  No specification uses it: a *)
(* property is trusted once TLC finds it violated with the slip put in.    *)
(***************************************************************************)
EXTENDS Integers

CONSTANTS NumRecords,        \* records in the input RecordStore
          ChunkSize,         \* RecordStoreResources::getChunkSize()
          Unreadable,        \* records whose read throws
          CheckpointEnable   \* Runtime's constructor argument

ASSUME RecordStoreAssumption ==
          /\ NumRecords \in Nat
          /\ ChunkSize \in Nat \ {0}
          /\ Unreadable \subseteq 1 .. NumRecords
          /\ CheckpointEnable \in BOOLEAN

VARIABLES cursor,     \* position of the record the next sequence() returns
          remaining,  \* _recordsRemaining
          lastKey,    \* _lastDistributedKey, NoKey for the empty string
          chk         \* the checkpoint file on disk

sourceVars == <<cursor, remaining, lastKey, chk>>

Records  == 1 .. NumRecords
Readable == Records \ Unreadable
NoKey    == 0

(***************************************************************************)
(* The checkpoint file: exists says whether it is on disk; last and num    *)
(* are its "Last Key" and "Num Keys" properties.  A file that holds only   *)
(* the PID of the distributor has last = NoKey; so has one saved before    *)
(* any key was distributed, whose "Last Key" is the empty string.          *)
(***************************************************************************)
Checkpoint == [exists : BOOLEAN, last : 0 .. NumRecords, num : 0 .. NumRecords]
NoFile     == [exists |-> FALSE, last |-> NoKey, num |-> 0]
PidOnly    == [exists |-> TRUE, last |-> NoKey, num |-> 0]

SourceTypeOK == /\ cursor \in 1 .. NumRecords + 1
                /\ remaining \in 0 .. NumRecords
                /\ lastKey \in 0 .. NumRecords
                /\ chk \in Checkpoint

(***************************************************************************)
(* Construction: the whole store remains and its cursor is at the start.   *)
(* The base class opens the checkpoint file, or creates it holding the     *)
(* PID, as soon as the job's rank 0 is constructed.                        *)
(***************************************************************************)
OpenedCheckpoint(c) == IF CheckpointEnable /\ ~c.exists THEN PidOnly ELSE c

SourceInit == /\ cursor = 1
              /\ remaining = NumRecords
              /\ lastKey = NoKey
              /\ chk = OpenedCheckpoint(NoFile)

SourceReopen == /\ cursor' = 1
                /\ remaining' = NumRecords
                /\ lastKey' = NoKey
                /\ chk' = OpenedCheckpoint(chk)

(***************************************************************************)
(* createWorkPackage(): takes the next chunk off the store.  The count     *)
(* remaining drops by the whole chunk before anything is read; a record    *)
(* that cannot be read is skipped and does not move _lastDistributedKey.   *)
(***************************************************************************)
ChunkUnclamped  == ChunkSize                                    \* a mistake
KeyCount        == IF remaining > ChunkSize THEN ChunkSize ELSE remaining

OneTooFew       == (cursor + 1 .. cursor + KeyCount - 1) \ Unreadable \* another
PackageElements == (cursor .. cursor + KeyCount - 1) \ Unreadable

RecordLastKey ==
    \/ PackageElements = {} /\ UNCHANGED lastKey
    \/ \E k \in PackageElements : /\ \A e \in PackageElements : e =< k
                                  /\ lastKey' = k

CreateWorkPackage == /\ remaining' = remaining - KeyCount
                     /\ cursor' = cursor + KeyCount
                     /\ RecordLastKey
                     /\ UNCHANGED chk

(***************************************************************************)
(* checkpointSave() and checkpointRestore().  A restore positions the      *)
(* store on the saved key and reads that record to move past it; it throws *)
(* when the file has no usable "Last Key".                                 *)
(***************************************************************************)
SavedKeyBefore  == [exists |-> TRUE,                            \* a mistake
                    last |-> IF lastKey = NoKey THEN NoKey ELSE lastKey - 1,
                    num |-> NumRecords - remaining]
SavedRemaining  == [exists |-> TRUE, last |-> lastKey,          \* another
                    num |-> remaining]
SavedCheckpoint == [exists |-> TRUE, last |-> lastKey,
                    num |-> NumRecords - remaining]

CheckpointUsable == chk.last # NoKey

RestoreAtKey      == /\ CheckpointUsable                        \* a mistake
                     /\ cursor' = chk.last
                     /\ remaining' = remaining - chk.num
                     /\ UNCHANGED <<lastKey, chk>>
CheckpointRestore == /\ CheckpointUsable
                     /\ cursor' = chk.last + 1
                     /\ remaining' = remaining - chk.num
                     /\ UNCHANGED <<lastKey, chk>>
=============================================================================
