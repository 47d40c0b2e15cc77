---------------------------- MODULE MPIJob_proofs ----------------------------
(***************************************************************************)
(* Proofs about MPIJob for every number of receivers, records, workers,    *)
(* signals and jobs, and every chunk size and set of faults: its types,    *)
(* that no record goes to two workers, that a saved checkpoint is past     *)
(* what was handed out, that a resumed job is where its checkpoint says,   *)
(* and that the jobs implement RecordJob.                                  *)
(***************************************************************************)
EXTENDS MPIJobProperties, TLAPS

(***************************************************************************)
(* The source's own bounds, without which the types are not inductive:     *)
(* createWorkPackage() stays inside the store, and checkpointRestore()     *)
(* does not take more off the count than the file's keys account for.      *)
(***************************************************************************)
SourceInv ==
    /\ cursor + remaining =< NumRecords + 1
    /\ lastKey < cursor
    /\ chk.last =< chk.num
    /\ dpc = "restore" => cursor = 1 /\ remaining = NumRecords /\ lastKey = NoKey

TypeInv == TypeOK /\ SourceInv

(* Opening the checkpoint file makes a checkpoint of the right type.       *)
LEMMA OpenedType ==
    ASSUME NEW c \in Checkpoint, c.last =< c.num
    PROVE  /\ OpenedCheckpoint(c) \in Checkpoint
           /\ OpenedCheckpoint(c).last =< OpenedCheckpoint(c).num
           /\ StartLocation(c) \in {"restore", "barrier1"}
BY RecordStoreAssumption
   DEF OpenedCheckpoint, PidOnly, Checkpoint, NoKey, StartLocation

(* No file is a checkpoint too.                                            *)
LEMMA NoFileType == NoFile \in Checkpoint /\ NoFile.last = 0 /\ NoFile.num = 0
BY RecordStoreAssumption DEF NoFile, Checkpoint, NoKey

(* Channels start empty.                                                   *)
LEMMA EmptyChannels ==
    /\ [r \in Receivers |-> <<>>] \in [Receivers -> Seq(Message)]
    /\ [r \in Receivers |-> <<>>] \in [Receivers -> Seq(TaskStatus)]
OBVIOUS

(* A job starts within its types.                                          *)
LEMMA InitTypeInv == Init => TypeInv
<1> SUFFICES ASSUME Init PROVE TypeInv
  OBVIOUS
<1>1. chk \in Checkpoint /\ chk.last =< chk.num /\ dpc \in {"restore", "barrier1"}
  BY OpenedType, NoFileType DEF Init, SourceInit
<1>2. SourceTypeOK
  BY <1>1, RecordStoreAssumption DEF Init, SourceInit, SourceTypeOK, NoKey
<1>3. SourceInv
  BY <1>1, RecordStoreAssumption DEF Init, SourceInit, SourceInv, NoKey
<1>4. toD \in [Receivers -> Seq(TaskStatus)] /\ toR \in [Receivers -> Seq(Message)]
  BY EmptyChannels DEF Init
<1>5. /\ rpc \in [Receivers -> ReceiverPC]
      /\ rflags \in [Receivers -> SUBSET ExitConditions]
      /\ workers \in [Receivers -> 0 .. Workers]
      /\ status \in [Receivers -> TaskStatus]
      /\ pkg \in [Receivers -> SUBSET Records]
      /\ oob \in [Receivers -> {"None", "QuickExit", "TermExit"}]
  BY JobAssumption DEF Init, ReceiverPC, TaskStatus
<1>6. TypeOK
  BY <1>1, <1>2, <1>4, <1>5 DEF Init, TypeOK, DistributorPC, ExitConditions
<1> QED
  BY <1>3, <1>6 DEF TypeInv

(* The commands the distributor sends are messages.                        *)
LEMMA MessageType ==
    /\ \A c \in TaskCommand : Command(c) \in Message
    /\ \A p \in SUBSET Records : [cmd |-> "Continue", pkg |-> p] \in Message
    /\ \A m \in Message : m.pkg \subseteq Records
BY DEF Command, Message, TaskCommand

(* Sending and receiving keep the channels' types.                         *)
LEMMA ChannelType ==
    ASSUME toR \in [Receivers -> Seq(Message)], toD \in [Receivers -> Seq(TaskStatus)],
           NEW r \in Receivers
    PROVE  /\ \A m \in Message : SendTo(r, m) => toR' \in [Receivers -> Seq(Message)]
           /\ Heard(r) => /\ Head(toD[r]) \in TaskStatus
                          /\ Consume(r) => toD' \in [Receivers -> Seq(TaskStatus)]
           /\ toR[r] # <<>> => /\ Head(toR[r]) \in Message
                               /\ TakeReply(r) => toR' \in [Receivers -> Seq(Message)]
           /\ \A t \in TaskStatus : Report(r, t) => toD' \in [Receivers -> Seq(TaskStatus)]
<1>1. \A m \in Message : SendTo(r, m) => toR' \in [Receivers -> Seq(Message)]
  BY DEF SendTo
<1>2. Heard(r) => Head(toD[r]) \in TaskStatus /\ Tail(toD[r]) \in Seq(TaskStatus)
  BY DEF Heard
<1>3. toR[r] # <<>> => Head(toR[r]) \in Message /\ Tail(toR[r]) \in Seq(Message)
  OBVIOUS
<1>4. \A t \in TaskStatus : Report(r, t) => toD' \in [Receivers -> Seq(TaskStatus)]
  BY DEF Report
<1> QED
  BY <1>1, <1>2, <1>3, <1>4 DEF Consume, TakeReply

(* A dropped package holds records.                                        *)
LEMMA LosePType ==
    ASSUME TypeOK, NEW r \in Receivers, LoseP(r)
    PROVE  pkg' \in [Receivers -> SUBSET Records] /\ dropped' \subseteq Records
BY DEF TypeOK, LoseP

(* Every step keeps the types: one case per action.                        *)
LEMMA NextTypeInv == TypeInv /\ [Next]_vars => TypeInv'
<1> SUFFICES ASSUME TypeInv, [Next]_vars PROVE TypeInv'
  OBVIOUS
<1> USE RecordStoreAssumption, JobAssumption
        DEF TypeInv, TypeOK, SourceInv, SourceTypeOK, Records,
            sourceVars, distVars, recvVars, flagVars, jobVars, fateVars, GoTo, At
<1>1. ASSUME NextJob PROVE TypeInv'
  <2>1. /\ chk' \in Checkpoint /\ chk'.last =< chk'.num
        /\ dpc' \in {"restore", "barrier1"}
    BY <1>1, OpenedType DEF NextJob, SourceReopen
  <2>2. SourceTypeOK' /\ SourceInv'
    BY <1>1, <2>1 DEF NextJob, SourceReopen, NoKey
  <2>3. toD' \in [Receivers -> Seq(TaskStatus)] /\ toR' \in [Receivers -> Seq(Message)]
    BY <1>1, EmptyChannels DEF NextJob
  <2>4. /\ rpc' \in [Receivers -> ReceiverPC]
        /\ rflags' \in [Receivers -> SUBSET ExitConditions]
        /\ workers' \in [Receivers -> 0 .. Workers]
        /\ status' \in [Receivers -> TaskStatus]
        /\ pkg' \in [Receivers -> SUBSET Records]
        /\ oob' \in [Receivers -> {"None", "QuickExit", "TermExit"}]
    BY <1>1 DEF NextJob, ReceiverPC, TaskStatus
  <2>5. /\ earlier' \subseteq Records /\ handed' \subseteq Records
        /\ withheld' \subseteq Records /\ dropped' \subseteq Records
    BY <1>1 DEF NextJob
  <2>6. /\ job' \in Nat /\ signals' \in Nat /\ finals' \in Nat
        /\ exitCmd' \in ExitConditions /\ dflags' \subseteq ExitConditions
    BY <1>1, 0 \in Nat, 1 \in Nat DEF NextJob, ExitConditions
  <2>8. saved' \in BOOLEAN /\ haveWork' \in BOOLEAN
    BY <1>1 DEF NextJob
  <2>7. /\ active' \subseteq Receivers /\ awaited' \subseteq Receivers
        /\ posted' \subseteq Receivers /\ batch' \subseteq Receivers
        /\ dpc' \in DistributorPC
    BY <1>1, <2>1 DEF NextJob, DistributorPC
  <2> QED
    BY <2>2, <2>3, <2>4, <2>5, <2>6, <2>7, <2>8
<1>2. ASSUME DRestore PROVE TypeInv'
  BY <1>2, SMTT(40)
     DEF DRestore, CheckpointRestore, CheckpointUsable, Checkpoint, NoKey,
         DistributorPC
<1>3. ASSUME Barrier1 PROVE TypeInv'
  BY <1>3 DEF Barrier1, DistributorPC, ReceiverPC
<1>4. ASSUME DSendStart PROVE TypeInv'
  BY <1>4, MessageType DEF DSendStart, TaskCommand, DistributorPC
<1>5. ASSUME NEW r \in Receivers, DRecvStart(r) PROVE TypeInv'
  BY <1>5 DEF DRecvStart, Consume, Heard, DistributorPC
<1>6. ASSUME DStarted PROVE TypeInv'
  BY <1>6 DEF DStarted, DistributorPC
<1>7. ASSUME DTestsome PROVE TypeInv'
  BY <1>7 DEF DTestsome
<1>8. ASSUME NEW r \in Receivers, DTaskGone(r) PROVE TypeInv'
  BY <1>8, ChannelType DEF DTaskGone, Handles
<1>9. ASSUME NEW r \in Receivers, Handles(r, WantsWork), CreateWorkPackage
      PROVE  /\ PackageElements \subseteq Records
             /\ remaining' \in 0 .. NumRecords
             /\ cursor' \in 1 .. NumRecords + 1
             /\ cursor' + remaining' =< NumRecords + 1
             /\ lastKey' \in 0 .. NumRecords /\ lastKey' < cursor'
             /\ chk' = chk
  BY <1>9 DEF CreateWorkPackage, RecordLastKey, PackageElements, KeyCount
<1>10. ASSUME NEW r \in Receivers, DIgnore(r) PROVE TypeInv'
  BY <1>9, <1>10, ChannelType, MessageType DEF DIgnore, Handles, TaskCommand
<1>11. ASSUME NEW r \in Receivers, DSendPackage(r) PROVE TypeInv'
  BY <1>9, <1>11, ChannelType, MessageType DEF DSendPackage, Handles
<1>12. ASSUME NEW r \in Receivers, DTaskTerminates(r) PROVE TypeInv'
  BY <1>12, ChannelType DEF DTaskTerminates, Handles, ExitConditions
<1>13. ASSUME DLeaveLoop PROVE TypeInv'
  <2>1. SavedCheckpoint \in Checkpoint
    BY DEF SavedCheckpoint, Checkpoint
  <2>2. SavedCheckpoint.last =< SavedCheckpoint.num
    BY DEF SavedCheckpoint
  <2> QED
    BY <1>13, <2>1, <2>2 DEF DLeaveLoop, DistributorPC
<1>14. ASSUME DSendOOB PROVE TypeInv'
  BY <1>14 DEF DSendOOB, DistributorPC, ShutdownCommand
<1>15. ASSUME NEW r \in Receivers, DDrain(r) PROVE TypeInv'
  BY <1>15, ChannelType, MessageType DEF DDrain, TaskCommand
<1>16. ASSUME DBeginShutdown PROVE TypeInv'
  BY <1>16 DEF DBeginShutdown, DistributorPC, ShutdownCommand, ExitConditions
<1>17. ASSUME NEW r \in Receivers, DDismiss(r) PROVE TypeInv'
  BY <1>17, ChannelType, MessageType DEF DDismiss, TaskCommand
<1>18. ASSUME DArrive PROVE TypeInv'
  BY <1>18 DEF DArrive, DistributorPC
<1>19. ASSUME Barrier2 PROVE TypeInv'
  BY <1>19 DEF Barrier2, DistributorPC, ReceiverPC
<1>20. ASSUME NEW r \in Receivers, DFinal(r) PROVE TypeInv'
  BY <1>20 DEF DFinal, Consume, Heard
<1>21. ASSUME DEnd PROVE TypeInv'
  BY <1>21 DEF DEnd, DistributorPC, NoFile, Checkpoint, NoKey
<1>22. ASSUME NEW r \in Receivers, ROpenFails(r) PROVE TypeInv'
  BY <1>22 DEF ROpenFails, Report, ReceiverPC, TaskStatus
<1>23. ASSUME NEW r \in Receivers, RStartFails(r) PROVE TypeInv'
  BY <1>23 DEF RStartFails, Report, TakeReply, ReceiverPC, TaskStatus
<1>24. ASSUME NEW r \in Receivers, RStart(r) PROVE TypeInv'
  BY <1>24, SMTT(30) DEF RStart, Report, TakeReply, ReceiverPC, TaskStatus
<1>25. ASSUME NEW r \in Receivers, RExit(r) PROVE TypeInv'
  BY <1>25 DEF RExit, Report, ReceiverPC, TaskStatus
<1>26. ASSUME NEW r \in Receivers, RAsk(r) PROVE TypeInv'
  BY <1>26 DEF RAsk, Report, ReceiverPC, TaskStatus
<1>27. ASSUME NEW r \in Receivers, RReply(r) PROVE TypeInv'
  BY <1>27, ChannelType, MessageType, SMTT(30) DEF RReply, ReceiverPC
<1>28. ASSUME NEW r \in Receivers, RDeliveryFails(r) PROVE TypeInv'
  <2>1. workers' \in [Receivers -> 0 .. Workers]
    BY <1>28 DEF RDeliveryFails, Delivering
  <2> QED
    BY <1>28, <2>1, ChannelType, LosePType DEF RDeliveryFails, ReceiverPC, TaskStatus
<1>29. ASSUME NEW r \in Receivers, RDrop(r) PROVE TypeInv'
  <2>1. pkg' \in [Receivers -> SUBSET Records] /\ dropped' \subseteq Records
    BY <1>29, LosePType DEF RDrop
  <2>2. /\ rflags' \in [Receivers -> SUBSET ExitConditions]
        /\ oob' \in [Receivers -> {"None", "QuickExit", "TermExit"}]
    <3>1. CASE HurriedExit(rflags[r]) /\ UNCHANGED <<rflags, oob>>
      BY <3>1
    <3>2. CASE /\ oob[r] # "None"
               /\ rflags' = [rflags EXCEPT ![r] = @ \cup {oob[r]}]
               /\ oob' = [oob EXCEPT ![r] = "None"]
      <4>1. {oob[r]} \subseteq ExitConditions
        BY <3>2 DEF ExitConditions
      <4> QED
        BY <3>2, <4>1
    <3> QED
      BY <1>29, <3>1, <3>2 DEF RDrop
  <2> QED
    BY <1>29, <2>1, <2>2 DEF RDrop, ReceiverPC
<1>30. ASSUME NEW r \in Receivers, RHandOver(r) PROVE TypeInv'
  BY <1>30 DEF RHandOver, ReceiverPC
<1>31. ASSUME NEW r \in Receivers, RTerminate(r) PROVE TypeInv'
  <2>1. workers' \in [Receivers -> 0 .. Workers]
    BY <1>31 DEF RTerminate, Delivering
  <2> QED
    BY <1>31, <2>1, ChannelType, LosePType DEF RTerminate, ReceiverPC, TaskStatus
<1>32. ASSUME NEW r \in Receivers, RWorkerStops(r) PROVE TypeInv'
  BY <1>32 DEF RWorkerStops
<1>33. ASSUME NEW r \in Receivers, RStopWorkers(r) PROVE TypeInv'
  BY <1>33 DEF RStopWorkers, ReceiverPC
<1>34. ASSUME NEW r \in Receivers, RFinal(r) PROVE TypeInv'
  BY <1>34 DEF RFinal, Report, ReceiverPC
<1>35. ASSUME SignalD PROVE TypeInv'
  BY <1>35 DEF SignalD
<1>36. ASSUME NEW r \in Receivers, SignalR(r) PROVE TypeInv'
  BY <1>36 DEF SignalR
<1>37. ASSUME UNCHANGED vars PROVE TypeInv'
  BY <1>37 DEF vars
<1> QED
  BY <1>1, <1>2, <1>3, <1>4, <1>5, <1>6, <1>7, <1>8, <1>10, <1>11, <1>12, <1>13,
     <1>14, <1>15, <1>16, <1>17, <1>18, <1>19, <1>20, <1>21, <1>22, <1>23,
     <1>24, <1>25, <1>26, <1>27, <1>28, <1>29, <1>30, <1>31, <1>32, <1>33,
     <1>34, <1>35, <1>36, <1>37
     DEF Next, DistributorStep, ReceiverStep, FaultStep, Environment, Resume,
         Crash, Over

(* The types and the source's bounds hold in every reachable state.        *)
THEOREM TypeInvariant == Spec => []TypeInv
BY InitTypeInv, NextTypeInv, PTL DEF Spec

-----------------------------------------------------------------------------
(***************************************************************************)
(* The places a package of receiver r may be at: in its hands, 0, or in    *)
(* the i-th message on its Control channel.                                *)
(***************************************************************************)
Slots(r)     == 0 .. Len(toR[r])
Parcel(r, i) == IF i = 0 THEN pkg[r] ELSE toR[r][i].pkg

Early == {"restore", "failed"}
Later == {"oob", "drain", "shutdown", "barrier2", "final", "done"}

(***************************************************************************)
(* A package under way holds records taken off the store, by this job,     *)
(* that no worker was given.                                               *)
(***************************************************************************)
ParcelsFresh ==
    \A r \in Receivers : \A i \in Slots(r) : \A x \in Parcel(r, i) :
        x < cursor /\ x =< lastKey /\ x \notin handed /\ x \notin earlier

(* No record is in two packages under way.                                 *)
ParcelsDisjoint ==
    \A r, s \in Receivers : \A i \in Slots(r), j \in Slots(s) :
        r # s \/ i # j => Parcel(r, i) \cap Parcel(s, j) = {}

(* What workers were given was taken off the store before.                 *)
HandedBehind == \A x \in handed : x < cursor /\ x =< lastKey

(***************************************************************************)
(* Earlier jobs' records are behind the cursor once the checkpoint is      *)
(* restored, and the checkpoint file on disk covers them.                  *)
(***************************************************************************)
EarlierBehind ==
    /\ dpc \notin Early => \A x \in earlier :
                              x < cursor /\ (lastKey # NoKey => x =< lastKey)
    /\ chk.exists /\ CheckpointUsable => \A x \in earlier : x =< chk.last
    /\ chk.exists => CheckpointEnable
    /\ dpc = "restore" => chk.exists

(***************************************************************************)
(* A checkpoint this job saved covers what it handed out or still carries: *)
(* distributeWork() sends nothing after the save.                          *)
(***************************************************************************)
SavedCovers ==
    saved => /\ dpc \in Later
             /\ chk.exists /\ CheckpointUsable =>
                  /\ \A x \in handed : x =< chk.last
                  /\ \A r \in Receivers : \A i \in Slots(r) :
                       \A x \in Parcel(r, i) : x =< chk.last

(***************************************************************************)
(* Where every record is accounted for: the inductive invariant behind     *)
(* RecordsProcessedOnce and CheckpointPastHandedOut.                       *)
(***************************************************************************)
AccountInv == /\ ParcelsFresh /\ ParcelsDisjoint /\ HandedBehind
              /\ EarlierBehind /\ SavedCovers

(* Every parcel that is left is one that was there, in the same place.     *)
ParcelsStay ==
    \A r \in Receivers : \A i \in Slots(r)' :
        \/ Parcel(r, i)' = {}
        \/ i \in Slots(r) /\ Parcel(r, i)' = Parcel(r, i)

(* A package holds records of the store.                                   *)
LEMMA ParcelType ==
    ASSUME TypeOK, NEW r \in Receivers, NEW i \in Slots(r)
    PROVE  Parcel(r, i) \subseteq Records
<1>1. CASE i = 0
  BY <1>1 DEF Parcel, TypeOK
<1>2. CASE i # 0
  <2>1. toR[r][i] \in Message
    BY <1>2 DEF TypeOK, Slots
  <2> QED
    BY <1>2, <2>1, MessageType DEF Parcel
<1> QED
  BY <1>1, <1>2

(* Packages that only stay or disappear stay fresh and disjoint.           *)
LEMMA StayFresh ==
    ASSUME TypeOK, TypeOK', ParcelsFresh, ParcelsDisjoint, ParcelsStay,
           cursor =< cursor', lastKey =< lastKey',
           handed' = handed, earlier' = earlier
    PROVE  ParcelsFresh' /\ ParcelsDisjoint'
<1>1. ParcelsFresh'
  <2> SUFFICES ASSUME NEW r \in Receivers, NEW i \in Slots(r)', NEW x \in Parcel(r, i)'
               PROVE  x < cursor' /\ x =< lastKey' /\ x \notin handed' /\ x \notin earlier'
    BY DEF ParcelsFresh
  <2>1. i \in Slots(r) /\ x \in Parcel(r, i)
    BY DEF ParcelsStay
  <2>2. x \in Nat /\ x < cursor /\ x =< lastKey /\ x \notin handed /\ x \notin earlier
    BY <2>1, ParcelType DEF ParcelsFresh, Records
  <2> QED
    BY <2>2, RecordStoreAssumption DEF TypeOK, SourceTypeOK
<1>2. ParcelsDisjoint'
  BY DEF ParcelsDisjoint, ParcelsStay
<1> QED
  BY <1>1, <1>2

(* Sending a message adds its package behind the others.                   *)
LEMMA SendParcels ==
    ASSUME TypeOK, NEW r \in Receivers, NEW m \in Message, SendTo(r, m), pkg' = pkg
    PROVE  \A s \in Receivers : \A i \in Slots(s)' :
             \/ s = r /\ i = Len(toR[r]) + 1 /\ Parcel(s, i)' = m.pkg
             \/ i \in Slots(s) /\ Parcel(s, i)' = Parcel(s, i)
BY DEF TypeOK, SendTo, Slots, Parcel

(* Taking a reply moves the packages behind it up by one.                  *)
LEMMA TakeParcels ==
    ASSUME TypeOK, NEW r \in Receivers, toR[r] # <<>>, TakeReply(r)
    PROVE  /\ \A s \in Receivers \ {r} : Slots(s)' = Slots(s) /\ \A i \in Slots(s) :
                i # 0 => Parcel(s, i)' = Parcel(s, i)
           /\ \A i \in Slots(r)' : i + 1 \in Slots(r)
           /\ \A i \in Slots(r)' \ {0} : Parcel(r, i)' = Parcel(r, i + 1)
           /\ Head(toR[r]).pkg = Parcel(r, 1)
BY DEF TypeOK, TakeReply, Slots, Parcel

(* What the steps below do to the source and to the distributor's place.   *)
KeyMoves == \/ UNCHANGED <<cursor, lastKey>>
            \/ /\ dpc = "distribute" /\ cursor =< cursor'
               /\ (lastKey' = lastKey \/ cursor =< lastKey')
PlaceMoves == \/ dpc' = dpc
              \/ dpc \notin Early \cup Later /\ dpc' \notin Early
              \/ dpc \in Later /\ dpc' \in Later

(***************************************************************************)
(* A step that adds no package, and moves neither the store nor the        *)
(* distributor out of order, keeps the account.                            *)
(***************************************************************************)
LEMMA StayAccount ==
    ASSUME TypeInv, TypeInv', AccountInv, ParcelsStay,
           UNCHANGED <<handed, earlier, chk, saved>>,
           KeyMoves, PlaceMoves
    PROVE  AccountInv'
<1> USE DEF TypeInv, TypeOK, SourceInv, SourceTypeOK, AccountInv
<1>1. lastKey =< lastKey' /\ lastKey \in Nat /\ lastKey' \in Nat
      /\ cursor \in Nat /\ cursor' \in Nat /\ cursor =< cursor'
  BY RecordStoreAssumption DEF KeyMoves
<1>2. ParcelsFresh' /\ ParcelsDisjoint'
  BY <1>1, StayFresh
<1>3. handed \subseteq Nat /\ earlier \subseteq Nat
  BY DEF Records
<1>4. HandedBehind'
  BY <1>1, <1>3 DEF HandedBehind
<1>5. EarlierBehind'
  <2>1. \/ UNCHANGED <<cursor, lastKey>>
        \/ dpc = "distribute" /\ (lastKey' = lastKey \/ cursor =< lastKey')
    BY DEF KeyMoves
  <2>2. (dpc' \in Early \/ dpc \in Early) => dpc' = dpc
    BY DEF PlaceMoves, Early, Later
  <2>3. ASSUME dpc' \notin Early, NEW x \in earlier'
        PROVE  x < cursor' /\ (lastKey' # NoKey => x =< lastKey')
    <3>1. x \in Nat /\ x < cursor /\ (lastKey # NoKey => x =< lastKey)
      BY <2>2, <2>3, <1>3 DEF EarlierBehind
    <3> QED
      BY <3>1, <2>1, <1>1
  <2>4. dpc' = "restore" => chk'.exists
    BY <2>2 DEF EarlierBehind, Early
  <2> QED
    BY <2>3, <2>4 DEF EarlierBehind, CheckpointUsable
<1>6. SavedCovers'
  <2> SUFFICES ASSUME saved PROVE SavedCovers'
    BY DEF SavedCovers
  <2>1. dpc' \in Later
    BY DEF SavedCovers, PlaceMoves
  <2>2. ASSUME chk.exists, CheckpointUsable, NEW r \in Receivers,
               NEW i \in Slots(r)', NEW x \in Parcel(r, i)'
        PROVE  x =< chk.last
    <3>1. i \in Slots(r) /\ x \in Parcel(r, i)
      BY <2>2 DEF ParcelsStay
    <3> QED
      BY <2>2, <3>1 DEF SavedCovers
  <2> QED
    BY <2>1, <2>2 DEF SavedCovers, CheckpointUsable
<1> QED
  BY <1>2, <1>4, <1>5, <1>6

(* The first parcel of a channel leaves it, perhaps into the receiver's    *)
(* hands: the account is kept.                                             *)
LEMMA TakeAccount ==
    ASSUME TypeInv, TypeInv', AccountInv, NEW r \in Receivers,
           toR[r] # <<>>, TakeReply(r),
           pkg' = pkg \/ pkg' = [pkg EXCEPT ![r] = Head(toR[r]).pkg],
           UNCHANGED <<handed, earlier, chk, saved, cursor, lastKey, dpc>>
    PROVE  AccountInv'
<1> DEFINE From(s, i) == IF s = r /\ (i # 0 \/ pkg' # pkg) THEN i + 1 ELSE i
<1>1. \A s \in Receivers : \A i \in Slots(s)' :
        From(s, i) \in Slots(s) /\ Parcel(s, i)' = Parcel(s, From(s, i))
  <2> SUFFICES ASSUME NEW s \in Receivers, NEW i \in Slots(s)'
               PROVE  From(s, i) \in Slots(s) /\ Parcel(s, i)' = Parcel(s, From(s, i))
    OBVIOUS
  <2>1. CASE i # 0
    BY <2>1, TakeParcels DEF TypeInv
  <2>2. CASE i = 0 /\ (s # r \/ pkg' = pkg)
    BY <2>2 DEF Parcel, Slots, TypeInv, TypeOK
  <2>3. CASE i = 0 /\ s = r /\ pkg' # pkg
    BY <2>3, TakeParcels DEF Parcel, TypeInv, TypeOK
  <2> QED
    BY <2>1, <2>2, <2>3
<1>2. \A s, t \in Receivers : \A i \in Slots(s)', j \in Slots(t)' :
        s # t \/ i # j => s # t \/ From(s, i) # From(t, j)
  <2> SUFFICES ASSUME NEW s \in Receivers, NEW t \in Receivers,
                      NEW i \in Slots(s)', NEW j \in Slots(t)', s = t, i # j
               PROVE  From(s, i) # From(t, j)
    BY Zenon
  <2>1. i \in Nat /\ j \in Nat
    BY DEF Slots
  <2> QED
    BY <2>1
<1> HIDE DEF From
<1>3. ParcelsFresh'
  BY <1>1 DEF AccountInv, ParcelsFresh
<1>4. ParcelsDisjoint'
  BY <1>1, <1>2 DEF AccountInv, ParcelsDisjoint
<1>5. HandedBehind' /\ EarlierBehind'
  BY DEF AccountInv, HandedBehind, EarlierBehind, CheckpointUsable
<1>6. SavedCovers'
  BY <1>1 DEF AccountInv, SavedCovers, CheckpointUsable
<1> QED
  BY <1>3, <1>4, <1>5, <1>6 DEF AccountInv

(* Nothing sent, nothing taken: the packages stay.                         *)
LEMMA SameParcels == UNCHANGED <<toR, pkg>> => ParcelsStay
BY DEF ParcelsStay, Slots, Parcel

(* A command without a package leaves the packages alone.                  *)
LEMMA SendEmpty ==
    ASSUME TypeOK, NEW r \in Receivers, NEW c \in TaskCommand,
           SendTo(r, Command(c)), pkg' = pkg
    PROVE  ParcelsStay
BY SendParcels, MessageType DEF ParcelsStay, Command

(* A package that is dropped leaves the others alone.                      *)
LEMMA LoseParcels ==
    ASSUME TypeOK, NEW r \in Receivers, pkg' = [pkg EXCEPT ![r] = {}], toR' = toR
    PROVE  ParcelsStay
BY DEF TypeOK, ParcelsStay, Slots, Parcel

(* The account is empty at the start.                                      *)
LEMMA InitAccount == Init => AccountInv
<1> SUFFICES ASSUME Init PROVE AccountInv
  OBVIOUS
<1>1. \A r \in Receivers : \A i \in Slots(r) : Parcel(r, i) = {}
  BY DEF Init, Slots, Parcel
<1>2. ParcelsFresh /\ ParcelsDisjoint /\ HandedBehind /\ SavedCovers
  BY <1>1 DEF Init, ParcelsFresh, ParcelsDisjoint, HandedBehind, SavedCovers
<1>3. EarlierBehind
  BY RecordStoreAssumption
     DEF Init, SourceInit, EarlierBehind, OpenedCheckpoint, NoFile, PidOnly,
         StartLocation
<1> QED
  BY <1>2, <1>3 DEF AccountInv

(***************************************************************************)
(* Every step keeps the account: the steps that send, take, hand over or   *)
(* drop a package, the ones that save, restore or remove the checkpoint,   *)
(* and the rest, which leave all of it alone.                              *)
(***************************************************************************)
LEMMA NextAccount == TypeInv /\ TypeInv' /\ AccountInv /\ [Next]_vars => AccountInv'
<1> SUFFICES ASSUME TypeInv, TypeInv', AccountInv, [Next]_vars PROVE AccountInv'
  OBVIOUS
<1>a. cursor \in Nat /\ lastKey \in Nat /\ TypeOK
  BY RecordStoreAssumption DEF TypeInv, TypeOK, SourceTypeOK
<1> DEFINE Kept == /\ UNCHANGED <<toR, pkg, handed, earlier, chk, saved, cursor, lastKey>>
                   /\ PlaceMoves
<1>k. Kept => AccountInv'
  BY <1>a, SameParcels, StayAccount DEF KeyMoves
<1> HIDE DEF Kept
<1>1. ASSUME NextJob PROVE AccountInv'
  <2>1. \A r \in Receivers : \A i \in Slots(r)' : Parcel(r, i)' = {}
    BY <1>1 DEF NextJob, Slots, Parcel
  <2>2. ParcelsFresh' /\ ParcelsDisjoint' /\ HandedBehind' /\ SavedCovers'
    BY <1>1, <2>1 DEF NextJob, ParcelsFresh, ParcelsDisjoint, HandedBehind, SavedCovers
  <2>3. CASE chk.exists
    <3>1. dpc' \in Early /\ chk' = chk
      BY <1>1, <2>3 DEF NextJob, StartLocation, SourceReopen, OpenedCheckpoint,
                        Early, AccountInv, EarlierBehind
    <3>2. CheckpointUsable => \A x \in earlier' : x =< chk.last
      BY <1>1, <2>3 DEF NextJob, AccountInv, EarlierBehind, SavedCovers
    <3> QED
      BY <2>2, <2>3, <3>1, <3>2 DEF AccountInv, EarlierBehind, CheckpointUsable
  <2>4. CASE ~chk.exists
    <3>1. earlier' = {} /\ (chk'.exists => CheckpointEnable) /\ dpc' # "restore"
      BY <1>1, <2>4 DEF NextJob, SourceReopen, OpenedCheckpoint, StartLocation
    <3> QED
      BY <2>2, <3>1 DEF AccountInv, EarlierBehind
  <2> QED
    BY <2>3, <2>4
<1>2. ASSUME DRestore PROVE AccountInv'
  <2>1. \A r \in Receivers : \A i \in Slots(r) : Parcel(r, i) = {}
    BY <1>2, <1>a, ParcelType
       DEF DRestore, TypeInv, SourceInv, AccountInv, ParcelsFresh, NoKey, Records
  <2>2. handed = {}
    BY <1>2, <1>a DEF DRestore, TypeInv, TypeOK, SourceInv, AccountInv, HandedBehind,
                      NoKey, Records
  <2>3. ParcelsFresh' /\ ParcelsDisjoint'
    <3>1. \A r \in Receivers : Slots(r)' = Slots(r) /\ \A i \in Slots(r) : Parcel(r, i)' = {}
      BY <1>2, <2>1 DEF DRestore, Slots, Parcel, recvVars
    <3> QED
      BY <3>1 DEF ParcelsFresh, ParcelsDisjoint
  <2>4. HandedBehind' /\ SavedCovers'
    BY <1>2, <2>2 DEF DRestore, HandedBehind, AccountInv, SavedCovers, Later, fateVars
  <2>5. EarlierBehind'
    <3>1. CASE CheckpointRestore /\ dpc' = "barrier1"
      <4>1. chk.exists
        BY <1>2 DEF DRestore, AccountInv, EarlierBehind
      <4>2. earlier \subseteq Nat /\ \A x \in earlier : x =< chk.last
        BY <3>1, <4>1, <1>a DEF AccountInv, EarlierBehind, CheckpointRestore, TypeOK, Records
      <4>3. cursor' = chk.last + 1 /\ chk.last \in Nat /\ lastKey' = NoKey
        BY <1>2, <3>1, <1>a DEF DRestore, CheckpointRestore, TypeInv, TypeOK, SourceInv,
                            SourceTypeOK, Checkpoint
      <4>4. earlier' = earlier /\ chk' = chk /\ dpc' = "barrier1"
        BY <1>2, <3>1 DEF DRestore, CheckpointRestore, jobVars
      <4> QED
        BY <4>1, <4>2, <4>3, <4>4
           DEF AccountInv, EarlierBehind, CheckpointUsable, Early
    <3>2. CASE ~CheckpointUsable /\ dpc' = "failed" /\ UNCHANGED sourceVars
      BY <1>2, <3>2 DEF DRestore, AccountInv, EarlierBehind, CheckpointUsable,
                        Early, sourceVars, jobVars
    <3> QED
      BY <1>2, <3>1, <3>2 DEF DRestore
  <2> QED
    BY <2>3, <2>4, <2>5 DEF AccountInv
<1>3. ASSUME DSendStart PROVE AccountInv'
  <2>1. ParcelsStay
    BY <1>3, <1>a DEF DSendStart, recvVars, ParcelsStay, Slots, Parcel, Command, TypeOK
  <2> QED
    BY <1>3, <1>a, <2>1, StayAccount
       DEF DSendStart, sourceVars, jobVars, fateVars, Early, Later, KeyMoves, PlaceMoves
<1>4. ASSUME NEW r \in Receivers, DIgnore(r) PROVE AccountInv'
  <2>1. ParcelsStay
    BY <1>4, <1>a, SendEmpty DEF DIgnore, recvVars, TaskCommand
  <2>2. cursor =< cursor' /\ (lastKey' = lastKey \/ cursor =< lastKey')
    BY <1>4, <1>a, RecordStoreAssumption
       DEF DIgnore, CreateWorkPackage, RecordLastKey, PackageElements, KeyCount,
           TypeInv, TypeOK, SourceTypeOK
  <2> QED
    BY <1>4, <1>a, <2>1, <2>2, StayAccount
       DEF DIgnore, Handles, CreateWorkPackage, jobVars, KeyMoves, PlaceMoves
<1>5. ASSUME NEW r \in Receivers, DSendPackage(r) PROVE AccountInv'
  <2> DEFINE m == [cmd |-> "Continue", pkg |-> PackageElements]
             New(s, i) == s = r /\ i = Len(toR[r]) + 1
  <2>1. /\ cursor \in Nat /\ cursor' \in Nat /\ lastKey' \in Nat /\ lastKey < cursor
        /\ cursor =< lastKey' /\ cursor =< cursor'
        /\ \A x \in PackageElements : x \in Records /\ cursor =< x /\ x =< lastKey' /\ x < cursor'
    BY <1>5, RecordStoreAssumption
       DEF DSendPackage, CreateWorkPackage, RecordLastKey, PackageElements, KeyCount,
           TypeInv, TypeOK, SourceTypeOK, SourceInv, Records
  <2>2. \A s \in Receivers : \A i \in Slots(s)' :
          \/ New(s, i) /\ Parcel(s, i)' = PackageElements
          \/ ~New(s, i) /\ i \in Slots(s) /\ Parcel(s, i)' = Parcel(s, i)
    <3>1. m \in Message
      BY <2>1, MessageType
    <3>2. \A i \in Slots(r) : i # Len(toR[r]) + 1
      BY <1>a DEF Slots, TypeOK
    <3> QED
      BY <1>5, <1>a, <3>1, <3>2, SendParcels DEF DSendPackage, recvVars
  <2>3. dpc = "distribute" /\ dpc' = dpc /\ handed' = handed /\ earlier' = earlier
        /\ chk' = chk /\ saved' = saved
    BY <1>5 DEF DSendPackage, Handles, CreateWorkPackage, jobVars, fateVars
  <2>4. \A x \in Records : x \in Nat
    BY DEF Records
  <2>5. \A x \in handed : x \in Nat /\ x < cursor /\ x =< lastKey
    BY <1>a, <2>4 DEF TypeOK, AccountInv, HandedBehind
  <2>6. \A x \in earlier : x \in Nat /\ x < cursor
    BY <1>a, <2>3, <2>4 DEF TypeOK, AccountInv, EarlierBehind, Early
  <2>7. \A s \in Receivers : \A i \in Slots(s) : \A x \in Parcel(s, i) :
          x \in Nat /\ x < cursor /\ x =< lastKey
    BY <1>a, <2>4, ParcelType DEF AccountInv, ParcelsFresh
  <2>8. ParcelsFresh'
    <3> SUFFICES ASSUME NEW s \in Receivers, NEW i \in Slots(s)', NEW x \in Parcel(s, i)'
                 PROVE  x < cursor' /\ x =< lastKey' /\ x \notin handed' /\ x \notin earlier'
      BY DEF ParcelsFresh
    <3>1. CASE New(s, i)
      <4>1. x \in PackageElements
        BY <2>2, <3>1
      <4> QED
        BY <4>1, <2>1, <2>3, <2>4, <2>5, <2>6
    <3>2. CASE ~New(s, i)
      <4>1. i \in Slots(s) /\ x \in Parcel(s, i)
        BY <2>2, <3>2
      <4>2. x \notin handed /\ x \notin earlier
        BY <4>1 DEF AccountInv, ParcelsFresh
      <4> QED
        BY <4>1, <4>2, <2>1, <2>3, <2>7, <1>a
    <3> QED
      BY <3>1, <3>2
  <2>9. ParcelsDisjoint'
    <3>1. \A s \in Receivers : \A i \in Slots(s) : Parcel(s, i) \cap PackageElements = {}
      BY <2>1, <2>4, <2>7
    <3>2. \A s, t \in Receivers : \A i, j : New(s, i) /\ New(t, j) => s = t /\ i = j
      OBVIOUS
    <3> HIDE DEF New
    <3> QED
      BY <2>2, <3>1, <3>2 DEF AccountInv, ParcelsDisjoint
  <2>10. HandedBehind'
    BY <2>1, <2>3, <2>5, <1>a DEF HandedBehind
  <2>11. EarlierBehind'
    BY <2>1, <2>3, <2>6 DEF AccountInv, EarlierBehind, CheckpointUsable
  <2>12. SavedCovers'
    BY <2>3 DEF AccountInv, SavedCovers, Later
  <2> QED
    BY <2>8, <2>9, <2>10, <2>11, <2>12 DEF AccountInv
<1>6. ASSUME DLeaveLoop PROVE AccountInv'
  <2>1. /\ UNCHANGED <<toR, pkg, handed, earlier, cursor, lastKey>>
        /\ dpc = "distribute" /\ dpc' = "oob"
    BY <1>6 DEF DLeaveLoop, InLoop, recvVars, jobVars
  <2>2. CASE UNCHANGED <<chk, saved>>
    <3>1. PlaceMoves
      BY <2>1 DEF PlaceMoves, Early, Later
    <3>2. KeyMoves
      BY <2>1, <1>a DEF KeyMoves
    <3> QED
      BY <2>1, <2>2, <3>1, <3>2, SameParcels, StayAccount
  <2>3. CASE CheckpointEnable /\ chk' = SavedCheckpoint /\ saved'
    <3>1. \A r \in Receivers : Slots(r)' = Slots(r)
                              /\ \A i \in Slots(r) : Parcel(r, i)' = Parcel(r, i)
      BY <2>1 DEF Slots, Parcel
    <3>2. ParcelsFresh' /\ ParcelsDisjoint' /\ HandedBehind'
      BY <2>1, <3>1 DEF AccountInv, ParcelsFresh, ParcelsDisjoint, HandedBehind
    <3>3. chk'.exists /\ chk'.last = lastKey
      BY <2>3 DEF SavedCheckpoint
    <3>4. EarlierBehind'
      BY <2>1, <2>3, <3>3 DEF AccountInv, EarlierBehind, CheckpointUsable, Early
    <3>5. SavedCovers'
      BY <2>1, <3>1, <3>3
         DEF AccountInv, SavedCovers, ParcelsFresh, HandedBehind, Later
    <3> QED
      BY <3>2, <3>4, <3>5 DEF AccountInv
  <2> QED
    BY <1>6, <2>2, <2>3 DEF DLeaveLoop
<1>7. ASSUME NEW r \in Receivers, DDrain(r) PROVE AccountInv'
  <2>1. ParcelsStay
    BY <1>7, <1>a, SendEmpty, SameParcels DEF DDrain, recvVars, TaskCommand
  <2> QED
    BY <1>7, <1>a, <2>1, StayAccount
       DEF DDrain, sourceVars, jobVars, fateVars, KeyMoves, PlaceMoves
<1>8. ASSUME NEW r \in Receivers, DDismiss(r) PROVE AccountInv'
  <2>1. ParcelsStay
    BY <1>8, <1>a, SendEmpty DEF DDismiss, recvVars, TaskCommand, TypeOK
  <2> QED
    BY <1>8, <1>a, <2>1, StayAccount
       DEF DDismiss, sourceVars, jobVars, fateVars, KeyMoves, PlaceMoves
<1>9. ASSUME DEnd PROVE AccountInv'
  <2>1. /\ UNCHANGED <<toR, pkg, handed, earlier, cursor, lastKey, saved>>
        /\ dpc = "final" /\ dpc' = "done"
    BY <1>9 DEF DEnd, recvVars, jobVars, fateVars
  <2>2. CASE chk' = chk
    <3>1. PlaceMoves
      BY <2>1 DEF PlaceMoves, Later
    <3>2. KeyMoves
      BY <2>1, <1>a DEF KeyMoves
    <3> QED
      BY <2>1, <2>2, <3>1, <3>2, SameParcels, StayAccount
  <2>3. CASE chk' = NoFile
    <3>1. \A r \in Receivers : Slots(r)' = Slots(r)
                              /\ \A i \in Slots(r) : Parcel(r, i)' = Parcel(r, i)
      BY <2>1 DEF Slots, Parcel
    <3>2. ParcelsFresh' /\ ParcelsDisjoint' /\ HandedBehind'
      BY <2>1, <3>1 DEF AccountInv, ParcelsFresh, ParcelsDisjoint, HandedBehind
    <3>3. ~chk'.exists
      BY <2>3 DEF NoFile
    <3>4. EarlierBehind' /\ SavedCovers'
      BY <2>1, <3>3 DEF AccountInv, EarlierBehind, SavedCovers, Early, Later
    <3> QED
      BY <3>2, <3>4 DEF AccountInv
  <2> QED
    BY <1>9, <2>2, <2>3 DEF DEnd
<1>10. ASSUME NEW r \in Receivers, RStartFails(r) \/ RStart(r) \/ RReply(r) PROVE AccountInv'
  BY <1>10, TakeAccount DEF RStartFails, RStart, RReply, distVars, sourceVars, jobVars, fateVars
<1>11. ASSUME NEW r \in Receivers, RDeliveryFails(r) \/ RDrop(r) \/ RTerminate(r) PROVE AccountInv'
  <2>1. ParcelsStay
    BY <1>11, <1>a, LoseParcels DEF RDeliveryFails, RDrop, RTerminate, LoseP
  <2> QED
    BY <1>11, <1>a, <2>1, StayAccount
       DEF RDeliveryFails, RDrop, RTerminate, distVars, sourceVars, jobVars, KeyMoves, PlaceMoves
<1>12. ASSUME NEW r \in Receivers, RHandOver(r) PROVE AccountInv'
  <2>1. /\ UNCHANGED <<toR, earlier, cursor, lastKey, chk, saved, dpc>>
        /\ handed' = handed \cup Parcel(r, 0)
        /\ pkg' = [pkg EXCEPT ![r] = {}]
    BY <1>12 DEF RHandOver, distVars, sourceVars, jobVars, Parcel
  <2>2. \A s \in Receivers : \A i \in Slots(s)' :
          \/ s = r /\ i = 0 /\ Parcel(s, i)' = {}
          \/ (s # r \/ i # 0) /\ i \in Slots(s) /\ Parcel(s, i)' = Parcel(s, i)
    BY <2>1, <1>a DEF Slots, Parcel, TypeOK
  <2>3. 0 \in Slots(r)
    BY <1>a DEF Slots, TypeOK
  <2>4. ParcelsFresh'
    BY <2>1, <2>2, <2>3 DEF AccountInv, ParcelsFresh, ParcelsDisjoint
  <2>5. ParcelsDisjoint'
    BY <2>2 DEF AccountInv, ParcelsDisjoint
  <2>6. HandedBehind'
    BY <2>1, <2>3 DEF AccountInv, HandedBehind, ParcelsFresh
  <2>7. EarlierBehind'
    BY <2>1 DEF AccountInv, EarlierBehind, CheckpointUsable
  <2>8. SavedCovers'
    BY <2>1, <2>2, <2>3 DEF AccountInv, SavedCovers, CheckpointUsable
  <2> QED
    BY <2>4, <2>5, <2>6, <2>7, <2>8 DEF AccountInv
<1>13. ASSUME Barrier1 \/ DStarted \/ DTestsome \/ DSendOOB \/ DBeginShutdown
              \/ DArrive \/ Barrier2 \/ SignalD \/ UNCHANGED vars
       PROVE  Kept
  BY <1>13 DEF Kept, Barrier1, DStarted, DTestsome, DSendOOB, DBeginShutdown, DArrive,
     Barrier2, SignalD, vars, distVars, sourceVars, recvVars, jobVars, fateVars, Early, Later, PlaceMoves
<1>14. ASSUME NEW r \in Receivers,
              DRecvStart(r) \/ DTaskGone(r) \/ DTaskTerminates(r) \/ DFinal(r)
              \/ ROpenFails(r) \/ RExit(r) \/ RAsk(r) \/ RWorkerStops(r)
              \/ RStopWorkers(r) \/ RFinal(r) \/ SignalR(r)
       PROVE  Kept
  BY <1>14 DEF Kept, DRecvStart, DTaskGone, DTaskTerminates, DFinal, ROpenFails, RExit, RAsk,
     RWorkerStops, RStopWorkers, RFinal, SignalR, distVars, sourceVars, recvVars, jobVars, fateVars,
     PlaceMoves
<1> QED
  BY <1>k, <1>1, <1>2, <1>3, <1>4, <1>5, <1>6, <1>7, <1>8, <1>9, <1>10, <1>11, <1>12,
     <1>13, <1>14
     DEF Next, DistributorStep, ReceiverStep, FaultStep, Environment, Resume, Crash, Over
-----------------------------------------------------------------------------
(***************************************************************************)
(* The accounting invariant holds in every reachable state.                *)
(***************************************************************************)
THEOREM AccountCorrect == Spec => [](TypeInv /\ AccountInv)
<1>1. Init => TypeInv /\ AccountInv
  BY InitTypeInv, InitAccount
<1>2. TypeInv /\ AccountInv /\ [Next]_vars => (TypeInv /\ AccountInv)'
  BY NextTypeInv, NextAccount
<1> QED
  BY <1>1, <1>2, PTL DEF Spec

(* What a receiver carries is what its slots hold.                         *)
LEMMA CarriedParcels ==
    ASSUME TypeOK, NEW r \in Receivers, NEW x \in Carried(r)
    PROVE  \E i \in Slots(r) : x \in Parcel(r, i)
<1>1. CASE x \in pkg[r]
  BY <1>1 DEF Slots, Parcel, TypeOK
<1>2. CASE x \notin pkg[r]
  <2>1. PICK i \in 1 .. Len(toR[r]) : x \in toR[r][i].pkg
    BY <1>2 DEF Carried
  <2> QED
    BY <2>1 DEF Slots, Parcel, TypeOK
<1> QED
  BY <1>1, <1>2

(***************************************************************************)
(* The variables of every reachable state have their types: in particular  *)
(* the count of remaining records never goes below zero and the cursor     *)
(* never passes the end of the store, also after a restore.                *)
(***************************************************************************)
THEOREM TypeCorrect == Spec => []TypeOK
<1>1. TypeInv => TypeOK
  BY DEF TypeInv
<1> QED
  BY <1>1, TypeInvariant, PTL

(***************************************************************************)
(* No record is given to two workers, within a job or across the jobs that *)
(* resume a saved checkpoint: for any number of receivers, records, chunk  *)
(* size, signals and faults, whatever records cannot be read.              *)
(***************************************************************************)
THEOREM ProcessedOnce == Spec => []RecordsProcessedOnce
<1>1. ASSUME TypeInv, AccountInv PROVE RecordsProcessedOnce
  <2>1. \A r \in Receivers : Carried(r) \cap (handed \cup earlier) = {}
    BY <1>1, CarriedParcels DEF TypeInv, AccountInv, ParcelsFresh
  <2>2. \A r \in Receivers : \A s \in Receivers \ {r} : Carried(r) \cap Carried(s) = {}
    BY <1>1, CarriedParcels DEF TypeInv, AccountInv, ParcelsDisjoint
  <2> QED
    BY <2>1, <2>2 DEF RecordsProcessedOnce
<1> QED
  BY <1>1, AccountCorrect, PTL

(***************************************************************************)
(* A saved checkpoint is never before a record that was handed out, or is  *)
(* on its way to a worker, when the job it was saved by goes on to end.    *)
(***************************************************************************)
THEOREM CheckpointCovers == Spec => []CheckpointPastHandedOut
<1>1. ASSUME TypeInv, AccountInv PROVE CheckpointPastHandedOut
  <2> SUFFICES ASSUME chk.exists, CheckpointUsable,
                      NEW x \in earlier \cup
                            (IF saved
                               THEN handed \cup UNION {Carried(r) : r \in Receivers}
                               ELSE {})
               PROVE  x =< chk.last
    BY DEF CheckpointPastHandedOut
  <2>1. CASE x \in earlier
    BY <1>1, <2>1 DEF AccountInv, EarlierBehind
  <2>2. CASE saved /\ x \in handed
    BY <1>1, <2>2 DEF AccountInv, SavedCovers
  <2>3. ASSUME saved, NEW r \in Receivers, x \in Carried(r) PROVE x =< chk.last
    BY <1>1, <2>3, CarriedParcels DEF TypeInv, AccountInv, SavedCovers
  <2> QED
    BY <2>1, <2>2, <2>3
<1> QED
  BY <1>1, AccountCorrect, PTL

-----------------------------------------------------------------------------
(***************************************************************************)
(* Where the store stands, when every record can be read: the last key is  *)
(* right behind the cursor, and the checkpoint counts up to its last key.  *)
(* An unreadable record breaks both, because it is counted as distributed  *)
(* and does not become the last key.                                       *)
(***************************************************************************)
AlignedInv ==
    /\ dpc \notin Early => cursor + remaining = NumRecords + 1
    /\ dpc \notin Early /\ lastKey # NoKey => lastKey = cursor - 1
    /\ CheckpointUsable => chk.num = chk.last

(* Every step keeps the cursor, the last key and the checkpoint aligned.   *)
LEMMA NextAligned ==
    ASSUME Unreadable = {}, TypeInv, TypeInv', AlignedInv, [Next]_vars
    PROVE  AlignedInv'
<1> USE RecordStoreAssumption
    DEF TypeInv, TypeOK, SourceInv, SourceTypeOK, Checkpoint, AlignedInv, Early, NoKey,
        CheckpointUsable
<1>1. ASSUME NextJob PROVE AlignedInv'
  <2>1. /\ cursor' = 1 /\ remaining' = NumRecords /\ lastKey' = NoKey
        /\ chk'.last # NoKey => chk' = chk
    BY <1>1 DEF NextJob, SourceReopen, OpenedCheckpoint, PidOnly
  <2> QED
    BY <2>1
<1>2. ASSUME DRestore PROVE AlignedInv'
  <2>1. cursor = 1 /\ remaining = NumRecords /\ lastKey = NoKey
    BY <1>2 DEF DRestore
  <2>2. CASE CheckpointRestore /\ dpc' = "barrier1"
    <3>1. /\ chk' = chk /\ lastKey' = lastKey
          /\ cursor' = chk.last + 1 /\ remaining' = remaining - chk.num
      BY <2>2 DEF CheckpointRestore
    <3>2. chk.num = chk.last
      BY <2>2 DEF CheckpointRestore
    <3>3. cursor' + remaining' = NumRecords + 1
      BY <2>1, <3>1, <3>2
    <3> QED
      BY <2>1, <2>2, <3>1, <3>2, <3>3
  <2>3. CASE dpc' = "failed" /\ UNCHANGED sourceVars
    BY <2>1, <2>3 DEF sourceVars
  <2> QED
    BY <1>2, <2>2, <2>3 DEF DRestore
<1>3. ASSUME NEW r \in Receivers, DIgnore(r) \/ DSendPackage(r) PROVE AlignedInv'
  <2>1. dpc = "distribute" /\ dpc' = dpc /\ CreateWorkPackage
    BY <1>3 DEF DIgnore, DSendPackage, Handles
  <2>2. KeyCount \in Nat /\ KeyCount =< remaining
    BY DEF KeyCount
  <2>3. PackageElements = cursor .. cursor + KeyCount - 1
    BY <2>1, <2>2 DEF PackageElements
  <2>4. CASE KeyCount = 0
    BY <2>1, <2>2, <2>3, <2>4 DEF CreateWorkPackage, RecordLastKey
  <2>5. CASE KeyCount > 0
    <3>1. lastKey' = cursor + KeyCount - 1
      <4>1. cursor + KeyCount - 1 \in PackageElements
        BY <2>2, <2>3, <2>5
      <4>2. PICK k \in PackageElements :
              (\A e \in PackageElements : e =< k) /\ lastKey' = k
        BY <2>1, <4>1 DEF CreateWorkPackage, RecordLastKey
      <4>3. cursor \in Nat /\ k \in cursor .. cursor + KeyCount - 1
        BY <2>3, <4>2
      <4>4. cursor + KeyCount - 1 =< k
        BY <4>1, <4>2
      <4>5. k = cursor + KeyCount - 1
        BY <2>2, <4>3, <4>4
      <4> QED
        BY <4>2, <4>5
    <3> QED
      BY <2>1, <2>2, <3>1 DEF CreateWorkPackage
  <2>6. KeyCount = 0 \/ KeyCount > 0
    BY <2>2
  <2> HIDE DEF TypeInv, AlignedInv
  <2> QED
    BY <2>4, <2>5, <2>6
<1>4. ASSUME DLeaveLoop PROVE AlignedInv'
  <2>1. /\ cursor' = cursor /\ remaining' = remaining /\ lastKey' = lastKey
        /\ dpc = "distribute" /\ dpc' = "oob"
        /\ chk' = chk \/ chk' = SavedCheckpoint
    BY <1>4 DEF DLeaveLoop, InLoop
  <2>2. lastKey # NoKey => NumRecords - remaining = lastKey
    BY <2>1
  <2> QED
    BY <2>1, <2>2 DEF SavedCheckpoint
<1>5. ASSUME DEnd PROVE AlignedInv'
  BY <1>5 DEF DEnd, NoFile
<1>6. ASSUME UNCHANGED sourceVars, dpc \notin Early, dpc' \notin Early PROVE AlignedInv'
  BY <1>6 DEF sourceVars
<1>7. ASSUME UNCHANGED sourceVars, dpc' = dpc PROVE AlignedInv'
  BY <1>7 DEF sourceVars
<1>8. ASSUME Barrier1 \/ DSendStart \/ DStarted \/ DSendOOB \/ DBeginShutdown \/ DArrive
             \/ Barrier2
      PROVE  UNCHANGED sourceVars /\ dpc \notin Early /\ dpc' \notin Early
  BY <1>8 DEF Barrier1, DSendStart, DStarted, DSendOOB, DBeginShutdown, DArrive, Barrier2
<1>9. ASSUME DTestsome \/ SignalD \/ UNCHANGED vars PROVE UNCHANGED sourceVars /\ dpc' = dpc
  BY <1>9 DEF DTestsome, SignalD, vars, distVars
<1>10. ASSUME NEW r \in Receivers,
              \/ DRecvStart(r) \/ DTaskGone(r) \/ DTaskTerminates(r) \/ DDrain(r)
              \/ DDismiss(r) \/ DFinal(r) \/ SignalR(r)
              \/ ReceiverStep(r) \/ FaultStep(r)
       PROVE  UNCHANGED sourceVars /\ dpc' = dpc
  BY <1>10 DEF DRecvStart, DTaskGone, DTaskTerminates, DDrain, DDismiss, DFinal, SignalR,
     ReceiverStep, FaultStep, ROpenFails, RStartFails, RStart, RExit, RAsk, RReply, RDeliveryFails,
     RDrop, RHandOver, RTerminate, RWorkerStops, RStopWorkers, RFinal, distVars
<1> HIDE DEF TypeInv, TypeOK, SourceInv, SourceTypeOK, Checkpoint, AlignedInv, Early, NoKey,
             CheckpointUsable
<1> QED
  BY <1>1, <1>2, <1>3, <1>4, <1>5, <1>6, <1>7, <1>8, <1>9, <1>10
     DEF Next, DistributorStep, Environment, Resume, Crash, Over

(***************************************************************************)
(* When every record can be read, a job that resumes at a checkpoint has   *)
(* exactly the records from its cursor to the end of the store left.       *)
(***************************************************************************)
THEOREM CursorAligned ==
    ASSUME Unreadable = {}
    PROVE  Spec => []RemainingMatchesCursor
<1>1. Init => TypeInv /\ AlignedInv
  <2> SUFFICES ASSUME Init PROVE AlignedInv
    BY InitTypeInv
  <2>1. cursor = 1 /\ remaining = NumRecords /\ lastKey = NoKey /\ chk.last = NoKey
    BY DEF Init, SourceInit, OpenedCheckpoint, PidOnly, NoFile
  <2> QED
    BY <2>1, RecordStoreAssumption DEF AlignedInv, CheckpointUsable
<1>2. TypeInv /\ AlignedInv /\ [Next]_vars => (TypeInv /\ AlignedInv)'
  BY NextTypeInv, NextAligned
<1>3. AlignedInv => RemainingMatchesCursor
  BY DEF AlignedInv, RemainingMatchesCursor, Early
<1> QED
  BY <1>1, <1>2, <1>3, PTL DEF Spec

-----------------------------------------------------------------------------
(***************************************************************************)
(* The refinement of RecordJob.  A receiver holds a package only while it  *)
(* delivers it, commands other than Continue come without one, and nobody  *)
(* is sent one before it has answered the start message.                   *)
(***************************************************************************)
Sendings(r) == 1 .. Len(toR[r])

HeldInHand    == \A r \in Receivers : At(r, "deliver") \/ pkg[r] = {}
CommandsEmpty == \A r \in Receivers : \A i \in Sendings(r) :
                    toR[r][i].cmd = "Continue" \/ toR[r][i].pkg = {}
OpeningQuiet  == \A r \in Receivers :
                    At(r, "barrier1") \/ At(r, "opening") =>
                        toD[r] = <<>> /\ \A i \in Sendings(r) : toR[r][i].pkg = {}

HoldInv == HeldInHand /\ CommandsEmpty /\ OpeningQuiet

(***************************************************************************)
(* No record that was taken is behind the last key, so a checkpoint covers *)
(* what is not ahead; and it is saved under the condition it stays under.  *)
(***************************************************************************)
LastKeyCovers ==
    /\ \A x \in withheld \cup dropped : x =< lastKey
    /\ lastKey # NoKey => \A x \in Readable : x < cursor => x =< lastKey
SavedOnExit == saved => "Exit" \in dflags

(* Where the messages are after a send, and after a receive.               *)
LEMMA SentLast ==
    ASSUME TypeOK, NEW r \in Receivers, NEW m \in Message, SendTo(r, m)
    PROVE  \A s \in Receivers : \A i \in Sendings(s)' :
             \/ i \in Sendings(s) /\ toR'[s][i] = toR[s][i]
             \/ s = r /\ toR'[s][i] = m
BY DEF TypeOK, SendTo, Sendings

LEMMA TakenFirst ==
    ASSUME TypeOK, NEW r \in Receivers, toR[r] # <<>>, TakeReply(r)
    PROVE  /\ \A s \in Receivers : \A i \in Sendings(s)' :
                \E j \in Sendings(s) : toR'[s][i] = toR[s][j]
           /\ 1 \in Sendings(r) /\ Head(toR[r]) = toR[r][1]
<1>1. /\ toR[r] \in Seq(Message) /\ Len(toR[r]) \in Nat \ {0}
      /\ toR'[r] = Tail(toR[r]) /\ \A s \in Receivers \ {r} : toR'[s] = toR[s]
  BY DEF TypeOK, TakeReply
<1>2. ASSUME NEW i \in Sendings(r)'
      PROVE  i + 1 \in Sendings(r) /\ toR'[r][i] = toR[r][i + 1]
  BY <1>1 DEF Sendings
<1>3. 1 \in Sendings(r) /\ Head(toR[r]) = toR[r][1]
  BY <1>1 DEF Sendings
<1> QED
  BY <1>1, <1>2, <1>3 DEF Sendings

LEMMA CommandMessage ==
    ASSUME NEW c \in TaskCommand
    PROVE  Command(c) \in Message /\ Command(c).pkg = {} /\ Command(c).cmd = c
BY MessageType DEF Command

(* A command without a package, behind the others.                         *)
LEMMA CommandHold ==
    ASSUME TypeOK, HoldInv, NEW r \in Receivers, NEW c \in TaskCommand,
           SendTo(r, Command(c)), UNCHANGED <<pkg, rpc>>,
           \A s \in Receivers : toD'[s] = toD[s] \/ toD[s] # <<>>
    PROVE  HoldInv'
<1>1. \A s \in Receivers : \A i \in Sendings(s)' :
        \/ i \in Sendings(s) /\ toR'[s][i] = toR[s][i]
        \/ toR'[s][i].pkg = {}
  BY SentLast, CommandMessage
<1> QED
  BY <1>1 DEF HoldInv, HeldInHand, CommandsEmpty, OpeningQuiet, At

(* createWorkPackage() takes the next records of the store, and the last   *)
(* key is the last of those it can read.                                   *)
LEMMA ChunkTaken ==
    ASSUME TypeInv
    PROVE  /\ KeyCount \in Nat /\ cursor \in Nat /\ cursor + KeyCount =< NumRecords + 1
           /\ cursor .. cursor + KeyCount - 1 \subseteq cursor .. NumRecords
           /\ PackageElements = (cursor .. cursor + KeyCount - 1) \cap Readable
           /\ PackageElements \subseteq Records
<1>1. /\ KeyCount \in Nat /\ KeyCount =< remaining /\ cursor \in Nat \ {0}
      /\ cursor + KeyCount =< NumRecords + 1 /\ NumRecords \in Nat
  BY RecordStoreAssumption DEF TypeInv, TypeOK, SourceTypeOK, SourceInv, KeyCount
<1>2. cursor .. cursor + KeyCount - 1 \subseteq cursor .. NumRecords
  BY <1>1
<1>3. cursor .. NumRecords \subseteq Records
  BY <1>1 DEF Records
<1> QED
  BY <1>1, <1>2, <1>3 DEF PackageElements, Readable

LEMMA InitHold == Init => HoldInv /\ LastKeyCovers /\ SavedOnExit
<1> SUFFICES ASSUME Init PROVE HoldInv /\ LastKeyCovers /\ SavedOnExit
  OBVIOUS
<1>1. HoldInv
  BY DEF Init, HoldInv, HeldInHand, CommandsEmpty, OpeningQuiet, Sendings
<1>2. LastKeyCovers
  BY DEF Init, SourceInit, LastKeyCovers
<1>3. SavedOnExit
  BY DEF Init, SavedOnExit
<1> QED
  BY <1>1, <1>2, <1>3

LEMMA NextHold == TypeInv /\ HoldInv /\ [Next]_vars => HoldInv'
<1> SUFFICES ASSUME TypeInv, HoldInv, [Next]_vars PROVE HoldInv'
  OBVIOUS
<1>a. TypeOK
  BY DEF TypeInv
<1>k. UNCHANGED <<toR, toD, pkg, rpc>> => HoldInv'
  BY DEF HoldInv, HeldInHand, CommandsEmpty, OpeningQuiet, Sendings, At
<1>1. ASSUME NextJob PROVE HoldInv'
  BY <1>1 DEF NextJob, HoldInv, HeldInHand, CommandsEmpty, OpeningQuiet, Sendings
<1>2. CASE Barrier1
  BY <1>2 DEF Barrier1, HoldInv, HeldInHand, CommandsEmpty, OpeningQuiet, Sendings, At
<1>3. CASE DSendStart
  <2>1. UNCHANGED <<toD, pkg, rpc>>
    BY <1>3 DEF DSendStart, recvVars
  <2>2. Command("Continue") \in Message /\ Command("Continue").pkg = {}
    BY CommandMessage DEF TaskCommand
  <2>3. \A s \in Receivers : \A i \in Sendings(s)' :
          \/ i \in Sendings(s) /\ toR'[s][i] = toR[s][i]
          \/ toR'[s][i].pkg = {}
    BY <1>3, <1>a, <2>2 DEF DSendStart, Sendings, TypeOK
  <2> QED
    BY <2>1, <2>3 DEF HoldInv, HeldInHand, CommandsEmpty, OpeningQuiet, At
<1>4. ASSUME NEW r \in Receivers, DIgnore(r) PROVE HoldInv'
  <2>1. SendTo(r, Command("Ignore")) /\ UNCHANGED <<pkg, rpc>>
        /\ toD' = [toD EXCEPT ![r] = Tail(@)] /\ toD[r] # <<>>
    BY <1>4 DEF DIgnore, recvVars, Handles, Consume, Heard
  <2> QED
    BY <2>1, <1>a, CommandHold DEF TaskCommand, TypeOK
<1>5. ASSUME NEW r \in Receivers, DSendPackage(r) PROVE HoldInv'
  <2> DEFINE m == [cmd |-> "Continue", pkg |-> PackageElements]
  <2>1. SendTo(r, m) /\ UNCHANGED <<pkg, rpc>>
        /\ toD' = [toD EXCEPT ![r] = Tail(@)] /\ toD[r] # <<>>
    BY <1>5 DEF DSendPackage, recvVars, Handles, Consume, Heard
  <2>2. m \in Message
    BY ChunkTaken, MessageType
  <2>3. \A s \in Receivers : \A i \in Sendings(s)' :
          \/ i \in Sendings(s) /\ toR'[s][i] = toR[s][i]
          \/ s = r /\ toR'[s][i].cmd = "Continue"
    BY <1>a, <2>1, <2>2, SentLast
  <2>4. \A s \in Receivers : s # r => toD'[s] = toD[s]
    BY <1>a, <2>1 DEF TypeOK
  <2> QED
    BY <2>1, <2>3, <2>4 DEF HoldInv, HeldInHand, CommandsEmpty, OpeningQuiet, At
<1>6. ASSUME NEW r \in Receivers, DDrain(r) PROVE HoldInv'
  <2>1. UNCHANGED <<pkg, rpc>> /\ toD' = [toD EXCEPT ![r] = Tail(@)] /\ toD[r] # <<>>
        /\ (toR' = toR \/ SendTo(r, Command("Ignore")))
    BY <1>6 DEF DDrain, recvVars, Consume, Heard
  <2>2. \A s \in Receivers : toD'[s] = toD[s] \/ toD[s] # <<>>
    BY <1>a, <2>1 DEF TypeOK
  <2>3. CASE toR' = toR
    BY <2>1, <2>2, <2>3 DEF HoldInv, HeldInHand, CommandsEmpty, OpeningQuiet, Sendings, At
  <2> QED
    BY <2>1, <2>2, <2>3, <1>a, CommandHold DEF TaskCommand
<1>7. ASSUME NEW r \in Receivers, DDismiss(r) PROVE HoldInv'
  <2>1. SendTo(r, Command(exitCmd)) /\ UNCHANGED <<pkg, rpc>>
        /\ toD' = [toD EXCEPT ![r] = Tail(@)] /\ toD[r] # <<>>
    BY <1>7 DEF DDismiss, recvVars, Consume, Heard
  <2>2. exitCmd \in TaskCommand
    BY <1>a DEF TypeOK, TaskCommand
  <2> QED
    BY <2>1, <2>2, <1>a, CommandHold DEF TypeOK
<1>8. ASSUME NEW r \in Receivers, DRecvStart(r) \/ DTaskGone(r) \/ DTaskTerminates(r) \/ DFinal(r)
      PROVE  HoldInv'
  <2>1. UNCHANGED <<pkg, rpc, toR>> /\ toD' = [toD EXCEPT ![r] = Tail(@)] /\ toD[r] # <<>>
    BY <1>8 DEF DRecvStart, DTaskGone, DTaskTerminates, DFinal, recvVars, Handles, Consume, Heard
  <2>2. \A s \in Receivers : toD'[s] = toD[s] \/ toD[s] # <<>>
    BY <1>a, <2>1 DEF TypeOK
  <2> QED
    BY <2>1, <2>2 DEF HoldInv, HeldInHand, CommandsEmpty, OpeningQuiet, Sendings, At
<1>9. ASSUME NEW r \in Receivers, RReply(r) PROVE HoldInv'
  <2> DEFINE m == Head(toR[r])
  <2>1. /\ toR[r] # <<>> /\ TakeReply(r) /\ toD' = toD /\ At(r, "asking")
        /\ rpc' = [rpc EXCEPT ![r] = IF m.cmd = "Ignore" THEN "ready"
                                     ELSE IF m.cmd = "Continue" THEN "deliver" ELSE "stopping"]
        /\ pkg' = [pkg EXCEPT ![r] = m.pkg]
    BY <1>9 DEF RReply, GoTo
  <2>2. m.cmd = "Continue" \/ m.pkg = {}
    BY <1>a, <2>1, TakenFirst DEF HoldInv, CommandsEmpty
  <2>3. HeldInHand'
    BY <1>a, <2>1, <2>2 DEF HoldInv, HeldInHand, At, TypeOK
  <2>4. CommandsEmpty'
    BY <1>a, <2>1, TakenFirst DEF HoldInv, CommandsEmpty
  <2>5. ASSUME NEW s \in Receivers, (At(s, "barrier1") \/ At(s, "opening"))'
        PROVE  toD'[s] = <<>> /\ \A i \in Sendings(s)' : toR'[s][i].pkg = {}
    <3>1. At(s, "barrier1") \/ At(s, "opening")
      BY <1>a, <2>1, <2>5 DEF At, TypeOK
    <3> QED
      BY <1>a, <2>1, <3>1, TakenFirst DEF HoldInv, OpeningQuiet
  <2> QED
    BY <2>3, <2>4, <2>5 DEF HoldInv, OpeningQuiet
<1>10. ASSUME NEW r \in Receivers, RStart(r) \/ RStartFails(r) PROVE HoldInv'
  <2>1. /\ toR[r] # <<>> /\ TakeReply(r) /\ At(r, "opening") /\ pkg' = pkg
        /\ \A s \in Receivers \ {r} : toD'[s] = toD[s] /\ rpc'[s] = rpc[s]
        /\ rpc'[r] \in {"ready", "stopping"}
    BY <1>10, <1>a DEF RStart, RStartFails, GoTo, Report, TypeOK
  <2>2. HeldInHand'
    BY <2>1 DEF HoldInv, HeldInHand, At
  <2>3. CommandsEmpty'
    BY <1>a, <2>1, TakenFirst DEF HoldInv, CommandsEmpty
  <2>4. OpeningQuiet'
    BY <1>a, <2>1, TakenFirst DEF HoldInv, OpeningQuiet, At
  <2> QED
    BY <2>2, <2>3, <2>4 DEF HoldInv
<1>11. ASSUME NEW r \in Receivers,
              \/ ROpenFails(r) \/ RExit(r) \/ RAsk(r) \/ RDeliveryFails(r) \/ RDrop(r)
              \/ RHandOver(r) \/ RTerminate(r) \/ RStopWorkers(r) \/ RFinal(r)
       PROVE  HoldInv'
  <2>1. /\ toR' = toR
        /\ \A s \in Receivers \ {r} : toD'[s] = toD[s] /\ rpc'[s] = rpc[s] /\ pkg'[s] = pkg[s]
        /\ rpc'[r] \notin {"barrier1", "opening", "deliver"}
        /\ (pkg'[r] = {} \/ (pkg'[r] = pkg[r] /\ rpc[r] # "deliver"))
    BY <1>11, <1>a DEF ROpenFails, RExit, RAsk, RDeliveryFails, RDrop, RHandOver, RTerminate,
       RStopWorkers, RFinal, GoTo, Report, LoseP, TypeOK, At, Delivering
  <2> QED
    BY <2>1 DEF HoldInv, HeldInHand, CommandsEmpty, OpeningQuiet, Sendings, At
<1>12. ASSUME \/ DRestore \/ DStarted \/ DTestsome \/ DLeaveLoop \/ DSendOOB
              \/ DBeginShutdown \/ DArrive \/ DEnd \/ SignalD \/ UNCHANGED vars
       PROVE  HoldInv'
  BY <1>12, <1>k DEF DRestore, DStarted, DTestsome, DLeaveLoop, DSendOOB, DBeginShutdown,
     DArrive, DEnd, SignalD, vars, recvVars
<1>13. CASE Barrier2
  <2>1. UNCHANGED <<toR, toD, pkg>> /\ \A s \in Receivers : rpc[s] = "barrier2" /\ rpc'[s] = "final"
    BY <1>13 DEF Barrier2, At
  <2> QED
    BY <2>1 DEF HoldInv, HeldInHand, CommandsEmpty, OpeningQuiet, Sendings, At
<1>14. ASSUME NEW r \in Receivers, RWorkerStops(r) \/ SignalR(r) PROVE HoldInv'
  BY <1>14, <1>k DEF RWorkerStops, SignalR, recvVars
<1> QED
  BY <1>1, <1>2, <1>3, <1>4, <1>5, <1>6, <1>7, <1>8, <1>9, <1>10, <1>11, <1>12, <1>13, <1>14
     DEF Next, DistributorStep, ReceiverStep, FaultStep, Environment, Resume, Crash, Over

(* The last key follows what createWorkPackage() takes.                    *)
LEMMA LastKeyFollows ==
    ASSUME TypeInv, TypeInv', LastKeyCovers, CreateWorkPackage,
           withheld' \cup dropped' \subseteq withheld \cup dropped \cup PackageElements
    PROVE  LastKeyCovers'
<1>1. /\ lastKey \in Nat /\ lastKey' \in Nat /\ lastKey < cursor
      /\ cursor' = cursor + KeyCount /\ cursor' \in Nat
      /\ \A x \in PackageElements : x \in Nat /\ cursor =< x
      /\ KeyCount \in Nat /\ cursor \in Nat
  <2>1. /\ lastKey \in Nat /\ lastKey' \in Nat /\ lastKey < cursor
        /\ cursor' = cursor + KeyCount /\ cursor' \in Nat
    BY RecordStoreAssumption
       DEF TypeInv, TypeOK, SourceTypeOK, SourceInv, CreateWorkPackage
  <2>2. KeyCount \in Nat /\ cursor \in Nat
        /\ PackageElements \subseteq cursor .. cursor + KeyCount - 1
    BY ChunkTaken
  <2> QED
    BY <2>1, <2>2
<1>2. /\ lastKey =< lastKey'
      /\ \A x \in PackageElements : x =< lastKey'
  <2>1. CASE PackageElements = {} /\ UNCHANGED lastKey
    BY <1>1, <2>1
  <2>2. ASSUME NEW k \in PackageElements, \A e \in PackageElements : e =< k, lastKey' = k
        PROVE  lastKey =< lastKey' /\ \A x \in PackageElements : x =< lastKey'
    BY <1>1, <2>2
  <2> QED
    BY <2>1, <2>2 DEF CreateWorkPackage, RecordLastKey
<1>3. withheld \cup dropped \subseteq Nat
  BY DEF TypeInv, TypeOK, Records
<1>4. ASSUME NEW x \in withheld' \cup dropped' PROVE x =< lastKey'
  BY <1>1, <1>2, <1>3, <1>4 DEF LastKeyCovers
<1>5. ASSUME lastKey' # NoKey, NEW x \in Readable, x < cursor' PROVE x =< lastKey'
  <2>0. x \in Nat
    BY DEF Readable, Records
  <2>1. CASE x < cursor /\ lastKey # NoKey
    BY <1>1, <1>2, <2>0, <2>1 DEF LastKeyCovers
  <2>2. CASE cursor =< x
    <3>1. x \in PackageElements
      BY <1>1, <1>5, <2>0, <2>2, ChunkTaken
    <3> QED
      BY <1>2, <3>1
  <2>3. CASE x < cursor /\ lastKey = NoKey
    <3>1. PICK k \in PackageElements : lastKey' = k
      BY <1>5, <2>3 DEF CreateWorkPackage, RecordLastKey
    <3> QED
      BY <1>1, <2>0, <2>3, <3>1
  <2> QED
    BY <1>1, <2>0, <2>1, <2>2, <2>3
<1> QED
  BY <1>4, <1>5 DEF LastKeyCovers

LEMMA NextLastKey ==
    ASSUME TypeInv, TypeInv', AccountInv, LastKeyCovers, [Next]_vars
    PROVE  LastKeyCovers'
<1>k. ASSUME UNCHANGED <<cursor, lastKey, withheld, dropped>> PROVE LastKeyCovers'
  BY <1>k DEF LastKeyCovers
<1>1. ASSUME NextJob PROVE LastKeyCovers'
  <2>1. withheld' = {} /\ dropped' = {} /\ lastKey' = NoKey
    BY <1>1 DEF NextJob, SourceReopen
  <2> QED
    BY <2>1 DEF LastKeyCovers
<1>2. CASE DRestore
  <2>1. lastKey = NoKey /\ lastKey' = NoKey /\ UNCHANGED <<withheld, dropped>>
    BY <1>2 DEF DRestore, CheckpointRestore, TypeInv, SourceInv, fateVars, sourceVars
  <2> QED
    BY <2>1 DEF LastKeyCovers
<1>3. ASSUME NEW r \in Receivers, DIgnore(r) \/ DSendPackage(r) PROVE LastKeyCovers'
  <2>1. /\ CreateWorkPackage
        /\ withheld' \cup dropped' \subseteq withheld \cup dropped \cup PackageElements
    BY <1>3 DEF DIgnore, DSendPackage, fateVars
  <2> QED
    BY <2>1, LastKeyFollows
<1>4. ASSUME NEW r \in Receivers, RDeliveryFails(r) \/ RDrop(r) \/ RTerminate(r)
      PROVE  LastKeyCovers'
  <2>1. UNCHANGED <<cursor, lastKey, withheld>> /\ dropped' = dropped \cup pkg[r]
    BY <1>4 DEF RDeliveryFails, RDrop, RTerminate, sourceVars, LoseP
  <2>2. \A x \in pkg[r] : x =< lastKey
    <3>1. 0 \in Slots(r) /\ Parcel(r, 0) = pkg[r]
      BY DEF TypeInv, TypeOK, Slots, Parcel
    <3> QED
      BY <3>1 DEF AccountInv, ParcelsFresh
  <2> QED
    BY <2>1, <2>2 DEF LastKeyCovers
<1>5. ASSUME \/ Barrier1 \/ DSendStart \/ DStarted \/ DTestsome \/ DLeaveLoop \/ DSendOOB
             \/ DBeginShutdown \/ DArrive \/ Barrier2 \/ DEnd \/ SignalD \/ UNCHANGED vars
      PROVE  LastKeyCovers'
  BY <1>5, <1>k DEF Barrier1, DSendStart, DStarted, DTestsome, DLeaveLoop, DSendOOB,
     DBeginShutdown, DArrive, Barrier2, DEnd, SignalD, vars, sourceVars, fateVars
<1>6. ASSUME NEW r \in Receivers,
             \/ DRecvStart(r) \/ DTaskGone(r) \/ DTaskTerminates(r) \/ DDrain(r)
             \/ DDismiss(r) \/ DFinal(r) \/ SignalR(r)
      PROVE  LastKeyCovers'
  BY <1>6, <1>k DEF DRecvStart, DTaskGone, DTaskTerminates, DDrain, DDismiss, DFinal, SignalR,
     sourceVars, fateVars
<1>7. ASSUME NEW r \in Receivers,
             \/ ROpenFails(r) \/ RStartFails(r) \/ RStart(r) \/ RExit(r) \/ RAsk(r)
             \/ RReply(r) \/ RHandOver(r) \/ RWorkerStops(r) \/ RStopWorkers(r) \/ RFinal(r)
      PROVE  LastKeyCovers'
  BY <1>7, <1>k DEF ROpenFails, RStartFails, RStart, RExit, RAsk, RReply, RHandOver,
     RWorkerStops, RStopWorkers, RFinal, sourceVars, fateVars
<1> QED
  BY <1>1, <1>2, <1>3, <1>4, <1>5, <1>6, <1>7
     DEF Next, DistributorStep, ReceiverStep, FaultStep, Environment, Resume, Crash, Over

(* An exit condition of a process stays set while the job lasts.           *)
LEMMA NextSaved == SavedOnExit /\ [Next]_vars => SavedOnExit'
<1> SUFFICES ASSUME SavedOnExit, [Next]_vars PROVE SavedOnExit'
  OBVIOUS
<1>k. ASSUME saved' = saved, dflags \subseteq dflags' PROVE SavedOnExit'
  BY <1>k DEF SavedOnExit
<1>1. ASSUME NextJob PROVE SavedOnExit'
  BY <1>1 DEF NextJob, SavedOnExit
<1>2. CASE DLeaveLoop
  BY <1>2 DEF DLeaveLoop, SavedOnExit, flagVars
<1>3. ASSUME \/ DRestore \/ Barrier1 \/ DSendStart \/ DStarted \/ DTestsome \/ DSendOOB
             \/ DBeginShutdown \/ DArrive \/ Barrier2 \/ DEnd \/ SignalD \/ UNCHANGED vars
      PROVE  SavedOnExit'
  BY <1>3, <1>k DEF DRestore, Barrier1, DSendStart, DStarted, DTestsome, DSendOOB,
     DBeginShutdown, DArrive, Barrier2, DEnd, SignalD, vars, flagVars, fateVars
<1>4. ASSUME NEW r \in Receivers,
             \/ DRecvStart(r) \/ DTaskGone(r) \/ DTaskTerminates(r) \/ DDrain(r)
             \/ DDismiss(r) \/ DFinal(r) \/ SignalR(r) \/ DIgnore(r) \/ DSendPackage(r)
      PROVE  SavedOnExit'
  BY <1>4, <1>k DEF DRecvStart, DTaskGone, DTaskTerminates, DDrain, DDismiss, DFinal, SignalR,
     DIgnore, DSendPackage, flagVars, fateVars
<1>5. ASSUME NEW r \in Receivers, ReceiverStep(r) \/ FaultStep(r) PROVE SavedOnExit'
  BY <1>5, <1>k DEF ReceiverStep, FaultStep, ROpenFails, RStartFails, RStart, RExit, RAsk, RReply,
     RDeliveryFails, RDrop, RTerminate, RHandOver, RWorkerStops, RStopWorkers, RFinal,
     flagVars, fateVars
<1> QED
  BY <1>1, <1>2, <1>3, <1>4, <1>5
     DEF Next, DistributorStep, Environment, Resume, Crash, Over

(* What a receiver carries, record by record.                              *)
LEMMA LoadOf ==
    ASSUME NEW r \in Receivers
    PROVE  /\ Loads[r] = Carried(r)
           /\ \A x : x \in Carried(r) <=>
                \/ x \in pkg[r]
                \/ \E i \in Sendings(r) : x \in toR[r][i].pkg
BY DEF Loads, Carried, Sendings

LEMMA LoadOfNext ==
    ASSUME NEW r \in Receivers
    PROVE  /\ Loads'[r] = Carried(r)'
           /\ \A x : x \in Carried(r)' <=>
                \/ x \in pkg'[r]
                \/ \E i \in Sendings(r)' : x \in toR'[r][i].pkg
BY DEF Loads, Carried, Sendings

(* Loads that agree record by record are the same.                         *)
LEMMA SameLoads ==
    ASSUME NEW f, f = [r \in Receivers |-> f[r]],
           \A r \in Receivers : \A x : x \in Carried(r)' <=> x \in f[r]
    PROVE  Loads' = f
<1>1. \A r \in Receivers : Carried(r)' = f[r]
  OBVIOUS
<1>2. Loads' = [r \in Receivers |-> f[r]]
  BY <1>1 DEF Loads
<1> QED
  BY <1>2

(* A message sent is carried by its receiver.                              *)
LEMMA SendLoads ==
    ASSUME TypeOK, NEW r \in Receivers, NEW m \in Message, SendTo(r, m), pkg' = pkg
    PROVE  Loads' = [Loads EXCEPT ![r] = @ \cup m.pkg]
<1> DEFINE f == [Loads EXCEPT ![r] = @ \cup m.pkg]
<1>1. \A s \in Receivers : \A i \in Sendings(s) : i \in Sendings(s)' /\ toR'[s][i] = toR[s][i]
  BY DEF TypeOK, SendTo, Sendings
<1>2. Len(toR[r]) + 1 \in Sendings(r)' /\ toR'[r][Len(toR[r]) + 1] = m
  BY DEF TypeOK, SendTo, Sendings
<1>3. \A s \in Receivers : f[s] = IF s = r THEN Carried(r) \cup m.pkg ELSE Carried(s)
  BY DEF Loads
<1>4. ASSUME NEW s \in Receivers, NEW x PROVE x \in Carried(s)' <=> x \in f[s]
  <2>1. ASSUME x \in Carried(s)' PROVE x \in f[s]
    <3>1. CASE x \in pkg[s]
      BY <1>3, <3>1, LoadOf
    <3>2. ASSUME NEW i \in Sendings(s)', x \in toR'[s][i].pkg PROVE x \in f[s]
      <4>1. \/ i \in Sendings(s) /\ toR'[s][i] = toR[s][i]
            \/ s = r /\ toR'[s][i] = m
        BY SentLast
      <4> QED
        BY <1>3, <3>2, <4>1, LoadOf
    <3> QED
      BY <2>1, <3>1, <3>2, LoadOfNext
  <2>2. ASSUME x \in Carried(s) PROVE x \in Carried(s)'
    BY <1>1, <2>2, LoadOf, LoadOfNext
  <2>3. ASSUME s = r, x \in m.pkg PROVE x \in Carried(s)'
    BY <1>2, <2>3, LoadOfNext
  <2> QED
    BY <1>3, <2>1, <2>2, <2>3
<1>5. f = [s \in Receivers |-> f[s]]
  BY DEF Loads
<1> HIDE DEF f
<1>6. Loads' = f
  BY <1>4, <1>5, SameLoads
<1> QED
  BY <1>6 DEF f

(* A message taken off its channel and kept, or one without a package.     *)
LEMMA TakeLoads ==
    ASSUME TypeOK, NEW r \in Receivers, toR[r] # <<>>, TakeReply(r),
           \/ pkg[r] = {} /\ pkg' = [pkg EXCEPT ![r] = Head(toR[r]).pkg]
           \/ Head(toR[r]).pkg = {} /\ pkg' = pkg
    PROVE  Loads' = Loads
<1>1. 1 \in Sendings(r) /\ Head(toR[r]) = toR[r][1]
  BY TakenFirst
<1>2. /\ \A s \in Receivers \ {r} : toR'[s] = toR[s] /\ pkg'[s] = pkg[s]
      /\ pkg'[r] = pkg[r] \/ pkg'[r] = toR[r][1].pkg
      /\ pkg[r] \cup toR[r][1].pkg \subseteq pkg'[r]
  BY <1>1 DEF TypeOK, TakeReply
<1>3. \A i \in Sendings(r)' : i + 1 \in Sendings(r) /\ toR'[r][i] = toR[r][i + 1]
  BY DEF TypeOK, TakeReply, Sendings
<1>4. \A i \in Sendings(r) : i = 1 \/ (i - 1 \in Sendings(r)' /\ toR'[r][i - 1] = toR[r][i])
  BY DEF TypeOK, TakeReply, Sendings
<1>5. ASSUME NEW s \in Receivers \ {r}, NEW x PROVE x \in Carried(s)' <=> x \in Carried(s)
  BY <1>2, <1>5, LoadOf, LoadOfNext DEF Sendings
<1>6. ASSUME NEW x, x \in Carried(r)' PROVE x \in Carried(r)
  <2>1. CASE x \in pkg'[r]
    BY <1>1, <1>2, <2>1, LoadOf
  <2>2. ASSUME NEW i \in Sendings(r)', x \in toR'[r][i].pkg PROVE x \in Carried(r)
    BY <1>3, <2>2, LoadOf
  <2> QED
    BY <1>6, <2>1, <2>2, LoadOfNext
<1>7. ASSUME NEW x, x \in Carried(r) PROVE x \in Carried(r)'
  <2>1. CASE x \in pkg[r]
    BY <1>2, <2>1, LoadOfNext
  <2>2. ASSUME NEW i \in Sendings(r), x \in toR[r][i].pkg PROVE x \in Carried(r)'
    BY <1>2, <1>4, <2>2, LoadOfNext
  <2> QED
    BY <1>7, <2>1, <2>2, LoadOf
<1>8. Loads = [s \in Receivers |-> Loads[s]] /\ \A s \in Receivers : Loads[s] = Carried(s)
  BY DEF Loads
<1> QED
  BY <1>5, <1>6, <1>7, <1>8, SameLoads

(* A receiver that is rid of its package carries only what is on its way.  *)
LEMMA RidLoads ==
    ASSUME TypeOK, ParcelsDisjoint, NEW r \in Receivers,
           toR' = toR, pkg' = [pkg EXCEPT ![r] = {}]
    PROVE  /\ Loads' = [Loads EXCEPT ![r] = @ \ pkg[r]]
           /\ pkg[r] \in SUBSET Loads[r]
<1> DEFINE f == [Loads EXCEPT ![r] = @ \ pkg[r]]
<1>1. \A s \in Receivers : f[s] = IF s = r THEN Carried(r) \ pkg[r] ELSE Carried(s)
  BY DEF Loads
<1>2. \A s \in Receivers : /\ Sendings(s)' = Sendings(s)
                           /\ s # r => pkg'[s] = pkg[s]
                           /\ s = r => pkg'[s] = {}
  BY DEF TypeOK, Sendings
<1>3. \A i \in Sendings(r) : toR[r][i].pkg \cap pkg[r] = {}
  <2> SUFFICES ASSUME NEW i \in Sendings(r) PROVE toR[r][i].pkg \cap pkg[r] = {}
    OBVIOUS
  <2>1. i \in Slots(r) /\ 0 \in Slots(r) /\ i # 0
    BY DEF Sendings, Slots, TypeOK
  <2> QED
    BY <2>1 DEF ParcelsDisjoint, Parcel
<1>4. ASSUME NEW s \in Receivers, NEW x PROVE x \in Carried(s)' <=> x \in f[s]
  BY <1>1, <1>2, <1>3, LoadOf, LoadOfNext
<1>5. f = [s \in Receivers |-> f[s]]
  BY DEF Loads
<1>6. pkg[r] \in SUBSET Loads[r]
  BY LoadOf
<1> HIDE DEF f
<1>7. Loads' = f
  BY <1>4, <1>5, SameLoads
<1> QED
  BY <1>6, <1>7 DEF f

LEMMA StartLoads == TypeOK /\ DSendStart => Loads' = Loads
<1> SUFFICES ASSUME TypeOK, DSendStart PROVE Loads' = Loads
  OBVIOUS
<1>1. Command("Continue") \in Message /\ Command("Continue").pkg = {} /\ pkg' = pkg
  BY CommandMessage DEF TaskCommand, DSendStart, recvVars
<1>2. \A s \in Receivers :
        /\ \A i \in Sendings(s) : i \in Sendings(s)' /\ toR'[s][i] = toR[s][i]
        /\ \A i \in Sendings(s)' : \/ i \in Sendings(s) /\ toR'[s][i] = toR[s][i]
                                   \/ toR'[s][i].pkg = {}
  BY <1>1 DEF DSendStart, Sendings, TypeOK
<1>3. ASSUME NEW s \in Receivers, NEW x PROVE x \in Carried(s)' <=> x \in Carried(s)
  BY <1>1, <1>2, LoadOf, LoadOfNext
<1>4. Loads = [s \in Receivers |-> Loads[s]] /\ \A s \in Receivers : Loads[s] = Carried(s)
  BY DEF Loads
<1> QED
  BY <1>3, <1>4, SameLoads

LEMMA RestingLoads == UNCHANGED <<toR, pkg>> => Loads' = Loads
BY DEF Loads, Carried

-----------------------------------------------------------------------------
(***************************************************************************)
(* Each step is a step of RecordJob, or none of it.                        *)
(***************************************************************************)
Unseen == UNCHANGED <<Stage, cursor, Loads, handed, withheld, dropped, earlier, chk, saved>>

LEMMA UnseenStep == Unseen => UNCHANGED Account!vars
BY DEF Unseen, Account!vars, Account!fates, Account!books, Ahead, Covered

LEMMA InitKept == Init => Account!Init
<1> SUFFICES ASSUME Init PROVE Account!Init
  OBVIOUS
<1>1. chk.exists \in BOOLEAN /\ chk.last = NoKey
  BY RecordStoreAssumption DEF Init, SourceInit, OpenedCheckpoint, NoFile, PidOnly
<1>2. Covered = {} /\ Ahead = Records
  BY <1>1 DEF Init, SourceInit, Covered, NoKey, Ahead, Records
<1>3. Stage = "giving"
  BY DEF Init, Stage, StartLocation, NoFile
<1>4. Loads = Account!Nobody
  <2>1. \A r \in Receivers : Carried(r) = {}
    BY DEF Init, Carried
  <2> QED
    BY <2>1 DEF Loads, Account!Nobody
<1> QED
  BY <1>1, <1>2, <1>3, <1>4 DEF Account!Init, Init

(* createWorkPackage() for a receiver, or for nobody.                      *)
LEMMA TakeKept ==
    ASSUME TypeInv, TypeInv', CreateWorkPackage, dpc = "distribute", dpc' = dpc
    PROVE  LET S == cursor .. cursor + KeyCount - 1
           IN  /\ S \in SUBSET Ahead /\ Account!Take(S)
               /\ S \cap Readable = PackageElements
               /\ Stage' = Stage /\ chk' = chk
<1> DEFINE S == cursor .. cursor + KeyCount - 1
<1>1. /\ KeyCount \in Nat /\ cursor \in Nat /\ S \subseteq cursor .. NumRecords
      /\ PackageElements = S \cap Readable
  BY ChunkTaken
<1>2. cursor' = cursor + KeyCount /\ chk' = chk
  BY DEF CreateWorkPackage
<1>3. NumRecords \in Nat
  BY RecordStoreAssumption
<1>4. Ahead' = Ahead \ S
  BY <1>1, <1>2, <1>3 DEF Ahead
<1>5. \A x \in S : \A y \in Ahead \ S : x < y
  BY <1>1, <1>3 DEF Ahead
<1>6. Stage = "giving" /\ Stage' = Stage
  BY DEF Stage
<1> QED
  BY <1>1, <1>2, <1>4, <1>5, <1>6 DEF Account!Take, Ahead

LEMMA GiveKept ==
    ASSUME TypeInv, TypeInv', NEW r \in Receivers, DSendPackage(r)
    PROVE  Account!Next
<1> DEFINE S == cursor .. cursor + KeyCount - 1
           m == [cmd |-> "Continue", pkg |-> PackageElements]
<1>1. /\ CreateWorkPackage /\ dpc = "distribute" /\ dpc' = dpc
      /\ SendTo(r, m) /\ pkg' = pkg
      /\ UNCHANGED <<handed, withheld, dropped, saved, earlier>>
  BY DEF DSendPackage, Handles, recvVars, fateVars, jobVars
<1>2. S \in SUBSET Ahead /\ Account!Take(S) /\ S \cap Readable = PackageElements
      /\ Stage' = Stage /\ chk' = chk
  BY <1>1, TakeKept
<1>3. Loads' = [Loads EXCEPT ![r] = @ \cup (S \cap Readable)]
  <2>1. m \in Message /\ m.pkg = PackageElements
    BY ChunkTaken, MessageType
  <2> QED
    BY <1>1, <1>2, <2>1, SendLoads DEF TypeInv
<1>4. UNCHANGED Account!books
  BY <1>1, <1>2 DEF Account!books, Covered
<1> HIDE DEF S
<1>5. Account!Give(r, S)
  BY <1>1, <1>2, <1>3, <1>4 DEF Account!Give
<1> QED
  BY <1>2, <1>5 DEF Account!Next

LEMMA WithholdKept ==
    ASSUME TypeInv, TypeInv', NEW r \in Receivers, DIgnore(r)
    PROVE  Account!Next
<1> DEFINE S == cursor .. cursor + KeyCount - 1
<1>1. /\ CreateWorkPackage /\ dpc = "distribute" /\ dpc' = dpc
      /\ SendTo(r, Command("Ignore")) /\ pkg' = pkg
      /\ withheld' = withheld \cup PackageElements
      /\ UNCHANGED <<handed, dropped, saved, earlier>>
  BY DEF DIgnore, Handles, recvVars, jobVars
<1>2. S \in SUBSET Ahead /\ Account!Take(S) /\ S \cap Readable = PackageElements
      /\ Stage' = Stage /\ chk' = chk
  BY <1>1, TakeKept
<1>3. Loads' = Loads
  <2>1. Command("Ignore") \in Message /\ Command("Ignore").pkg = {}
    BY CommandMessage DEF TaskCommand
  <2>2. Loads' = [Loads EXCEPT ![r] = @ \cup {}]
    BY <1>1, <2>1, SendLoads DEF TypeInv
  <2> QED
    BY <2>2 DEF Loads
<1>4. UNCHANGED Account!books
  BY <1>1, <1>2 DEF Account!books, Covered
<1> HIDE DEF S
<1>5. Account!Withhold(S)
  BY <1>1, <1>2, <1>3, <1>4 DEF Account!Withhold
<1> QED
  BY <1>2, <1>5 DEF Account!Next

(* The package a receiver is rid of goes to a worker, or is dropped.       *)
LEMMA HandOverKept ==
    ASSUME TypeInv, AccountInv, NEW r \in Receivers, RHandOver(r)
    PROVE  Account!Next
<1>1. /\ toR' = toR /\ pkg' = [pkg EXCEPT ![r] = {}]
      /\ handed' = handed \cup pkg[r]
      /\ UNCHANGED <<dpc, cursor, chk, withheld, dropped, saved, earlier>>
  BY DEF RHandOver, sourceVars, distVars, jobVars
<1>2. Loads' = [Loads EXCEPT ![r] = @ \ pkg[r]] /\ pkg[r] \in SUBSET Loads[r]
  BY <1>1, RidLoads DEF TypeInv, AccountInv
<1>3. Stage' = Stage /\ Ahead' = Ahead /\ UNCHANGED Account!books
  BY <1>1 DEF Stage, Ahead, Account!books, Covered
<1>4. Account!HandOver(r, pkg[r])
  BY <1>1, <1>2, <1>3 DEF Account!HandOver
<1> QED
  BY <1>2, <1>4 DEF Account!Next

LEMMA DropKept ==
    ASSUME TypeInv, AccountInv, NEW r \in Receivers,
           RDeliveryFails(r) \/ RDrop(r) \/ RTerminate(r)
    PROVE  Account!Next
<1>1. /\ toR' = toR /\ pkg' = [pkg EXCEPT ![r] = {}]
      /\ dropped' = dropped \cup pkg[r]
      /\ UNCHANGED <<dpc, cursor, chk, withheld, handed, saved, earlier>>
  BY DEF RDeliveryFails, RDrop, RTerminate, LoseP, sourceVars, distVars, jobVars
<1>2. Loads' = [Loads EXCEPT ![r] = @ \ pkg[r]] /\ pkg[r] \in SUBSET Loads[r]
  BY <1>1, RidLoads DEF TypeInv, AccountInv
<1>3. Stage' = Stage /\ Ahead' = Ahead /\ UNCHANGED Account!books
  BY <1>1 DEF Stage, Ahead, Account!books, Covered
<1>4. Account!Drop(r, pkg[r])
  BY <1>1, <1>2, <1>3 DEF Account!Drop
<1> QED
  BY <1>2, <1>4 DEF Account!Next

(* distributeWork() is left, with the checkpoint saved or not.             *)
LEMMA CloseKept ==
    ASSUME TypeInv, AccountInv, LastKeyCovers, DLeaveLoop
    PROVE  Account!Next
<1>1. /\ Stage = "giving" /\ Stage' = "closing"
      /\ Ahead' = Ahead /\ Loads' = Loads
      /\ UNCHANGED <<handed, withheld, dropped, earlier>>
      /\ \/ chk' = SavedCheckpoint /\ saved' = TRUE
         \/ UNCHANGED <<chk, saved>>
  BY RestingLoads DEF DLeaveLoop, InLoop, Stage, Ahead, recvVars, jobVars
<1>2. CASE UNCHANGED <<chk, saved>>
  <2>1. Account!Close
    BY <1>1, <1>2 DEF Account!Close, Account!fates, Covered
  <2> QED
    BY <2>1 DEF Account!Next
<1>3. CASE chk' = SavedCheckpoint /\ saved' = TRUE
  <2>1. chk'.exists = TRUE /\ Covered' = 1 .. lastKey
    BY <1>3 DEF SavedCheckpoint, Covered
  <2>2. lastKey \in Nat /\ cursor \in Nat /\ lastKey < cursor /\ NumRecords \in Nat
        /\ cursor =< NumRecords + 1
    BY RecordStoreAssumption DEF TypeInv, TypeOK, SourceTypeOK, SourceInv
  <2>3. Covered' \subseteq Records \ Ahead
    BY <2>1, <2>2 DEF Records, Ahead
  <2>4. ASSUME lastKey # NoKey PROVE Readable \ Ahead \subseteq Covered'
    <3>1. ASSUME NEW x \in Readable, x \notin Ahead PROVE x \in 1 .. lastKey
      <4>1. x \in Nat /\ 1 =< x /\ x =< NumRecords
        BY <2>2 DEF Readable, Records
      <4>2. x < cursor
        BY <2>2, <3>1, <4>1 DEF Ahead
      <4> QED
        BY <2>2, <2>4, <4>1, <4>2 DEF LastKeyCovers
    <3> QED
      BY <2>1, <3>1
  <2>5. ASSUME lastKey = NoKey PROVE Account!Taken = {} /\ Covered' = {}
    <3>1. \A x \in Records : ~(x =< lastKey)
      BY <2>2, <2>5 DEF Records, NoKey
    <3>2. handed = {} /\ withheld = {} /\ dropped = {}
      BY <3>1 DEF TypeInv, TypeOK, AccountInv, HandedBehind, LastKeyCovers
    <3>3. ASSUME NEW r \in Receivers PROVE Loads[r] = {}
      <4>1. ASSUME NEW x \in Carried(r) PROVE FALSE
        <5>1. PICK i \in Slots(r) : x \in Parcel(r, i)
          BY CarriedParcels DEF TypeInv
        <5>2. x \in Records /\ x =< lastKey
          BY <5>1, ParcelType DEF TypeInv, AccountInv, ParcelsFresh
        <5> QED
          BY <3>1, <5>2
      <4> QED
        BY <4>1, LoadOf
    <3> QED
      BY <2>1, <2>5, <3>2, <3>3 DEF Account!Taken, NoKey
  <2>6. Account!Close
    BY <1>1, <1>3, <2>1, <2>3, <2>4, <2>5 DEF Account!Close, Account!fates
  <2> QED
    BY <2>6 DEF Account!Next
<1> QED
  BY <1>1, <1>2, <1>3

LEMMA NoneClose ==
    ASSUME DStarted
    PROVE  Account!Next \/ UNCHANGED Account!vars
<1>1. /\ Stage = "giving" /\ Stage' \in {"giving", "closing"}
      /\ Ahead' = Ahead /\ Loads' = Loads /\ cursor' = cursor
      /\ UNCHANGED <<handed, withheld, dropped, earlier, chk, saved>>
  BY RestingLoads DEF DStarted, Stage, Ahead, recvVars, jobVars, sourceVars, fateVars
<1>2. CASE Stage' = "closing"
  <2>1. Account!Close
    BY <1>1, <1>2 DEF Account!Close, Account!fates, Covered
  <2> QED
    BY <2>1 DEF Account!Next
<1>3. CASE Stage' = "giving"
  BY <1>1, <1>3, UnseenStep DEF Unseen
<1> QED
  BY <1>1, <1>2, <1>3

(* The checkpoint file is removed, but not one this job saved.             *)
LEMMA FinishKept ==
    ASSUME SavedOnExit, DEnd
    PROVE  Account!Next \/ UNCHANGED Account!vars
<1>1. /\ Stage = "closing" /\ Stage' = Stage
      /\ Ahead' = Ahead /\ Loads' = Loads /\ cursor' = cursor
      /\ UNCHANGED <<handed, withheld, dropped, earlier, saved>>
  BY RestingLoads DEF DEnd, Stage, Ahead, recvVars, jobVars, fateVars
<1>2. CASE "Exit" \in dflags
  <2>1. chk' = chk
    BY <1>2 DEF DEnd
  <2> QED
    BY <1>1, <2>1, UnseenStep DEF Unseen
<1>3. CASE "Exit" \notin dflags
  <2>1. ~saved
    BY <1>3 DEF SavedOnExit
  <2>2. chk'.exists = FALSE /\ Covered' = {}
    BY <1>3 DEF DEnd, NoFile, Covered
  <2>3. Account!Finish
    BY <1>1, <2>1, <2>2 DEF Account!Finish, Account!fates
  <2> QED
    BY <2>3 DEF Account!Next
<1> QED
  BY <1>2, <1>3

(* The next job starts where the checkpoint file says.                     *)
LEMMA RestartKept ==
    ASSUME TypeInv, TypeInv', AccountInv, NextJob
    PROVE  Account!Next
<1>1. /\ cursor' = 1 /\ chk' = OpenedCheckpoint(chk)
      /\ dpc' = StartLocation(chk)
      /\ handed' = {} /\ withheld' = {} /\ dropped' = {} /\ saved' = FALSE
      /\ earlier' = IF ~chk.exists THEN {}
                    ELSE IF saved THEN earlier \cup handed ELSE earlier
  BY DEF NextJob, SourceReopen
<1>2. Ahead' = Records
  BY <1>1 DEF Ahead, Records
<1>3. Loads' = Account!Nobody
  <2>1. \A r \in Receivers : Carried(r)' = {}
    BY DEF NextJob, Carried
  <2> QED
    BY <2>1 DEF Loads, Account!Nobody
<1>4. chk'.exists \in BOOLEAN
  BY DEF TypeInv, TypeOK, SourceTypeOK, Checkpoint
<1>5. CASE chk.exists
  <2>1. chk' = chk /\ Stage' = "starting"
    BY <1>1, <1>5 DEF OpenedCheckpoint, StartLocation, Stage, AccountInv, EarlierBehind
  <2>2. Account!Restart
    BY <1>1, <1>2, <1>3, <1>5, <2>1 DEF Account!Restart, Covered
  <2> QED
    BY <2>2 DEF Account!Next
<1>6. CASE ~chk.exists
  <2>1. Stage' = "giving"
    BY <1>1, <1>6 DEF StartLocation, Stage
  <2>2. Covered' = {}
    BY <1>1, <1>6 DEF OpenedCheckpoint, PidOnly, Covered, NoKey
  <2>3. Account!Restart
    BY <1>1, <1>2, <1>3, <1>4, <1>6, <2>1, <2>2 DEF Account!Restart
  <2> QED
    BY <2>3 DEF Account!Next
<1> QED
  BY <1>5, <1>6

LEMMA RestoreKept ==
    ASSUME TypeInv, AccountInv, DRestore
    PROVE  Account!Next \/ UNCHANGED Account!vars
<1>1. /\ dpc = "restore" /\ cursor = 1 /\ chk.exists /\ chk.last \in Nat
      /\ Loads' = Loads /\ UNCHANGED <<handed, withheld, dropped, saved, earlier>>
      /\ chk.last =< NumRecords /\ NumRecords \in Nat
  BY RestingLoads, RecordStoreAssumption
     DEF DRestore, TypeInv, TypeOK, SourceTypeOK, SourceInv, Checkpoint,
         AccountInv, EarlierBehind, recvVars, fateVars, jobVars
<1>2. CASE CheckpointRestore /\ dpc' = "barrier1"
  <2>1. chk' = chk /\ cursor' = chk.last + 1 /\ chk.last # 0
    BY <1>2 DEF CheckpointRestore, CheckpointUsable, NoKey
  <2>2. Covered = 1 .. chk.last /\ Covered # {} /\ Ahead' = Ahead \ Covered
    BY <1>1, <2>1 DEF Covered, Ahead
  <2>3. Stage = "starting" /\ Stage' = "giving"
    BY <1>1, <1>2 DEF Stage
  <2>4. Covered' = Covered
    BY <2>1 DEF Covered
  <2>5. Account!Restore
    BY <1>1, <2>1, <2>2, <2>3, <2>4 DEF Account!Restore, Account!fates, Account!books
  <2> QED
    BY <2>5 DEF Account!Next
<1>3. CASE dpc' = "failed" /\ UNCHANGED sourceVars
  <2>1. Stage' = Stage
    BY <1>1, <1>3 DEF Stage
  <2> QED
    BY <1>1, <1>3, <2>1, UnseenStep DEF Unseen, sourceVars
<1> QED
  BY <1>2, <1>3 DEF DRestore

(* The other steps change nothing a record could tell.                     *)
Elsewhere == UNCHANGED <<cursor, chk, handed, withheld, dropped, earlier, saved>>

LEMMA ElsewhereStep ==
    ASSUME Elsewhere, Loads' = Loads, Stage' = Stage
    PROVE  UNCHANGED Account!vars
BY UnseenStep DEF Elsewhere, Unseen

LEMMA CommandUnseen ==
    ASSUME TypeOK, NEW r \in Receivers, NEW c \in TaskCommand,
           SendTo(r, Command(c)), pkg' = pkg
    PROVE  Loads' = Loads
<1>1. Command(c) \in Message /\ Command(c).pkg = {}
  BY CommandMessage
<1>2. Loads' = [Loads EXCEPT ![r] = @ \cup {}]
  BY <1>1, SendLoads
<1> QED
  BY <1>2 DEF Loads

LEMMA DistributorUnseen ==
    ASSUME TypeInv, HoldInv,
           \/ Barrier1 \/ DSendStart \/ DTestsome \/ DSendOOB \/ DBeginShutdown
           \/ DArrive \/ Barrier2 \/ SignalD \/ UNCHANGED vars
           \/ \E r \in Receivers : \/ DRecvStart(r) \/ DTaskGone(r) \/ DTaskTerminates(r)
                                   \/ DDrain(r) \/ DDismiss(r) \/ DFinal(r)
    PROVE  UNCHANGED Account!vars
<1>a. TypeOK
  BY DEF TypeInv
<1>1. CASE DSendStart
  <2>1. Elsewhere /\ Stage' = Stage
    BY <1>1 DEF DSendStart, Elsewhere, Stage, sourceVars, fateVars, jobVars
  <2> QED
    BY <1>a, <1>1, <2>1, StartLoads, ElsewhereStep
<1>2. CASE \/ Barrier1 \/ DTestsome \/ DSendOOB \/ DBeginShutdown
           \/ DArrive \/ Barrier2 \/ SignalD \/ UNCHANGED vars
  <2>1. Elsewhere /\ UNCHANGED <<toR, pkg>>
    BY <1>2 DEF Barrier1, DTestsome, DSendOOB, DBeginShutdown, DArrive, Barrier2, SignalD, vars,
       Elsewhere, sourceVars, fateVars, jobVars, recvVars
  <2>2. Stage' = Stage
    BY <1>2 DEF Barrier1, DTestsome, DSendOOB, DBeginShutdown, DArrive, Barrier2, SignalD, vars,
       distVars, Stage
  <2> QED
    BY <2>1, <2>2, RestingLoads, ElsewhereStep
<1>3. ASSUME NEW r \in Receivers, DRecvStart(r) \/ DTaskGone(r) \/ DTaskTerminates(r) \/ DFinal(r)
      PROVE  UNCHANGED Account!vars
  <2>1. Elsewhere /\ Stage' = Stage /\ UNCHANGED <<toR, pkg>>
    BY <1>3 DEF DRecvStart, DTaskGone, DTaskTerminates, DFinal, Elsewhere, Stage,
       sourceVars, fateVars, jobVars, recvVars
  <2> QED
    BY <2>1, RestingLoads, ElsewhereStep
<1>4. ASSUME NEW r \in Receivers, DDrain(r) PROVE UNCHANGED Account!vars
  <2>1. Elsewhere /\ Stage' = Stage /\ pkg' = pkg
        /\ (toR' = toR \/ SendTo(r, Command("Ignore")))
    BY <1>4 DEF DDrain, Elsewhere, Stage, sourceVars, fateVars, jobVars, recvVars
  <2>2. Loads' = Loads
    BY <1>a, <2>1, RestingLoads, CommandUnseen DEF TaskCommand
  <2> QED
    BY <2>1, <2>2, ElsewhereStep
<1>5. ASSUME NEW r \in Receivers, DDismiss(r) PROVE UNCHANGED Account!vars
  <2>1. Elsewhere /\ Stage' = Stage /\ pkg' = pkg /\ SendTo(r, Command(exitCmd))
    BY <1>5 DEF DDismiss, Elsewhere, Stage, sourceVars, fateVars, jobVars, recvVars
  <2>2. exitCmd \in TaskCommand
    BY <1>a DEF TypeOK, TaskCommand
  <2>3. Loads' = Loads
    BY <1>a, <2>1, <2>2, CommandUnseen
  <2> QED
    BY <2>1, <2>3, ElsewhereStep
<1> QED
  BY <1>1, <1>2, <1>3, <1>4, <1>5

LEMMA ReceiverUnseen ==
    ASSUME TypeInv, HoldInv, NEW r \in Receivers,
           \/ ROpenFails(r) \/ RStartFails(r) \/ RStart(r) \/ RExit(r) \/ RAsk(r) \/ RReply(r)
           \/ RWorkerStops(r) \/ RStopWorkers(r) \/ RFinal(r) \/ SignalR(r)
    PROVE  UNCHANGED Account!vars
<1>1. Elsewhere /\ Stage' = Stage
  BY DEF ROpenFails, RStartFails, RStart, RExit, RAsk, RReply, RWorkerStops, RStopWorkers,
     RFinal, SignalR, Elsewhere, Stage, sourceVars, distVars, fateVars, jobVars
<1>2. CASE RStartFails(r) \/ RStart(r)
  <2>1. toR[r] # <<>> /\ TakeReply(r) /\ pkg' = pkg /\ At(r, "opening")
    BY <1>2 DEF RStartFails, RStart
  <2>2. Head(toR[r]).pkg = {}
    BY <2>1, TakenFirst DEF TypeInv, HoldInv, OpeningQuiet
  <2>3. Loads' = Loads
    BY <2>1, <2>2, TakeLoads DEF TypeInv
  <2> QED
    BY <1>1, <2>3, ElsewhereStep
<1>3. CASE RReply(r)
  <2>1. toR[r] # <<>> /\ TakeReply(r) /\ pkg' = [pkg EXCEPT ![r] = Head(toR[r]).pkg]
        /\ At(r, "asking")
    BY <1>3 DEF RReply
  <2>2. pkg[r] = {}
    BY <2>1 DEF HoldInv, HeldInHand, At
  <2>3. Loads' = Loads
    BY <2>1, <2>2, TakeLoads DEF TypeInv
  <2> QED
    BY <1>1, <2>3, ElsewhereStep
<1>4. CASE \/ ROpenFails(r) \/ RExit(r) \/ RAsk(r) \/ RWorkerStops(r) \/ RStopWorkers(r)
           \/ RFinal(r) \/ SignalR(r)
  <2>1. UNCHANGED <<toR, pkg>>
    BY <1>4 DEF ROpenFails, RExit, RAsk, RWorkerStops, RStopWorkers, RFinal, SignalR, recvVars
  <2> QED
    BY <1>1, <2>1, RestingLoads, ElsewhereStep
<1> QED
  BY <1>2, <1>3, <1>4

LEMMA NextKept ==
    ASSUME TypeInv, TypeInv', AccountInv, HoldInv, LastKeyCovers, SavedOnExit, [Next]_vars
    PROVE  [Account!Next]_(Account!vars)
<1>1. ASSUME NextJob PROVE Account!Next
  BY <1>1, RestartKept
<1>2. CASE DRestore
  BY <1>2, RestoreKept
<1>3. CASE DStarted
  BY <1>3, NoneClose
<1>4. CASE DLeaveLoop
  BY <1>4, CloseKept
<1>5. CASE DEnd
  BY <1>5, FinishKept
<1>6. ASSUME NEW r \in Receivers, DIgnore(r) \/ DSendPackage(r) PROVE Account!Next
  BY <1>6, GiveKept, WithholdKept
<1>7. ASSUME NEW r \in Receivers,
             RHandOver(r) \/ RDeliveryFails(r) \/ RDrop(r) \/ RTerminate(r)
      PROVE  Account!Next
  BY <1>7, HandOverKept, DropKept
<1>8. ASSUME \/ Barrier1 \/ DSendStart \/ DTestsome \/ DSendOOB \/ DBeginShutdown
             \/ DArrive \/ Barrier2 \/ SignalD \/ UNCHANGED vars
             \/ \E r \in Receivers : \/ DRecvStart(r) \/ DTaskGone(r) \/ DTaskTerminates(r)
                                     \/ DDrain(r) \/ DDismiss(r) \/ DFinal(r)
      PROVE  UNCHANGED Account!vars
  BY <1>8, DistributorUnseen
<1>9. ASSUME NEW r \in Receivers,
             \/ ROpenFails(r) \/ RStartFails(r) \/ RStart(r) \/ RExit(r) \/ RAsk(r) \/ RReply(r)
             \/ RWorkerStops(r) \/ RStopWorkers(r) \/ RFinal(r) \/ SignalR(r)
      PROVE  UNCHANGED Account!vars
  BY <1>9, ReceiverUnseen
<1> QED
  BY <1>1, <1>2, <1>3, <1>4, <1>5, <1>6, <1>7, <1>8, <1>9
     DEF Next, DistributorStep, ReceiverStep, FaultStep, Environment, Resume, Crash, Over

(***************************************************************************)
(* The job implements RecordJob: for any receivers, records, chunks and    *)
(* faults, TerminateJob and kills among them, every step of the            *)
(* distributor and its receivers gives out the next records of the store,  *)
(* hands over or drops what one receiver carries, saves, removes or        *)
(* restores a checkpoint of what is not ahead, or does nothing to records. *)
(***************************************************************************)
THEOREM AccountKeeps == Spec => AccountKept
<1> DEFINE Inv == TypeInv /\ AccountInv /\ HoldInv /\ LastKeyCovers /\ SavedOnExit
<1>1. Init => Inv
  BY InitTypeInv, InitAccount, InitHold
<1>2. Inv /\ [Next]_vars => Inv'
  BY NextTypeInv, NextAccount, NextHold, NextLastKey, NextSaved
<1>3. Init => Account!Init
  BY InitKept
<1>4. Inv /\ Inv' /\ [Next]_vars => [Account!Next]_(Account!vars)
  BY NextKept
<1> HIDE DEF Inv
<1> QED
  BY <1>1, <1>2, <1>3, <1>4, PTL DEF Spec, AccountKept, Account!Spec
=============================================================================
