------------------------ MODULE PackageWorkers_proofs ------------------------
(***************************************************************************)
(* Proofs about PackageWorkers, for any number of workers and packages.    *)
(*                                                                         *)
(* The inductive invariant is about one worker and the two ends of its     *)
(* pipes at a time.  The safety properties speak of each worker that lives *)
(* and are inductive together, once it is known that a request of a worker *)
(* that lives says "OK" and that whoever has its request to stop is on     *)
(* _pendingExit, so that the receiver gives it no package any more.        *)
(***************************************************************************)
EXTENDS PackageWorkersProperties, SequenceTheorems, FiniteSetTheorems, TLAPS

Fits(w) == OnItsWay(w) = Due(w) \/ (OnItsWay(w) = <<>> /\ wpc[w] = "wait")

(* The request of a worker, while there is a receiver to read it.          *)
RequestTrue(w) ==
    /\ toM[w] = <<>> \/ toM[w] = <<"OK">>
    /\ toM[w] # <<>> => wpc[w] = "wait" /\ OnItsWay(w) = <<>>
    /\ wpc[w] = "wait" => toM[w] # <<>> \/ OnItsWay(w) # <<>> \/ stop[w]

WorkerInv(w) ==
    /\ stop[w] => w \in pendingExit /\ OnItsWay(w) = <<>>
    /\ Alive(w) => w \in working /\ Fits(w)
    /\ Alive(w) /\ rpc # "over" => RequestTrue(w)

(* A turn of shutdown()'s loop is one of those still to do.                *)
TurnsLeft == rpc = "select" => left > 0

IInv == TypeOK /\ TurnsLeft /\ \A w \in Workers : WorkerInv(w)

USE PackageAssumption
-----------------------------------------------------------------------------
LEMMA InitTypes == Init => TypeOK /\ TurnsLeft
  BY DEF Init, TypeOK, TurnsLeft, Workers, ReceiverPC, WorkerPC, TaskStatus

(* The set of the workers that work is finite, and no larger than theirs.  *)
LEMMA WorkingCount ==
    ASSUME TypeOK
    PROVE  Cardinality(working) \in 0 .. NumWorkers
           /\ (working # {} => Cardinality(working) > 0)
<1>1. IsFiniteSet(Workers) /\ Cardinality(Workers) = NumWorkers
  BY FS_Interval DEF Workers
<1>2. working \in SUBSET Workers
  BY DEF TypeOK
<1> QED
  BY <1>1, <1>2, FS_Subset, FS_CardinalityType, FS_EmptySet

LEMMA HearTypes ==
    ASSUME TypeOK, NEW w \in Workers, toM[w] # <<>>, Hear(w)
    PROVE  /\ toM' \in [Workers -> Seq(TaskStatus)]
           /\ \A v \in Workers \ {w} : toM'[v] = toM[v]
           /\ toM'[w] = Tail(toM[w])
<1>1. toM[w] \in Seq(TaskStatus)
  BY DEF TypeOK
<1>2. Tail(toM[w]) \in Seq(TaskStatus)
  BY <1>1, HeadTailProperties
<1> QED
  BY <1>2 DEF TypeOK, Hear

(* The steps of a worker change its own state only.                        *)
LEMMA WorkerTypes ==
    ASSUME TypeOK, NEW w \in Workers, WorkerStep(w)
    PROVE  TypeOK'
<1> USE DEF TypeOK
<1>1. ASSUME NEW loc \in WorkerPC, WGoTo(w, loc)
      PROVE  wpc' \in [Workers -> WorkerPC]
  BY <1>1 DEF WGoTo
<1>2. CASE WStart(w) \/ WStops(w) \/ WGivesUp(w)
  BY <1>1, <1>2 DEF WStart, WStops, WGivesUp, WorkerPC, recvVars, mgrVars
<1>3. CASE WReports(w)
  <2>1. StatusSent(w) \in TaskStatus
    BY DEF StatusSent, TaskStatus
  <2>2. Append(toM[w], StatusSent(w)) \in Seq(TaskStatus)
    BY <2>1, AppendProperties
  <2>3. toM' \in [Workers -> Seq(TaskStatus)]
    BY <1>3, <2>2 DEF WReports
  <2> QED
    BY <1>1, <1>3, <2>1, <2>3 DEF WReports, WorkerPC, recvVars, mgrVars
<1>4. CASE WReceives(w)
  <2>1. Tail(toW[w]) \in Seq(Part)
    BY <1>4, HeadTailProperties DEF WReceives
  <2>2. AfterPart[wpc[w]] \in WorkerPC
    BY <1>4 DEF WReceives, AfterPart, WorkerPC
  <2>3. toW' \in [Workers -> Seq(Part)]
    BY <1>4, <2>1 DEF WReceives
  <2> QED
    BY <1>1, <1>4, <2>2, <2>3 DEF WReceives, recvVars, mgrVars
<1>5. CASE WReadsEnd(w)
  BY <1>1, <1>5 DEF WReadsEnd, WorkerPC, TaskStatus, recvVars, mgrVars
<1>6. CASE WProcesses(w)
  <2>1. PICK o \in Outcomes :
          IF o = "Dies" THEN WGoTo(w, "dead") /\ UNCHANGED wstat
          ELSE WGoTo(w, "top") /\ wstat' = [wstat EXCEPT ![w] = o]
    BY <1>6 DEF WProcesses
  <2>2. o # "Dies" => o \in TaskStatus
    BY DEF AllOutcomes, TaskStatus
  <2>3. wstat' \in [Workers -> TaskStatus] /\ wpc' \in [Workers -> WorkerPC]
    BY <1>1, <2>1, <2>2 DEF WorkerPC
  <2> QED
    BY <1>6, <2>3 DEF WProcesses, recvVars, mgrVars
<1> QED
  BY <1>2, <1>3, <1>4, <1>5, <1>6 DEF WorkerStep

LEMMA ReceiverTypes ==
    ASSUME TypeOK, TurnsLeft, ReceiverStep
    PROVE  TypeOK' /\ TurnsLeft'
<1> USE DEF TypeOK, TurnsLeft
<1>1. ASSUME NEW c \in ExitConditions, LeaveWith(c) PROVE TypeOK' /\ TurnsLeft'
  BY <1>1 DEF LeaveWith, Spare, Interrupt, Kill, ExitConditions, ReceiverPC,
              WorkerPC, mgrVars
<1>2. CASE RFlagged \/ RCommanded
  <2>1. PICK c \in ExitConditions : LeaveWith(c)
    BY <1>2 DEF RFlagged, RCommanded, ExitConditions
  <2> QED
    BY <1>1, <2>1
<1>3. CASE RPackage \/ RNoWorkers \/ RDrop \/ RNothingToStop \/ RCloses
  BY <1>3 DEF RPackage, RNoWorkers, RDrop, RNothingToStop, RCloses, ReceiverPC,
              mgrVars, workVars
<1>4. CASE RSends
  <2>1. PartSent[rpc] \in Part /\ NextPart[rpc] \in ReceiverPC \ {"select"}
    BY <1>4 DEF RSends, PartSent, NextPart, Part, ReceiverPC
  <2>2. Append(toW[chosen], PartSent[rpc]) \in Seq(Part)
    BY <2>1, AppendProperties
  <2>3. toW' \in [Workers -> Seq(Part)]
    BY <1>4, <2>2 DEF RSends
  <2> QED
    BY <1>4, <2>1, <2>3 DEF RSends, mgrVars, workVars, ReceiverPC
<1>5. CASE RBeginStopping
  BY <1>5, WorkingCount DEF RBeginStopping, Stopping, ReceiverPC, mgrVars, workVars
<1>6. ASSUME NEW w \in Workers, AskStop(w)
      PROVE  pendingExit' \subseteq Workers /\ stop' \in [Workers -> BOOLEAN]
  BY <1>6 DEF AskStop
<1>7. ASSUME NEW w \in Workers, RHearsLeaving(w) PROVE TypeOK' /\ TurnsLeft'
  BY <1>6, <1>7, HearTypes DEF RHearsLeaving, recvVars
<1>8. ASSUME NEW w \in Workers, RHearsOK(w) \/ RHearsTerminate(w)
      PROVE  TypeOK' /\ TurnsLeft'
  BY <1>8, HearTypes DEF RHearsOK, RHearsTerminate, ReceiverPC, mgrVars, workVars
<1>9. ASSUME NEW w \in Workers, RHearsWidow(w) \/ RStopWidowed(w)
      PROVE  TypeOK' /\ TurnsLeft'
  BY <1>9 DEF RHearsWidow, RStopWidowed, ReceiverPC, mgrVars, workVars
<1>10. ASSUME NEW w \in Workers, RStopsOne(w) PROVE TypeOK' /\ TurnsLeft'
  <2>1. left \in 1 .. NumWorkers /\ left - 1 \in 0 .. NumWorkers
    BY <1>10 DEF RStopsOne
  <2>2. toM' \in [Workers -> Seq(TaskStatus)]
    BY <1>10, HearTypes DEF RStopsOne, Speaks
  <2>3. armed' \subseteq Workers /\ rpc' \in ReceiverPC
        /\ (rpc' = "select" => left # 1)
    BY <1>10 DEF RStopsOne, ReceiverPC
  <2> QED
    BY <1>6, <1>10, <2>1, <2>2, <2>3 DEF RStopsOne
<1> QED
  BY <1>2, <1>3, <1>4, <1>5, <1>7, <1>8, <1>9, <1>10 DEF ReceiverStep

LEMMA NextTypes == TypeOK /\ TurnsLeft /\ [Next]_vars => TypeOK' /\ TurnsLeft'
<1> SUFFICES ASSUME TypeOK, TurnsLeft, [Next]_vars PROVE TypeOK' /\ TurnsLeft'
  OBVIOUS
<1>1. CASE RSignal
  BY <1>1 DEF TypeOK, TurnsLeft, RSignal, mgrVars, workVars
<1>2. ASSUME NEW w \in Workers, Reap(w) \/ WSignal(w) PROVE TypeOK' /\ TurnsLeft'
  BY <1>2 DEF TypeOK, TurnsLeft, Reap, WSignal, recvVars, mgrVars, workVars
<1>3. ASSUME NEW w \in Workers, WorkerStep(w) PROVE TypeOK' /\ TurnsLeft'
  <2>1. UNCHANGED recvVars
    BY <1>3 DEF WorkerStep, WStart, WStops, WReports, WGivesUp, WReceives,
                WReadsEnd, WProcesses
  <2> QED
    BY <1>3, <2>1, WorkerTypes DEF TurnsLeft, recvVars
<1>4. CASE Over \/ UNCHANGED vars
  BY <1>4 DEF Over, TypeOK, TurnsLeft, vars, recvVars, mgrVars, workVars
<1> QED
  BY <1>1, <1>2, <1>3, <1>4, ReceiverTypes DEF Next

(* TypeOK: every variable keeps its type; shutdown() never does more turns *)
(* than it counted.                                                        *)
THEOREM TypeCorrect == Spec => []TypeOK
<1>1. Spec => [](TypeOK /\ TurnsLeft)
  BY InitTypes, NextTypes, PTL DEF Spec
<1> QED
  BY <1>1, PTL

-----------------------------------------------------------------------------
(* Reading a pipe takes the first part of what is on its way, writing to   *)
(* it moves a part from what is unsent.                                    *)
LEMMA TailOfConcat ==
    ASSUME NEW S, NEW s \in Seq(S), s # <<>>, NEW t \in Seq(S)
    PROVE  Tail(s) \o t = Tail(s \o t) /\ s \o t # <<>>
<1>1. /\ Tail(s) \in Seq(S) /\ Len(Tail(s)) = Len(s) - 1 /\ Len(s) \in Nat \ {0}
      /\ \A i \in 1 .. Len(s) - 1 : Tail(s)[i] = s[i + 1]
  BY HeadTailProperties, EmptySeq
<1>2. /\ s \o t \in Seq(S) /\ Len(s \o t) = Len(s) + Len(t) /\ Len(t) \in Nat
      /\ \A i \in 1 .. Len(s) + Len(t) :
            (s \o t)[i] = IF i <= Len(s) THEN s[i] ELSE t[i - Len(s)]
  BY ConcatProperties, LenProperties
<1>3. s \o t # <<>>
  BY <1>1, <1>2, EmptySeq
<1>4. /\ Tail(s \o t) \in Seq(S) /\ Len(Tail(s \o t)) = Len(s) + Len(t) - 1
      /\ \A i \in 1 .. Len(s) + Len(t) - 1 : Tail(s \o t)[i] = (s \o t)[i + 1]
  BY <1>2, <1>3, HeadTailProperties
<1>5. /\ Tail(s) \o t \in Seq(S) /\ Len(Tail(s) \o t) = Len(s) - 1 + Len(t)
      /\ \A i \in 1 .. Len(s) - 1 + Len(t) :
            (Tail(s) \o t)[i] = IF i <= Len(s) - 1 THEN Tail(s)[i]
                                ELSE t[i - (Len(s) - 1)]
  BY <1>1, ConcatProperties
<1>6. ASSUME NEW i \in 1 .. Len(Tail(s) \o t)
      PROVE  (Tail(s) \o t)[i] = Tail(s \o t)[i]
  <2>1. i \in 1 .. Len(s) - 1 + Len(t) /\ i + 1 \in 1 .. Len(s) + Len(t)
    BY <1>1, <1>2, <1>5
  <2>2. Tail(s \o t)[i] = IF i + 1 <= Len(s) THEN s[i + 1] ELSE t[i + 1 - Len(s)]
    BY <1>1, <1>2, <1>4, <2>1
  <2>3. i - (Len(s) - 1) = i + 1 - Len(s)
    BY <1>1, <2>1
  <2> QED
    BY <1>1, <1>2, <1>5, <2>1, <2>2, <2>3
<1>7. Len(Tail(s) \o t) = Len(Tail(s \o t))
  BY <1>1, <1>2, <1>4, <1>5
<1> QED
  BY <1>3, <1>4, <1>5, <1>6, <1>7, SeqEqual

LEMMA AppendToConcat ==
    ASSUME NEW S, NEW s \in Seq(S), NEW t \in Seq(S), NEW e \in S
    PROVE  Append(s, e) \o t = s \o (<<e>> \o t)
<1>1. <<e>> \in Seq(S)
  OBVIOUS
<1> QED
  BY <1>1, AppendIsConcat, ConcatAssociative

(* Sequences of two and of three elements from their first.                *)
LEMMA ShortConcat ==
    ASSUME NEW S, NEW a \in S, NEW b \in S, NEW c \in S
    PROVE  <<a>> \o <<b>> = <<a, b>> /\ <<a>> \o <<b, c>> = <<a, b, c>>
<1>1. /\ <<a>> \in Seq(S) /\ <<b>> \in Seq(S) /\ <<b, c>> \in Seq(S)
      /\ <<a, b>> \in Seq(S) /\ <<a, b, c>> \in Seq(S)
  OBVIOUS
<1>2. /\ Len(<<a>>) = 1 /\ Len(<<b>>) = 1 /\ Len(<<b, c>>) = 2
      /\ Len(<<a, b>>) = 2 /\ Len(<<a, b, c>>) = 3
  OBVIOUS
<1>3. <<a>> \o <<b>> = <<a, b>>
  <2>1. /\ <<a>> \o <<b>> \in Seq(S) /\ Len(<<a>> \o <<b>>) = 2
        /\ \A i \in 1 .. 2 : (<<a>> \o <<b>>)[i] = IF i <= 1 THEN <<a>>[i]
                                                  ELSE <<b>>[i - 1]
    BY <1>1, <1>2, ConcatProperties
  <2>2. (<<a>> \o <<b>>)[1] = a /\ (<<a>> \o <<b>>)[2] = b
    BY <2>1
  <2>3. \A i \in 1 .. 2 : (<<a>> \o <<b>>)[i] = <<a, b>>[i]
    BY <2>2
  <2> QED
    BY <1>1, <1>2, <2>1, <2>3, SeqEqual
<1>4. <<a>> \o <<b, c>> = <<a, b, c>>
  <2>1. /\ <<a>> \o <<b, c>> \in Seq(S) /\ Len(<<a>> \o <<b, c>>) = 3
        /\ \A i \in 1 .. 3 : (<<a>> \o <<b, c>>)[i] =
              IF i <= 1 THEN <<a>>[i] ELSE <<b, c>>[i - 1]
    BY <1>1, <1>2, ConcatProperties
  <2>2. /\ (<<a>> \o <<b, c>>)[1] = a /\ (<<a>> \o <<b, c>>)[2] = b
        /\ (<<a>> \o <<b, c>>)[3] = c
    BY <2>1
  <2>3. \A i \in 1 .. 3 : (<<a>> \o <<b, c>>)[i] = <<a, b, c>>[i]
    BY <2>2
  <2> QED
    BY <1>1, <1>2, <2>1, <2>3, SeqEqual
<1> QED
  BY <1>3, <1>4

(* The parts of a package, and what is left of them.                       *)
LEMMA PackageParts ==
    /\ <<"Continue", "Count", "Data">> \in Seq(Part)
    /\ <<"Count", "Data">> \in Seq(Part)
    /\ <<"Data">> \in Seq(Part) /\ <<>> \in Seq(Part)
    /\ <<"Continue">> \o <<"Count", "Data">> = <<"Continue", "Count", "Data">>
    /\ <<"Count">> \o <<"Data">> = <<"Count", "Data">>
    /\ <<"Data">> \o <<>> = <<"Data">>
<1>1. /\ <<"Continue", "Count", "Data">> \in Seq(Part)
      /\ <<"Count", "Data">> \in Seq(Part)
      /\ <<"Data">> \in Seq(Part) /\ <<>> \in Seq(Part)
  BY DEF Part
<1>2. "Continue" \in Part /\ "Count" \in Part /\ "Data" \in Part
  BY DEF Part
<1>3. <<"Continue">> \o <<"Count", "Data">> = <<"Continue", "Count", "Data">>
  BY <1>2, ShortConcat
<1>4. <<"Count">> \o <<"Data">> = <<"Count", "Data">>
  BY <1>2, ShortConcat
<1>5. <<"Data">> \o <<>> = <<"Data">>
  BY <1>1, ConcatEmptySeq
<1> QED
  BY <1>1, <1>3, <1>4, <1>5

(* What a worker reads next.                                               *)
LEMMA DueTails ==
    /\ Tail(<<"Continue", "Count", "Data">>) = <<"Count", "Data">>
    /\ Tail(<<"Count", "Data">>) = <<"Data">>
    /\ Tail(<<"Data">>) = <<>>
  OBVIOUS

(* What is unsent is a sequence of parts, the first of which is sent next. *)
LEMMA UnsentParts ==
    ASSUME TypeOK, NEW w \in Workers
    PROVE  /\ Unsent(w) \in Seq(Part) /\ toW[w] \in Seq(Part)
           /\ Due(w) \in Seq(Part)
           /\ rpc \notin {"command", "count", "data"} => OnItsWay(w) = toW[w]
           /\ chosen # w => OnItsWay(w) = toW[w]
<1>2. Unsent(w) \in Seq(Part) /\ Due(w) \in Seq(Part)
  BY PackageParts DEF Unsent, Due
<1>3. toW[w] \in Seq(Part)
  BY DEF TypeOK
<1>4. rpc \notin {"command", "count", "data"} => Unsent(w) = <<>>
  BY DEF Unsent
<1>5. chosen # w => Unsent(w) = <<>>
  BY DEF Unsent
<1> QED
  BY <1>2, <1>3, <1>4, <1>5, ConcatEmptySeq DEF OnItsWay

-----------------------------------------------------------------------------
(* A worker dies, or nothing changes for it.                               *)
LEMMA WorkerRests ==
    ASSUME NEW w \in Workers, WorkerInv(w),
           toW'[w] = toW[w], Unsent(w)' = Unsent(w) \/ ~Alive(w)',
           w \in working /\ Alive(w)' => w \in working',
           stop'[w] => stop[w] /\ Unsent(w)' = Unsent(w),
           pendingExit \subseteq pendingExit',
           \/ ~Alive(w)'
           \/ /\ wpc'[w] = wpc[w] /\ toM'[w] = toM[w] /\ stop'[w] = stop[w]
              /\ rpc = "over" => rpc' = "over"
    PROVE  WorkerInv(w)'
<1>1. Unsent(w)' = Unsent(w) => OnItsWay(w)' = OnItsWay(w)
  BY DEF OnItsWay
<1>2. stop'[w] => w \in pendingExit' /\ OnItsWay(w)' = <<>>
  BY <1>1 DEF WorkerInv
<1>3. CASE ~Alive(w)'
  BY <1>2, <1>3 DEF WorkerInv
<1>4. CASE Alive(w)'
  <2>1. OnItsWay(w)' = OnItsWay(w) /\ Due(w)' = Due(w) /\ Alive(w)
    BY <1>1, <1>4 DEF Due, Alive
  <2> QED
    BY <1>2, <1>4, <2>1 DEF WorkerInv, Fits, RequestTrue
<1> QED
  BY <1>3, <1>4

(* The receiver goes on without having written a part.                     *)
LEMMA ReceiverRests ==
    ASSUME IInv, TypeOK', UNCHANGED <<toM, toW, stop>>,
           pendingExit \subseteq pendingExit',
           \A w \in Workers : /\ wpc'[w] = wpc[w] \/ wpc'[w] = "dead"
                              /\ w \in working /\ Alive(w)' => w \in working',
           rpc = "over" => rpc' = "over",
           \/ UNCHANGED <<rpc, chosen>>
           \/ /\ rpc \notin {"command", "count", "data"}
              /\ rpc' \notin {"command", "count", "data"}
    PROVE  \A w \in Workers : WorkerInv(w)'
<1> SUFFICES ASSUME NEW w \in Workers PROVE WorkerInv(w)'
  OBVIOUS
<1>1. WorkerInv(w)
  BY DEF IInv
<1>2. Unsent(w)' = Unsent(w)
  BY DEF Unsent
<1> QED
  BY <1>1, <1>2, WorkerRests DEF Alive

(* The request of a worker is heard: it is gone if that is not "OK".       *)
LEMMA HeardRequest ==
    ASSUME IInv, TypeOK', NEW w \in Workers, toM[w] # <<>>, Hear(w), rpc # "over"
    PROVE  /\ \A v \in Workers \ {w} : toM'[v] = toM[v]
           /\ Alive(w) => /\ Head(toM[w]) = "OK" /\ wpc[w] = "wait"
                          /\ OnItsWay(w) = <<>> /\ toM'[w] = <<>>
<1>1. TypeOK /\ WorkerInv(w)
  BY DEF IInv
<1>2. toM'[w] = Tail(toM[w]) /\ \A v \in Workers \ {w} : toM'[v] = toM[v]
  BY <1>1, HearTypes
<1>3. Alive(w) => toM[w] = <<"OK">> /\ wpc[w] = "wait" /\ OnItsWay(w) = <<>>
  BY <1>1 DEF WorkerInv, RequestTrue
<1>4. Head(<<"OK">>) = "OK" /\ Tail(<<"OK">>) = <<>>
  OBVIOUS
<1> QED
  BY <1>2, <1>3, <1>4

LEMMA HearsOKKeeps ==
    ASSUME IInv, TypeOK', NEW v \in Workers, RHearsOK(v)
    PROVE  \A w \in Workers : WorkerInv(w)'
<1> SUFFICES ASSUME NEW w \in Workers PROVE WorkerInv(w)'
  OBVIOUS
<1>1. /\ WorkerInv(w) /\ TypeOK /\ rpc = "deliver" /\ rpc' = "command"
      /\ chosen' = v /\ v \notin pendingExit
      /\ UNCHANGED <<working, pendingExit, wpc, stop, toW>>
  BY DEF IInv, RHearsOK, Delivering, Active, mgrVars, workVars
<1>2. CASE w # v
  <2>1. Unsent(w)' = Unsent(w)
    BY <1>1, <1>2 DEF Unsent
  <2>2. toM'[w] = toM[w]
    BY <1>1, <1>2, HeardRequest DEF RHearsOK
  <2> QED
    BY <1>1, <2>1, <2>2, WorkerRests
<1>3. CASE w = v
  <2>1. ~stop'[w]
    BY <1>1, <1>3 DEF WorkerInv
  <2>2. ASSUME Alive(w) PROVE Fits(w)' /\ RequestTrue(w)'
    <3>1. wpc[w] = "wait" /\ OnItsWay(w) = <<>> /\ toM'[w] = <<>>
      BY <1>1, <1>3, <2>2, HeardRequest DEF RHearsOK
    <3>2. OnItsWay(w) = toW[w]
      BY <1>1, UnsentParts
    <3>3. Unsent(w)' = <<"Continue", "Count", "Data">>
      BY <1>1, <1>3 DEF Unsent
    <3>4. OnItsWay(w)' = <<"Continue", "Count", "Data">>
      <4>2. <<>> \o <<"Continue", "Count", "Data">> = <<"Continue", "Count", "Data">>
        BY PackageParts, ConcatEmptySeq
      <4> QED
        BY <1>1, <3>1, <3>2, <3>3, <4>2 DEF OnItsWay
    <3>5. Due(w)' = <<"Continue", "Count", "Data">>
      BY <1>1, <3>1 DEF Due
    <3>6. OnItsWay(w)' # <<>>
      BY <3>4
    <3> QED
      BY <3>1, <3>4, <3>5, <3>6 DEF Fits, RequestTrue
  <2> QED
    BY <1>1, <2>1, <2>2 DEF WorkerInv, Alive
<1> QED
  BY <1>2, <1>3

(* A worker is asked to stop after its request was heard.                  *)
LEMMA StopKeeps ==
    ASSUME IInv, TypeOK', NEW v \in Workers, toM[v] # <<>>, Hear(v), AskStop(v),
           rpc \in {"deliver", "select"}, rpc' \in {"deliver", "select", "closing"},
           UNCHANGED <<working, wpc, toW, chosen>>
    PROVE  \A w \in Workers : WorkerInv(w)'
<1> SUFFICES ASSUME NEW w \in Workers PROVE WorkerInv(w)'
  OBVIOUS
<1>1. WorkerInv(w) /\ TypeOK /\ rpc # "over"
  BY DEF IInv
<1>2. Unsent(w)' = Unsent(w) /\ OnItsWay(w)' = OnItsWay(w) /\ Due(w)' = Due(w)
  BY DEF Unsent, OnItsWay, Due
<1>3. pendingExit' = pendingExit \cup {v}
  BY DEF AskStop
<1>4. CASE w # v
  <2>1. stop'[w] = stop[w] /\ toM'[w] = toM[w]
    BY <1>1, <1>4, HeardRequest DEF AskStop, TypeOK
  <2> QED
    BY <1>1, <1>2, <1>3, <2>1, WorkerRests DEF Alive
<1>5. CASE w = v /\ ~Alive(w)
  <2>1. stop'[w] = stop[w]
    BY <1>1, <1>5 DEF AskStop, TypeOK
  <2> QED
    BY <1>1, <1>2, <1>3, <1>5, <2>1 DEF WorkerInv, Alive
<1>6. CASE w = v /\ Alive(w)
  <2>1. /\ Head(toM[w]) = "OK" /\ wpc[w] = "wait"
        /\ OnItsWay(w) = <<>> /\ toM'[w] = <<>>
    BY <1>1, <1>6, HeardRequest
  <2>2. stop'[w]
    BY <1>1, <1>6 DEF AskStop, TypeOK, WorkerInv
  <2> QED
    BY <1>1, <1>2, <1>3, <1>6, <2>1, <2>2 DEF WorkerInv, Fits, RequestTrue, Alive
<1> QED
  BY <1>4, <1>5, <1>6

(* The next part of a package is written.                                  *)
LEMMA SendsKeeps ==
    ASSUME IInv, TypeOK', RSends
    PROVE  \A w \in Workers : WorkerInv(w)'
<1> SUFFICES ASSUME NEW w \in Workers PROVE WorkerInv(w)'
  OBVIOUS
<1>1. /\ WorkerInv(w) /\ TypeOK /\ chosen \in Workers /\ chosen' = chosen
      /\ rpc \in {"command", "count", "data"} /\ rpc' # "over"
      /\ UNCHANGED <<working, pendingExit, wpc, stop, toM>>
  BY DEF IInv, TypeOK, RSends, mgrVars, workVars, NextPart
<1>2. CASE w # chosen
  <2>1. Unsent(w)' = Unsent(w)
    BY <1>1, <1>2 DEF Unsent
  <2>2. toW'[w] = toW[w]
    BY <1>1, <1>2 DEF RSends, TypeOK
  <2> QED
    BY <1>1, <2>1, <2>2, WorkerRests
<1>3. CASE w = chosen /\ ~Alive(w)
  <2>1. ~stop[w]
    <3>1. Unsent(w) # <<>>
      BY <1>1, <1>3 DEF Unsent
    <3>2. OnItsWay(w) # <<>>
      BY <1>1, <3>1, UnsentParts, ConcatEqualIffEmpty DEF OnItsWay
    <3> QED
      BY <1>1, <3>2 DEF WorkerInv
  <2> QED
    BY <1>1, <1>3, <2>1 DEF WorkerInv, Alive
<1>4. CASE w = chosen /\ Alive(w)
  <2>1. toW'[w] = Append(toW[w], PartSent[rpc]) /\ rpc' = NextPart[rpc]
    BY <1>1, <1>4 DEF RSends, TypeOK
  <2>2. /\ Unsent(w)' \in Seq(Part) /\ PartSent[rpc] \in Part
        /\ Unsent(w) = <<PartSent[rpc]>> \o Unsent(w)'
    <3>1. CASE rpc = "command"
      BY <1>1, <1>4, <2>1, <3>1, PackageParts DEF Unsent, NextPart, PartSent, Part
    <3>2. CASE rpc = "count"
      BY <1>1, <1>4, <2>1, <3>2, PackageParts DEF Unsent, NextPart, PartSent, Part
    <3>3. CASE rpc = "data"
      BY <1>1, <1>4, <2>1, <3>3, PackageParts DEF Unsent, NextPart, PartSent, Part
    <3> QED
      BY <1>1, <3>1, <3>2, <3>3
  <2>3. OnItsWay(w)' = OnItsWay(w)
    <3>1. toW[w] \in Seq(Part)
      BY <1>1 DEF TypeOK
    <3>2. Append(toW[w], PartSent[rpc]) \o Unsent(w)'
            = toW[w] \o (<<PartSent[rpc]>> \o Unsent(w)')
      BY <2>2, <3>1, AppendToConcat
    <3> QED
      BY <2>1, <2>2, <3>2 DEF OnItsWay
  <2>4. Due(w)' = Due(w)
    BY <1>1 DEF Due
  <2> QED
    BY <1>1, <2>3, <2>4 DEF WorkerInv, Fits, RequestTrue, Alive
<1> QED
  BY <1>2, <1>3, <1>4

-----------------------------------------------------------------------------
(* The steps of a worker.                                                  *)
LEMMA WorkerStepKeeps ==
    ASSUME IInv, TypeOK', NEW v \in Workers, WorkerStep(v)
    PROVE  \A w \in Workers : WorkerInv(w)'
<1>1. /\ TypeOK /\ WorkerInv(v) /\ UNCHANGED <<rpc, chosen>>
      /\ UNCHANGED <<working, pendingExit, stop>>
      /\ Unsent(v)' = Unsent(v)
  BY DEF IInv, WorkerStep, WStart, WStops, WReports, WGivesUp, WReceives,
         WReadsEnd, WProcesses, recvVars, mgrVars, Unsent
<1>2. ASSUME NEW w \in Workers \ {v} PROVE WorkerInv(w)'
  <2>1. /\ WorkerInv(w) /\ wpc'[w] = wpc[w] /\ toM'[w] = toM[w]
        /\ toW'[w] = toW[w]
    BY <1>1, <1>2 DEF IInv, WorkerStep, WStart, WStops, WReports, WGivesUp,
       WReceives, WReadsEnd, WProcesses, WGoTo, TypeOK
  <2>2. Unsent(w)' = Unsent(w)
    BY <1>1 DEF Unsent
  <2> QED
    BY <1>1, <2>1, <2>2, WorkerRests DEF Alive
<1> SUFFICES WorkerInv(v)'
  BY <1>2
<1>3. ASSUME toW' = toW, wpc'[v] = "dead" PROVE WorkerInv(v)'
  BY <1>1, <1>3, WorkerRests DEF Alive
<1>4. ASSUME NEW loc \in WorkerPC, WGoTo(v, loc) PROVE wpc'[v] = loc
  BY <1>1, <1>4 DEF WGoTo, TypeOK
<1>5. ASSUME toW' = toW, wpc[v] \notin {"wait", "count", "data", "dead"},
             wpc'[v] = "top", toM' = toM
      PROVE  WorkerInv(v)'
  <2>1. OnItsWay(v)' = OnItsWay(v) /\ Due(v)' = <<>> /\ Due(v) = <<>>
    BY <1>1, <1>5 DEF OnItsWay, Due
  <2> QED
    BY <1>1, <1>5, <2>1 DEF WorkerInv, Fits, RequestTrue, Alive
<1>6. CASE WStart(v)
  BY <1>3, <1>4, <1>5, <1>6 DEF WStart, WorkerPC
<1>7. CASE WStops(v) \/ WGivesUp(v)
  BY <1>3, <1>4, <1>7 DEF WStops, WGivesUp, WorkerPC
<1>8. CASE WReports(v)
  <2>1. /\ ~stop[v] /\ wpc[v] = "top" /\ toW' = toW
        /\ wpc'[v] = "dead" \/ wpc'[v] = "wait"
    BY <1>4, <1>8 DEF WReports, WorkerPC
  <2>2. ASSUME wpc'[v] = "wait" PROVE WorkerInv(v)'
    <3>1. (OnItsWay(v) = <<>> /\ toM[v] = <<>>) \/ rpc = "over"
      BY <1>1, <2>1 DEF WorkerInv, Fits, RequestTrue, Due, Alive
    <3>2. ~Widowed(v) /\ StatusSent(v) = "OK"
      BY <1>4, <1>8, <2>2 DEF WReports, WorkerPC
    <3>3. toM'[v] = Append(toM[v], "OK")
      BY <1>1, <1>8, <3>2 DEF WReports, TypeOK
    <3>4. OnItsWay(v)' = <<>>
      BY <1>1, <2>1 DEF WorkerInv, Fits, Due, Alive, OnItsWay
    <3>5. Append(<<>>, "OK") = <<"OK">> /\ <<"OK">> # <<>>
      OBVIOUS
    <3>6. rpc # "over" => toM'[v] = <<"OK">>
      BY <3>1, <3>3, <3>5
    <3> QED
      BY <1>1, <2>1, <2>2, <3>4, <3>5, <3>6 DEF WorkerInv, Fits, RequestTrue, Alive
  <2> QED
    BY <1>3, <2>1, <2>2
<1>9. CASE WReceives(v)
  <2>1. /\ wpc[v] \in {"wait", "count", "data"} /\ toW[v] # <<>>
        /\ toW'[v] = Tail(toW[v]) /\ toM' = toM /\ toW[v] \in Seq(Part)
    BY <1>1, <1>9 DEF WReceives, TypeOK
  <2>2. wpc'[v] = AfterPart[wpc[v]]
    BY <1>1, <1>9 DEF WReceives, WGoTo, TypeOK
  <2>3. Unsent(v) \in Seq(Part)
    BY <1>1, UnsentParts
  <2>4. OnItsWay(v)' = Tail(OnItsWay(v)) /\ OnItsWay(v) # <<>>
    BY <1>1, <2>1, <2>3, TailOfConcat DEF OnItsWay
  <2>5. OnItsWay(v) = Due(v) /\ ~stop[v] /\ v \in working
    BY <1>1, <2>1, <2>4 DEF WorkerInv, Fits, Alive
  <2>6. Due(v)' = Tail(Due(v)) /\ wpc'[v] \in {"count", "data", "work"}
    <3>1. CASE wpc[v] = "wait"
      BY <2>2, <3>1, DueTails DEF Due, AfterPart
    <3>2. CASE wpc[v] = "count"
      BY <2>2, <3>2, DueTails DEF Due, AfterPart
    <3>3. CASE wpc[v] = "data"
      BY <2>2, <3>3, DueTails DEF Due, AfterPart
    <3> QED
      BY <2>1, <3>1, <3>2, <3>3
  <2>7. rpc # "over" => toM[v] = <<>>
    BY <1>1, <2>1, <2>4 DEF WorkerInv, RequestTrue, Alive
  <2> QED
    BY <1>1, <2>1, <2>4, <2>5, <2>6, <2>7 DEF WorkerInv, Fits, RequestTrue
<1>10. CASE WReadsEnd(v)
  <2>1. /\ rpc = "over" /\ toW[v] = <<>> /\ toW' = toW /\ wpc'[v] = "top"
        /\ wpc[v] \in {"wait", "count", "data"}
    BY <1>4, <1>10 DEF WReadsEnd, Widowed, WorkerPC
  <2>2. OnItsWay(v) = <<>> /\ OnItsWay(v)' = <<>>
    BY <1>1, <2>1, UnsentParts DEF OnItsWay
  <2>3. Due(v)' = <<>>
    BY <2>1 DEF Due
  <2> QED
    BY <1>1, <2>1, <2>2, <2>3 DEF WorkerInv, Fits, Alive
<1>11. CASE WProcesses(v)
  <2>1. /\ wpc[v] = "work" /\ toW' = toW /\ toM' = toM
        /\ wpc'[v] = "dead" \/ wpc'[v] = "top"
    BY <1>4, <1>11 DEF WProcesses, WorkerPC
  <2> QED
    BY <1>3, <1>5, <2>1
<1> QED
  BY <1>6, <1>7, <1>8, <1>9, <1>10, <1>11 DEF WorkerStep

(* The other steps of the receiver and the signals.                        *)
LEMMA ReceiverStepKeeps ==
    ASSUME IInv, TypeOK', ReceiverStep
    PROVE  \A w \in Workers : WorkerInv(w)'
<1>1. ASSUME NEW c \in ExitConditions, rpc = "request", LeaveWith(c)
      PROVE  \A w \in Workers : WorkerInv(w)'
  <2>1. /\ UNCHANGED <<toM, toW, stop, pendingExit, working>>
        /\ rpc' \notin {"command", "count", "data"}
        /\ \A w \in Workers : wpc'[w] = wpc[w] \/ wpc'[w] = "dead"
    BY <1>1 DEF LeaveWith, Spare, Interrupt, Kill, mgrVars, ExitConditions
  <2> QED
    BY <1>1, <2>1, ReceiverRests
<1>2. CASE RFlagged \/ RCommanded
  <2>1. PICK c \in ExitConditions : LeaveWith(c)
    BY <1>2 DEF RFlagged, RCommanded, ExitConditions
  <2> QED
    BY <1>1, <1>2, <2>1 DEF RFlagged, RCommanded
<1>3. CASE RPackage \/ RNoWorkers \/ RDrop \/ RBeginStopping
           \/ RNothingToStop \/ RCloses
           \/ \E w \in Workers : RHearsWidow(w) \/ RStopWidowed(w)
  <2>1. /\ UNCHANGED <<toM, toW, stop, pendingExit, working, wpc>>
        /\ rpc \in {"request", "deliver", "shutdown", "select", "closing"}
        /\ rpc' \notin {"command", "count", "data"}
    BY <1>3 DEF RPackage, RNoWorkers, RDrop, RBeginStopping, Stopping,
       RNothingToStop, RCloses, RHearsWidow, RStopWidowed, Delivering, mgrVars,
       workVars
  <2> QED
    BY <2>1, ReceiverRests
<1>4. CASE RSends
  BY <1>4, SendsKeeps
<1>5. ASSUME NEW v \in Workers, RHearsOK(v) PROVE \A w \in Workers : WorkerInv(w)'
  BY <1>5, HearsOKKeeps
<1>6. ASSUME NEW v \in Workers, RHearsLeaving(v)
      PROVE  \A w \in Workers : WorkerInv(w)'
  BY <1>6, StopKeeps DEF RHearsLeaving, Delivering, recvVars
<1>7. ASSUME NEW v \in Workers, RStopsOne(v)
      PROVE  \A w \in Workers : WorkerInv(w)'
  BY <1>7, StopKeeps DEF RStopsOne, Speaks
<1>8. ASSUME NEW v \in Workers, RHearsTerminate(v), NEW w \in Workers
      PROVE  WorkerInv(w)'
  <2>1. /\ TypeOK /\ WorkerInv(w) /\ rpc = "deliver" /\ rpc' = "request"
        /\ UNCHANGED <<chosen, toW, stop, pendingExit, working, wpc>>
        /\ toM[v] # <<>> /\ Hear(v) /\ Head(toM[v]) # "OK"
    BY <1>8 DEF IInv, RHearsTerminate, Delivering, mgrVars, workVars
  <2>2. ~Alive(v) /\ (w # v => toM'[w] = toM[w])
    BY <1>8, <2>1, HeardRequest
  <2>3. Unsent(w)' = Unsent(w)
    BY <2>1 DEF Unsent
  <2> QED
    BY <2>1, <2>2, <2>3, WorkerRests DEF Alive
<1> QED
  BY <1>2, <1>3, <1>4, <1>5, <1>6, <1>7, <1>8 DEF ReceiverStep

LEMMA NextInv == IInv /\ [Next]_vars => IInv'
<1> SUFFICES ASSUME IInv, [Next]_vars PROVE IInv'
  OBVIOUS
<1>1. TypeOK' /\ TurnsLeft'
  BY NextTypes DEF IInv
<1>2. CASE RSignal \/ Over \/ UNCHANGED vars
           \/ \E w \in Workers : Reap(w) \/ WSignal(w)
  <2>1. /\ UNCHANGED <<rpc, chosen, toM, toW, stop, pendingExit, wpc>>
        /\ \A w \in Workers : w \in working /\ Alive(w)' => w \in working'
    BY <1>2 DEF RSignal, Over, Reap, WSignal, Alive, vars, recvVars, mgrVars, workVars
  <2> QED
    BY <1>1, <2>1, ReceiverRests DEF IInv
<1> QED
  BY <1>1, <1>2, ReceiverStepKeeps, WorkerStepKeeps DEF IInv, Next

LEMMA InitInv == Init => IInv
<1> SUFFICES ASSUME Init PROVE IInv
  OBVIOUS
<1>1. TypeOK /\ TurnsLeft
  BY InitTypes
<1>2. ASSUME NEW w \in Workers PROVE WorkerInv(w)
  <2>1. /\ rpc = "request" /\ ~stop[w] /\ toM[w] = <<>> /\ toW[w] = <<>>
        /\ wpc[w] \in {"starting", "dead"} /\ working = forked
        /\ Alive(w) => w \in forked
    BY DEF Init, Alive
  <2>2. OnItsWay(w) = <<>> /\ Due(w) = <<>>
    BY <1>1, <2>1, UnsentParts DEF Due
  <2> QED
    BY <2>1, <2>2 DEF WorkerInv, Fits, RequestTrue
<1> QED
  BY <1>1, <1>2 DEF IInv

-----------------------------------------------------------------------------
(* The inductive invariant: of every worker that lives, what is in its     *)
(* pipes fits where it is, and whoever is told to stop is on _pendingExit  *)
(* with nothing under way.                                                 *)
THEOREM PipesCorrect == Spec => []IInv
  BY InitInv, NextInv, PTL DEF Spec

(* PartsMatch: the receiver and a worker that lives agree on which part of *)
(* a package comes next.                                                   *)
THEOREM PartsMatchCorrect == Spec => []PartsMatch
<1>1. IInv => PartsMatch
  BY DEF IInv, WorkerInv, Fits, PartsMatch
<1> QED
  BY <1>1, PipesCorrect, PTL

(* OneRequestAtATime: a worker that waits has exactly one of a request, a  *)
(* package and an order to stop.                                           *)
THEOREM OneRequestCorrect == Spec => []OneRequestAtATime
<1>1. Len(<<>>) <= 1 /\ Len(<<"OK">>) <= 1
  OBVIOUS
<1>2. IInv => OneRequestAtATime
  BY <1>1 DEF IInv, WorkerInv, RequestTrue, OneRequestAtATime
<1> QED
  BY <1>2, PipesCorrect, PTL

(* StopCostsNoPackage: no part of a package is on its way to a worker that *)
(* is told to stop.                                                        *)
THEOREM StopCorrect == Spec => []StopCostsNoPackage
<1>1. IInv => StopCostsNoPackage
  BY DEF IInv, WorkerInv, StopCostsNoPackage
<1> QED
  BY <1>1, PipesCorrect, PTL
=============================================================================
