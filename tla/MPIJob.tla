------------------------------- MODULE MPIJob -------------------------------
(***************************************************************************)
(* One MPI job of the MPI framework, and the jobs that resume it: the      *)
(* MPI::Distributor at rank 0 (be_mpi_distributor.cpp), one MPI::Receiver  *)
(* per other rank (be_mpi_receiver.cpp), their Control, Data and OOB       *)
(* messages, the exit conditions signals set (be_mpi_runtime.cpp), and the *)
(* checkpoint that survives a job (module RecordStoreDistributor).         *)
(*                                                                         *)
(* MPI keeps messages of one sender, receiver and tag in order: toD[r] and *)
(* toR[r] are the Control channels of receiver r.  A Continue command and  *)
(* the two Data messages that always follow it are one message carrying    *)
(* the package.  The messages are short, so a Send does not wait for its   *)
(* receive.  The worker processes of a receiver are a count here: what     *)
(* happens between a receiver and its workers is module PackageWorkers.    *)
(***************************************************************************)
EXTENDS RecordStoreDistributor, Sequences, FiniteSets

CONSTANTS Receivers,    \* ranks 1 .. N-1
          Workers,      \* Resources::getWorkersPerNode()
          Signals,      \* exit conditions the user's signals may set
          MaxSignals,   \* bound: signals delivered in all
          MaxJobs,      \* bound: jobs started, the resumed ones included
          Faults        \* what may go wrong, a subset of FaultKinds

ExitConditions == {"Exit", "QuickExit", "TermExit"}
FaultKinds == {"Logsheet",     \* Receiver: openLogsheet() throws
               "Start",        \* Receiver: no package processor or no worker
               "WorkerStops",  \* a worker leaves before the job is over
               "Terminate",    \* a package processor throws TerminateJob
               "Crash"}        \* the job is killed, or its node fails

ASSUME JobAssumption == /\ IsFiniteSet(Receivers)
                        /\ Receivers # {}
                        /\ Workers \in Nat \ {0}
                        /\ Signals \subseteq ExitConditions
                        /\ MaxSignals \in Nat
                        /\ MaxJobs \in Nat \ {0}
                        /\ Faults \subseteq FaultKinds

VARIABLES
    dpc,       \* where the distributor is
    active,    \* _activeMpiTasks
    awaited,   \* receivers whose start reply is still to be received
    posted,    \* receivers with an outstanding Irecv
    batch,     \* receivers whose Irecv Testsome completed, not handled yet
    haveWork,  \* distributeWork()'s haveWork
    exitCmd,   \* shutdown()'s taskCmd
    finals,    \* final messages received by shutdown()
    dflags,    \* the exit conditions set in rank 0
    rpc,       \* where each receiver is
    rflags,    \* the exit conditions set in each receiver
    workers,   \* active workers of each receiver
    status,    \* status each receiver will report last
    pkg,       \* package each receiver holds for a worker
    toD, toR,  \* Control messages to rank 0, and to each receiver
    oob,       \* undelivered OOB command to each receiver
    signals,   \* signals delivered so far
    job,       \* number of the running job
    handed,    \* records this job handed to a worker
    withheld,  \* records this job took off the store for an Ignored reply
    dropped,   \* records of packages no worker was given, this job
    saved,     \* this job saved its checkpoint
    earlier    \* records handed to workers by earlier jobs that saved

distVars == <<dpc, active, awaited, posted, batch, haveWork, exitCmd, finals>>
recvVars == <<rpc, workers, status, pkg>>
flagVars == <<dflags, rflags, signals>>
jobVars  == <<job, earlier>>
fateVars == <<handed, withheld, dropped, saved>>
vars == <<sourceVars, distVars, recvVars, flagVars, jobVars, fateVars,
          toD, toR, oob>>

DistributorPC == {"restore", "failed", "barrier1", "sendStart", "recvStart",
                  "distribute", "oob", "drain", "shutdown", "barrier2",
                  "final", "done"}
ReceiverPC == {"barrier1", "opening", "crashed", "ready", "asking", "deliver",
               "stopping", "barrier2", "final", "done"}
TaskStatus  == {"OK", "Failed", "Exit", "RequestJobTermination"}
TaskCommand == {"Continue", "Ignore"} \cup ExitConditions
Message     == [cmd : TaskCommand, pkg : SUBSET Records]

TypeOK ==
    /\ SourceTypeOK
    /\ dpc \in DistributorPC
    /\ active \subseteq Receivers /\ awaited \subseteq Receivers
    /\ posted \subseteq Receivers /\ batch \subseteq Receivers
    /\ haveWork \in BOOLEAN /\ exitCmd \in ExitConditions /\ finals \in Nat
    /\ dflags \subseteq ExitConditions
    /\ rpc \in [Receivers -> ReceiverPC]
    /\ rflags \in [Receivers -> SUBSET ExitConditions]
    /\ workers \in [Receivers -> 0 .. Workers]
    /\ status \in [Receivers -> TaskStatus]
    /\ pkg \in [Receivers -> SUBSET Records]
    /\ toD \in [Receivers -> Seq(TaskStatus)]
    /\ toR \in [Receivers -> Seq(Message)]
    /\ oob \in [Receivers -> {"None", "QuickExit", "TermExit"}]
    /\ signals \in Nat /\ job \in Nat
    /\ handed \subseteq Records /\ withheld \subseteq Records
    /\ dropped \subseteq Records /\ earlier \subseteq Records
    /\ saved \in BOOLEAN

Command(c) == [cmd |-> c, pkg |-> {}]
SendTo(r, m) == toR' = [toR EXCEPT ![r] = Append(@, m)]
Report(r, s) == toD' = [toD EXCEPT ![r] = Append(@, s)]
Consume(r)   == toD' = [toD EXCEPT ![r] = Tail(@)]
ProbeOnly(r) == UNCHANGED toR                                   \* a mistake
TakeReply(r) == toR' = [toR EXCEPT ![r] = Tail(@)]
Heard(r)     == toD[r] # <<>>
At(r, loc)   == rpc[r] = loc
GoTo(r, loc) == rpc' = [rpc EXCEPT ![r] = loc]

-----------------------------------------------------------------------------
(***************************************************************************)
(* Construction and the start of a job.  setExitConditions() clears the    *)
(* flags; doCheckpointRestore is true when the checkpoint file was there   *)
(* before this job opened it.                                              *)
(***************************************************************************)
StartLocation(c) ==
    IF CheckpointEnable /\ c.exists THEN "restore" ELSE "barrier1"

Init ==
    /\ SourceInit
    /\ dpc = StartLocation(NoFile)
    /\ active = {} /\ awaited = {} /\ posted = {} /\ batch = {}
    /\ haveWork = TRUE /\ exitCmd = "Exit" /\ finals = 0
    /\ dflags = {} /\ rflags = [r \in Receivers |-> {}]
    /\ rpc = [r \in Receivers |-> "barrier1"]
    /\ workers = [r \in Receivers |-> 0]
    /\ status = [r \in Receivers |-> "OK"]
    /\ pkg = [r \in Receivers |-> {}]
    /\ toD = [r \in Receivers |-> <<>>] /\ toR = [r \in Receivers |-> <<>>]
    /\ oob = [r \in Receivers |-> "None"]
    /\ signals = 0 /\ job = 1
    /\ handed = {} /\ withheld = {} /\ dropped = {} /\ saved = FALSE
    /\ earlier = {}

NextJob ==
    /\ job < MaxJobs
    /\ job' = job + 1
    /\ SourceReopen
    /\ dpc' = StartLocation(chk)
    /\ active' = {} /\ awaited' = {} /\ posted' = {} /\ batch' = {}
    /\ haveWork' = TRUE /\ exitCmd' = "Exit" /\ finals' = 0
    /\ dflags' = {} /\ rflags' = [r \in Receivers |-> {}]
    /\ rpc' = [r \in Receivers |-> "barrier1"]
    /\ workers' = [r \in Receivers |-> 0]
    /\ status' = [r \in Receivers |-> "OK"]
    /\ pkg' = [r \in Receivers |-> {}]
    /\ toD' = [r \in Receivers |-> <<>>] /\ toR' = [r \in Receivers |-> <<>>]
    /\ oob' = [r \in Receivers |-> "None"]
    /\ handed' = {} /\ withheld' = {} /\ dropped' = {} /\ saved' = FALSE
    /\ earlier' = IF ~chk.exists THEN {}
                  ELSE IF saved THEN earlier \cup handed ELSE earlier
    /\ UNCHANGED signals

JobOver == dpc = "done" /\ \A r \in Receivers : At(r, "done")

(* The user resumes a job whose checkpoint file is still there.            *)
Resume == JobOver /\ chk.exists /\ NextJob

(* The job is killed at any point, and started again.                      *)
Crash == "Crash" \in Faults /\ ~JobOver /\ NextJob

-----------------------------------------------------------------------------
(***************************************************************************)
(* MPI::Distributor::start().  When the restore throws, Runtime::start()   *)
(* catches the exception and rank 0 never reaches the barrier.  The start  *)
(* replies are received in rank order; the order does not show because     *)
(* each one only adds its receiver to _activeMpiTasks.                     *)
(***************************************************************************)
DRestore ==
    /\ dpc = "restore"
    /\ \/ CheckpointRestore /\ dpc' = "barrier1"
       \/ ~CheckpointUsable /\ dpc' = "failed" /\ UNCHANGED sourceVars
    /\ UNCHANGED <<active, awaited, posted, batch, haveWork, exitCmd, finals,
                   recvVars, flagVars, jobVars, fateVars, toD, toR, oob>>

(* MPI_COMM_WORLD.Barrier(): every rank has to arrive before any leaves.   *)
Barrier1 ==
    /\ dpc = "barrier1" /\ \A r \in Receivers : At(r, "barrier1")
    /\ dpc' = "sendStart"
    /\ rpc' = [r \in Receivers |-> "opening"]
    /\ UNCHANGED <<active, awaited, posted, batch, haveWork, exitCmd, finals,
                   workers, status, pkg, sourceVars, flagVars, jobVars,
                   fateVars, toD, toR, oob>>

DSendStart ==
    /\ dpc = "sendStart"
    /\ toR' = [r \in Receivers |-> Append(toR[r], Command("Continue"))]
    /\ awaited' = Receivers
    /\ dpc' = "recvStart"
    /\ UNCHANGED <<active, posted, batch, haveWork, exitCmd, finals, toD, oob,
                   sourceVars, recvVars, flagVars, jobVars, fateVars>>

DRecvStart(r) ==
    /\ dpc = "recvStart" /\ r \in awaited /\ Heard(r)
    /\ awaited' = awaited \ {r}
    /\ active' = IF Head(toD[r]) = "OK" THEN active \cup {r} ELSE active
    /\ Consume(r)
    /\ UNCHANGED <<dpc, posted, batch, haveWork, exitCmd, finals, toR, oob,
                   sourceVars, recvVars, flagVars, jobVars, fateVars>>

(* With no receiver at all, distributeWork() is skipped: its last loop,    *)
(* "drain", has nothing to wait for.  Else one Irecv is posted per task.   *)
DStarted ==
    /\ dpc = "recvStart" /\ awaited = {}
    /\ posted' = active
    /\ dpc' = IF active = {} THEN "drain" ELSE "distribute"
    /\ UNCHANGED <<active, awaited, batch, haveWork, exitCmd, finals, toD, toR,
                   oob, sourceVars, recvVars, flagVars, jobVars, fateVars>>

-----------------------------------------------------------------------------
(***************************************************************************)
(* MPI::Distributor::distributeWork().  Each turn of the loop looks at the *)
(* exit conditions and calls Testsome, which completes any of the Irecvs   *)
(* whose message has come; the completed ones are handled one by one, and  *)
(* a signal may land anywhere in between.                                  *)
(***************************************************************************)
InLoop == dpc = "distribute" /\ batch = {}
LeaveLoop == ~haveWork \/ active = {} \/ dflags # {}

DTestsome ==
    /\ InLoop /\ ~LeaveLoop
    /\ \E b \in SUBSET {r \in posted : Heard(r)} :
         /\ b # {}
         /\ batch' = b
         /\ posted' = posted \ b
    /\ UNCHANGED <<dpc, active, awaited, haveWork, exitCmd, finals, toD, toR,
                   oob, sourceVars, recvVars, flagVars, jobVars, fateVars>>

(* A report is a departure, a request to end the job, or else an OK.       *)
OnlyFailed == {"Failed"}                                        \* a mistake
Departed   == {"Exit", "Failed"}
WantsWork  == TaskStatus \ (Departed \cup {"RequestJobTermination"})

Handles(r, s) == /\ dpc = "distribute" /\ r \in batch
                 /\ Heard(r) /\ Head(toD[r]) \in s
                 /\ batch' = batch \ {r}
                 /\ Consume(r)

(* The task is done: no Irecv is posted for it again.                      *)
DTaskGone(r) ==
    /\ Handles(r, Departed)
    /\ active' = active \ {r}
    /\ UNCHANGED <<dpc, awaited, posted, haveWork, exitCmd, finals, toR, oob,
                   sourceVars, recvVars, flagVars, jobVars, fateVars>>

(* The task asks for the job to end.  It stays active, without an Irecv.   *)
DTaskTerminates(r) ==
    /\ Handles(r, {"RequestJobTermination"})
    /\ dflags' = dflags \cup {"TermExit"}
    /\ UNCHANGED <<dpc, active, awaited, posted, haveWork, exitCmd, finals,
                   toR, oob, rflags, signals, sourceVars, recvVars, jobVars,
                   fateVars>>

(* The package is made before the exit conditions are looked at again.     *)
DIgnore(r) ==
    /\ Handles(r, WantsWork)
    /\ CreateWorkPackage
    /\ PackageElements = {} \/ dflags # {}
    /\ SendTo(r, Command("Ignore"))
    /\ haveWork' = FALSE
    /\ withheld' = withheld \cup PackageElements
    /\ UNCHANGED <<dpc, active, awaited, posted, exitCmd, finals, oob,
                   recvVars, flagVars, jobVars, handed, dropped, saved>>

DSendPackage(r) ==
    /\ Handles(r, WantsWork)
    /\ CreateWorkPackage
    /\ PackageElements # {} /\ dflags = {}
    /\ SendTo(r, [cmd |-> "Continue", pkg |-> PackageElements])
    /\ posted' = posted \cup {r}
    /\ UNCHANGED <<dpc, active, awaited, haveWork, exitCmd, finals, oob,
                   recvVars, flagVars, jobVars, fateVars>>

(* The loop is left and the checkpoint saved, on the forced, clean exit.   *)
DLeaveLoop ==
    /\ InLoop /\ LeaveLoop
    /\ dpc' = "oob"
    /\ IF CheckpointEnable /\ "Exit" \in dflags
         THEN chk' = SavedCheckpoint /\ saved' = TRUE
         ELSE UNCHANGED <<chk, saved>>
    /\ UNCHANGED <<active, awaited, posted, batch, haveWork, exitCmd, finals,
                   cursor, remaining, lastKey, recvVars, flagVars, jobVars,
                   handed, withheld, dropped, toD, toR, oob>>

(* The exit condition that counts, when several are set.                   *)
ShutdownCommand == IF "Exit" \in dflags \/ dflags = {} THEN "Exit"
                   ELSE IF "QuickExit" \in dflags THEN "QuickExit"
                   ELSE "TermExit"

(* OOB commands go out with Isend from a variable that is set to Ignore a  *)
(* few lines on, perhaps before a send is complete: a task may be sent     *)
(* either value.  A receiver acts on QuickExit and TermExit only, so any   *)
(* other OOB command is "None".                                            *)
DSendOOB ==
    /\ dpc = "oob"
    /\ dpc' = "drain"
    /\ \E overwritten \in SUBSET active :
         oob' = [r \in Receivers |->
                   IF r \in active \ overwritten /\ ShutdownCommand # "Exit"
                     THEN ShutdownCommand ELSE oob[r]]
    /\ UNCHANGED <<active, awaited, posted, batch, haveWork, exitCmd, finals,
                   sourceVars, recvVars, flagVars, jobVars, fateVars, toD, toR>>

(* Every Irecv still posted is completed.  A task that did not leave is    *)
(* told to Ignore the reply, whatever it reported.                         *)
DDrain(r) ==
    /\ dpc = "drain" /\ r \in posted /\ Heard(r)
    /\ posted' = posted \ {r}
    /\ Consume(r)
    /\ IF Head(toD[r]) \in Departed
         THEN active' = active \ {r} /\ UNCHANGED toR
         ELSE SendTo(r, Command("Ignore")) /\ UNCHANGED active
    /\ UNCHANGED <<dpc, awaited, batch, haveWork, exitCmd, finals, oob,
                   sourceVars, recvVars, flagVars, jobVars, fateVars>>

-----------------------------------------------------------------------------
(***************************************************************************)
(* MPI::Distributor::shutdown().  The command is chosen once; each receive *)
(* is from MPI_ANY_SOURCE.                                                 *)
(***************************************************************************)
NoneReady == \A r \in posted : ~Heard(r)                        \* a mistake
Drained   == posted = {}

DBeginShutdown ==
    /\ dpc = "drain" /\ Drained
    /\ exitCmd' = ShutdownCommand
    /\ dpc' = "shutdown"
    /\ UNCHANGED <<active, awaited, posted, batch, haveWork, finals, toD, toR,
                   oob, sourceVars, recvVars, flagVars, jobVars, fateVars>>

DDismiss(r) ==
    /\ dpc = "shutdown" /\ active # {} /\ Heard(r)
    /\ Consume(r)
    /\ SendTo(r, Command(exitCmd))
    /\ active' = active \ {r}
    /\ UNCHANGED <<dpc, awaited, posted, batch, haveWork, exitCmd, finals, oob,
                   sourceVars, recvVars, flagVars, jobVars, fateVars>>

DArrive ==
    /\ dpc = "shutdown" /\ active = {}
    /\ dpc' = "barrier2"
    /\ UNCHANGED <<active, awaited, posted, batch, haveWork, exitCmd, finals,
                   toD, toR, oob, sourceVars, recvVars, flagVars, jobVars,
                   fateVars>>

Barrier2 ==
    /\ dpc = "barrier2" /\ \A r \in Receivers : At(r, "barrier2")
    /\ dpc' = "final"
    /\ rpc' = [r \in Receivers |-> "final"]
    /\ UNCHANGED <<active, awaited, posted, batch, haveWork, exitCmd, finals,
                   workers, status, pkg, sourceVars, flagVars, jobVars,
                   fateVars, toD, toR, oob>>

FinalsDue == Cardinality(Receivers)

DFinal(r) ==
    /\ dpc = "final" /\ finals < FinalsDue /\ Heard(r)
    /\ finals' = finals + 1
    /\ Consume(r)
    /\ UNCHANGED <<dpc, active, awaited, posted, batch, haveWork, exitCmd, toR,
                   oob, sourceVars, recvVars, flagVars, jobVars, fateVars>>

(* The checkpoint file is removed unless the Exit condition is set.        *)
DEnd ==
    /\ dpc = "final" /\ finals = FinalsDue
    /\ dpc' = "done"
    /\ chk' = IF "Exit" \notin dflags THEN NoFile ELSE chk
    /\ UNCHANGED <<active, awaited, posted, batch, haveWork, exitCmd, finals,
                   cursor, remaining, lastKey, recvVars, flagVars, jobVars,
                   fateVars, toD, toR, oob>>

-----------------------------------------------------------------------------
(***************************************************************************)
(* MPI::Receiver::start().  When openLogsheet() throws, the receiver       *)
(* reports Failed and shutdown() goes through the null Logsheet: the       *)
(* process dies.  Failing to initialise the package processor and having   *)
(* no worker both lead to a Failed reply and a shutdown.                   *)
(***************************************************************************)
ROpenFails(r) ==
    /\ "Logsheet" \in Faults
    /\ At(r, "opening")
    /\ Report(r, "Failed")
    /\ GoTo(r, "crashed")
    /\ UNCHANGED <<workers, status, pkg, sourceVars, distVars, flagVars,
                   jobVars, fateVars, toR, oob>>

RStartFails(r) ==
    /\ "Start" \in Faults
    /\ At(r, "opening") /\ toR[r] # <<>>
    /\ TakeReply(r)
    /\ Report(r, "Failed")
    /\ status' = [status EXCEPT ![r] = "Failed"]
    /\ GoTo(r, "stopping")
    /\ UNCHANGED <<workers, pkg, sourceVars, distVars, flagVars, jobVars,
                   fateVars, oob>>

RStart(r) ==
    /\ At(r, "opening") /\ toR[r] # <<>>
    /\ TakeReply(r)
    /\ \E w \in 1 .. Workers : workers' = [workers EXCEPT ![r] = w]
    /\ Report(r, "OK")
    /\ GoTo(r, "ready")
    /\ UNCHANGED <<status, pkg, sourceVars, distVars, flagVars, jobVars,
                   fateVars, oob>>

(***************************************************************************)
(* MPI::Receiver::requestWorkPackages().                                   *)
(***************************************************************************)
(* Workers are killed with SIGKILL on TermExit, the weakest condition.     *)
RExit(r) ==
    /\ At(r, "ready") /\ rflags[r] # {}
    /\ Report(r, "Exit")
    /\ status' = [status EXCEPT ![r] = "Exit"]
    /\ workers' = IF rflags[r] = {"TermExit"}
                    THEN [workers EXCEPT ![r] = 0] ELSE workers
    /\ GoTo(r, "stopping")
    /\ UNCHANGED <<pkg, sourceVars, distVars, flagVars, jobVars, fateVars,
                   toR, oob>>

RAsk(r) ==
    /\ At(r, "ready") /\ rflags[r] = {}
    /\ Report(r, "OK")
    /\ GoTo(r, "asking")
    /\ UNCHANGED <<workers, status, pkg, sourceVars, distVars, flagVars,
                   jobVars, fateVars, toR, oob>>

RReply(r) ==
    /\ At(r, "asking") /\ toR[r] # <<>>
    /\ LET m == Head(toR[r]) IN
         /\ TakeReply(r)
         /\ GoTo(r, IF m.cmd = "Ignore" THEN "ready"
                    ELSE IF m.cmd = "Continue" THEN "deliver" ELSE "stopping")
         /\ pkg' = [pkg EXCEPT ![r] = m.pkg]
         /\ workers' = IF m.cmd = "TermExit"
                         THEN [workers EXCEPT ![r] = 0] ELSE workers
    /\ UNCHANGED <<status, sourceVars, distVars, flagVars, jobVars, fateVars,
                   toD, oob>>

-----------------------------------------------------------------------------
(***************************************************************************)
(* MPI::Receiver::sendWorkPackage(), one turn of its loop, with what the   *)
(* caller does when it returns or throws.                                  *)
(***************************************************************************)
Delivering(r)  == At(r, "deliver") /\ workers[r] > 0
AnyExit(f)     == f # {}                                        \* a mistake
HurriedExit(f) == f \cap {"QuickExit", "TermExit"} # {}
LoseP(r) == dropped' = dropped \cup pkg[r] /\ pkg' = [pkg EXCEPT ![r] = {}]

(* No worker is left, or the one it waits for died and left its pipe       *)
(* widowed: the exception ends the receiver, whatever workers remain.      *)
RDeliveryFails(r) ==
    /\ At(r, "deliver")
    /\ \/ workers[r] = 0 /\ UNCHANGED workers
       \/ /\ "WorkerStops" \in Faults
          /\ Delivering(r) /\ ~HurriedExit(rflags[r])
          /\ workers' = [workers EXCEPT ![r] = @ - 1]
    /\ Report(r, "Failed")
    /\ status' = [status EXCEPT ![r] = "Failed"]
    /\ LoseP(r)
    /\ GoTo(r, "stopping")
    /\ UNCHANGED <<sourceVars, distVars, flagVars, jobVars, toR, oob, handed,
                   withheld, saved>>

(* An OOB command has come, or an exit condition is set: the package is    *)
(* not sent out, and the receiver goes back to ask for another.            *)
RDrop(r) ==
    /\ Delivering(r)
    /\ \/ /\ oob[r] # "None"
          /\ rflags' = [rflags EXCEPT ![r] = @ \cup {oob[r]}]
          /\ oob' = [oob EXCEPT ![r] = "None"]
       \/ HurriedExit(rflags[r]) /\ UNCHANGED <<rflags, oob>>
    /\ LoseP(r)
    /\ GoTo(r, "ready")
    /\ UNCHANGED <<workers, status, sourceVars, distVars, dflags, signals,
                   jobVars, toD, toR, handed, withheld, saved>>

(* A worker asked for work: it is told to Continue and sent the package.   *)
RHandOver(r) ==
    /\ Delivering(r) /\ ~HurriedExit(rflags[r])
    /\ handed' = handed \cup pkg[r]
    /\ pkg' = [pkg EXCEPT ![r] = {}]
    /\ GoTo(r, "ready")
    /\ UNCHANGED <<workers, status, sourceVars, distVars, flagVars, jobVars,
                   withheld, dropped, saved, toD, toR, oob>>

(* A worker reported that its package processor threw TerminateJob, and    *)
(* exits: the receiver passes it on and goes back to its request loop.     *)
RTerminate(r) ==
    /\ "Terminate" \in Faults
    /\ Delivering(r) /\ ~HurriedExit(rflags[r])
    /\ workers' = [workers EXCEPT ![r] = @ - 1]
    /\ Report(r, "RequestJobTermination")
    /\ status' = [status EXCEPT ![r] = "RequestJobTermination"]
    /\ LoseP(r)
    /\ GoTo(r, "ready")
    /\ UNCHANGED <<sourceVars, distVars, flagVars, jobVars, toR, oob, handed,
                   withheld, saved>>

(* A worker reported Exit or Failed and is stopped, or it just died.       *)
RWorkerStops(r) ==
    /\ "WorkerStops" \in Faults
    /\ rpc[r] \in {"ready", "asking", "deliver"} /\ workers[r] > 0
    /\ workers' = [workers EXCEPT ![r] = @ - 1]
    /\ UNCHANGED <<rpc, status, pkg, sourceVars, distVars, flagVars, jobVars,
                   fateVars, toD, toR, oob>>

-----------------------------------------------------------------------------
(***************************************************************************)
(* MPI::Receiver::shutdown().  Workers are stopped one by one, unless the  *)
(* local TermExit condition says they were killed.                         *)
(***************************************************************************)
RStopWorkers(r) ==
    /\ At(r, "stopping")
    /\ workers' = IF "TermExit" \in rflags[r]
                    THEN workers ELSE [workers EXCEPT ![r] = 0]
    /\ GoTo(r, "barrier2")
    /\ UNCHANGED <<status, pkg, sourceVars, distVars, flagVars, jobVars,
                   fateVars, toD, toR, oob>>

RFinal(r) ==
    /\ At(r, "final")
    /\ Report(r, status[r])
    /\ GoTo(r, "done")
    /\ UNCHANGED <<workers, status, pkg, sourceVars, distVars, flagVars,
                   jobVars, fateVars, toR, oob>>

-----------------------------------------------------------------------------
(***************************************************************************)
(* The signal handler of each process only sets its own process's flag.    *)
(***************************************************************************)
SignalD ==
    /\ signals < MaxSignals /\ dpc # "done"
    /\ \E s \in Signals : dflags' = dflags \cup {s}
    /\ signals' = signals + 1
    /\ UNCHANGED <<rflags, sourceVars, distVars, recvVars, jobVars, fateVars,
                   toD, toR, oob>>

SignalR(r) ==
    /\ signals < MaxSignals /\ rpc[r] \notin {"crashed", "done"}
    /\ \E s \in Signals : rflags' = [rflags EXCEPT ![r] = @ \cup {s}]
    /\ signals' = signals + 1
    /\ UNCHANGED <<dflags, sourceVars, distVars, recvVars, jobVars, fateVars,
                   toD, toR, oob>>

(* A job that is over stays over; the user may not come back to it.        *)
Over == JobOver /\ UNCHANGED vars

DistributorStep ==
    \/ DRestore \/ Barrier1 \/ DSendStart \/ DStarted \/ DTestsome
    \/ DLeaveLoop \/ DSendOOB \/ DBeginShutdown \/ DArrive \/ Barrier2 \/ DEnd
    \/ \E r \in Receivers :
         \/ DRecvStart(r) \/ DTaskGone(r) \/ DTaskTerminates(r) \/ DIgnore(r)
         \/ DSendPackage(r) \/ DDrain(r) \/ DDismiss(r) \/ DFinal(r)

ReceiverStep(r) ==
    \/ RStart(r) \/ RExit(r) \/ RAsk(r) \/ RReply(r) \/ RDeliveryFails(r)
    \/ RDrop(r) \/ RHandOver(r) \/ RStopWorkers(r) \/ RFinal(r)

FaultStep(r) ==
    \/ ROpenFails(r) \/ RStartFails(r) \/ RTerminate(r) \/ RWorkerStops(r)

Environment == Resume \/ Crash \/ SignalD \/ Over

Next == \/ DistributorStep \/ Environment
        \/ \E r \in Receivers : ReceiverStep(r) \/ FaultStep(r) \/ SignalR(r)

(***************************************************************************)
(* Every rank keeps running, and a worker of a receiver with a package in  *)
(* hand asks for it sooner or later.  No signal, fault or resumption ever  *)
(* has to happen.                                                          *)
(***************************************************************************)
Fairness == /\ WF_vars(DistributorStep)
            /\ \A r \in Receivers : WF_vars(ReceiverStep(r))

Spec     == Init /\ [][Next]_vars
FairSpec == Spec /\ Fairness
=============================================================================
