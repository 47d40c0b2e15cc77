--------------------------- MODULE PackageWorkers ---------------------------
(***************************************************************************)
(* An MPI::Receiver and the worker processes it gives work packages to     *)
(* (be_mpi_receiver.cpp), over the two pipes a communicating worker has    *)
(* (be_process_manager.cpp, be_process_worker.cpp).  Module MPIJob has the *)
(* receiver's other side; here rank 0 is whatever may answer a request.    *)
(*                                                                         *)
(* Worker i is the i-th one forked.  It inherits the receiver's ends of    *)
(* the pipes of workers 1 .. i - 1 and never closes them.  A message with  *)
(* its length is one element of a pipe; pipes do not fill.                 *)
(***************************************************************************)
EXTENDS Integers, Sequences, FiniteSets

CONSTANTS NumWorkers,   \* Resources::getWorkersPerNode()
          MaxPackages,  \* bound: packages rank 0 sends this receiver
          Commands,     \* exit commands rank 0 may send
          Signals,      \* exit conditions signals or OOB messages may set
          Outcomes      \* how processWorkPackage() may end

ExitConditions == {"Exit", "QuickExit", "TermExit"}
AllOutcomes    == {"OK", "Failed", "RequestJobTermination", "Dies"}

ASSUME PackageAssumption == /\ NumWorkers \in Nat \ {0}
                            /\ MaxPackages \in Nat
                            /\ Commands \subseteq ExitConditions
                            /\ Signals \subseteq ExitConditions
                            /\ Outcomes \subseteq AllOutcomes

VARIABLES
    rpc,         \* where the receiver is
    chosen,      \* worker the package in hand goes to
    forked,      \* workers whose fork() succeeded
    left,        \* turns of shutdown()'s loop still to do
    armed,       \* workers in select()'s set
    rflags,      \* exit conditions set in the receiver
    given,       \* packages received so far
    working,     \* workers the manager believes to be working
    pendingExit, \* workers asked to stop
    wpc,         \* where each worker is
    wstat,       \* taskStatus of each worker
    wflag,       \* an exit condition is set in the worker
    stop,        \* stopRequested() of each worker
    toM, toW     \* pipes from and to each worker

recvVars == <<rpc, chosen, forked, left, armed, rflags, given>>
mgrVars  == <<working, pendingExit>>
workVars == <<wpc, wstat, wflag, stop>>
vars == <<recvVars, mgrVars, workVars, toM, toW>>

Workers    == 1 .. NumWorkers
ReceiverPC == {"request", "deliver", "command", "count", "data", "shutdown",
               "select", "closing", "over"}
WorkerPC   == {"starting", "top", "wait", "count", "data", "work", "dead"}
TaskStatus == {"OK", "Failed", "Exit", "RequestJobTermination"}
Part       == {"Continue", "Count", "Data"}

TypeOK ==
    /\ rpc \in ReceiverPC /\ chosen \in Workers /\ forked \subseteq Workers
    /\ left \in 0 .. NumWorkers /\ armed \subseteq Workers
    /\ rflags \subseteq ExitConditions /\ given \in 0 .. MaxPackages
    /\ working \subseteq Workers /\ pendingExit \subseteq Workers
    /\ wpc \in [Workers -> WorkerPC] /\ wstat \in [Workers -> TaskStatus]
    /\ wflag \in [Workers -> BOOLEAN] /\ stop \in [Workers -> BOOLEAN]
    /\ toM \in [Workers -> Seq(TaskStatus)] /\ toW \in [Workers -> Seq(Part)]

(* startWorkers() is over.  A fork() may have failed, not every one.       *)
Init ==
    /\ rpc = "request" /\ chosen = 1 /\ left = 0 /\ armed = {} /\ rflags = {}
    /\ given = 0
    /\ forked \in SUBSET Workers \ {{}}
    /\ working = forked /\ pendingExit = {}
    /\ wpc = [w \in Workers |-> IF w \in forked THEN "starting" ELSE "dead"]
    /\ wstat = [w \in Workers |-> "OK"]
    /\ wflag = [w \in Workers |-> FALSE] /\ stop = [w \in Workers |-> FALSE]
    /\ toM = [w \in Workers |-> <<>>] /\ toW = [w \in Workers |-> <<>>]

Alive(w)  == wpc[w] # "dead"
Active(w) == w \in working \ pendingExit

WGoTo(w, loc) == wpc' = [wpc EXCEPT ![w] = loc]
Peek(w)       == toM' = toM                                     \* a mistake
Hear(w)       == toM' = [toM EXCEPT ![w] = Tail(@)]

-----------------------------------------------------------------------------
(***************************************************************************)
(* Receiver::requestWorkPackages().  SIGINT sets an exit condition in the  *)
(* workers, SIGKILL ends them.  The PID of a worker whose fork() failed is *)
(* 0, and kill(0, ...) signals the whole process group, the receiver too.  *)
(* (Ignore, and the request itself, change nothing here.)                  *)
(***************************************************************************)
GroupSignalled == forked # Workers

Spare     == rpc' = "shutdown" /\ UNCHANGED <<rflags, wpc, wflag>>
Interrupt == /\ wflag' = [w \in Workers |-> Alive(w) \/ wflag[w]]
             /\ rflags' = IF GroupSignalled THEN rflags \cup {"QuickExit"}
                          ELSE rflags
             /\ rpc' = "shutdown"
             /\ UNCHANGED wpc
Kill      == /\ wpc' = [w \in Workers |-> "dead"]
             /\ rpc' = IF GroupSignalled THEN "over" ELSE "shutdown"
             /\ UNCHANGED <<rflags, wflag>>

LeaveWith(c) ==
    /\ CASE c = "Exit" -> Spare [] c = "QuickExit" -> Interrupt
         [] c = "TermExit" -> Kill
    /\ UNCHANGED <<chosen, forked, left, armed, given, mgrVars, wstat, stop,
                   toM, toW>>

RFlagged ==
    /\ rpc = "request" /\ rflags # {}
    /\ LeaveWith(IF "Exit" \in rflags THEN "Exit"
                 ELSE IF "QuickExit" \in rflags THEN "QuickExit"
                 ELSE "TermExit")

RCommanded == /\ rpc = "request" /\ rflags = {}
              /\ \E c \in Commands : LeaveWith(c)

RPackage ==
    /\ rpc = "request" /\ rflags = {} /\ given < MaxPackages
    /\ given' = given + 1
    /\ rpc' = "deliver"
    /\ UNCHANGED <<chosen, forked, left, armed, rflags, mgrVars, workVars, toM, toW>>

(***************************************************************************)
(* Receiver::sendWorkPackage().  Of the workers with something to read any *)
(* one may be the first in the manager's map.  With none, the receiver     *)
(* pauses and looks again.                                                 *)
(***************************************************************************)
AskAll(w) ==                                                   \* a mistake
    /\ pendingExit' = pendingExit \cup {w}
    /\ stop' = [v \in Workers |-> stop[v] \/ v \in working]
AskStop(w) ==
    /\ pendingExit' = pendingExit \cup {w}
    /\ stop' = IF w \in working /\ Alive(w) THEN [stop EXCEPT ![w] = TRUE]
               ELSE stop

HurriedExit == rflags \cap {"QuickExit", "TermExit"} # {}

RNoWorkers ==
    /\ rpc = "deliver" /\ working = {}
    /\ rpc' = "shutdown"
    /\ UNCHANGED <<chosen, forked, left, armed, rflags, given, mgrVars, workVars, toM,
                   toW>>

RDrop ==
    /\ rpc = "deliver" /\ working # {} /\ HurriedExit
    /\ rpc' = "request"
    /\ UNCHANGED <<chosen, forked, left, armed, rflags, given, mgrVars, workVars, toM,
                   toW>>

Delivering(w) == rpc = "deliver" /\ ~HurriedExit /\ Active(w)

RHearsOK(w) ==
    /\ Delivering(w) /\ toM[w] # <<>> /\ Head(toM[w]) = "OK"
    /\ Hear(w)
    /\ chosen' = w
    /\ rpc' = "command"
    /\ UNCHANGED <<forked, left, armed, rflags, given, mgrVars, workVars, toW>>

RHearsLeaving(w) ==
    /\ Delivering(w) /\ toM[w] # <<>> /\ Head(toM[w]) \in {"Exit", "Failed"}
    /\ Hear(w)
    /\ AskStop(w)
    /\ UNCHANGED <<recvVars, working, wpc, wstat, wflag, toW>>

(* Rank 0 is told; the package is lost.                                    *)
RHearsTerminate(w) ==
    /\ Delivering(w) /\ toM[w] # <<>>
    /\ Head(toM[w]) = "RequestJobTermination"
    /\ Hear(w)
    /\ rpc' = "request"
    /\ UNCHANGED <<chosen, forked, left, armed, rflags, given, mgrVars, workVars, toW>>

(* The widowed pipe's exception is caught in requestWorkPackages().        *)
RHearsWidow(w) ==
    /\ Delivering(w) /\ toM[w] = <<>> /\ ~Alive(w)
    /\ rpc' = "shutdown"
    /\ UNCHANGED <<chosen, forked, left, armed, rflags, given, mgrVars, workVars, toM,
                   toW>>

(* The command, the number of elements and the data, one message each.     *)
PartSent == [command |-> "Continue", count |-> "Count", data |-> "Data"]
Skipped  == [command |-> "data", count |-> "data", data |-> "request"] \* a mistake
NextPart == [command |-> "count", count |-> "data", data |-> "request"]

RSends ==
    /\ rpc \in {"command", "count", "data"}
    /\ IF Alive(chosen)
         THEN /\ toW' = [toW EXCEPT ![chosen] = Append(@, PartSent[rpc])]
              /\ rpc' = NextPart[rpc]
         ELSE rpc' = "shutdown" /\ UNCHANGED toW
    /\ UNCHANGED <<chosen, forked, left, armed, rflags, given, mgrVars, workVars, toM>>

-----------------------------------------------------------------------------
(***************************************************************************)
(* Receiver::shutdown(): one turn per working worker, each of which waits  *)
(* for a message and stops its sender.  The set select() watches is made   *)
(* once per turn; a SIGCHLD that interrupts select() leaves it as it was.  *)
(* A turn with nobody to listen to ends the loop, and so does a widowed    *)
(* pipe, with workers unstopped.                                           *)
(***************************************************************************)
Stopping == rpc = "shutdown" /\ "TermExit" \notin rflags /\ working # {}

RBeginStopping ==
    /\ Stopping
    /\ left' = Cardinality(working)
    /\ armed' = working \ pendingExit
    /\ rpc' = IF armed' = {} THEN "closing" ELSE "select"
    /\ UNCHANGED <<chosen, forked, rflags, given, mgrVars, workVars, toM, toW>>

RNothingToStop ==
    /\ rpc = "shutdown" /\ ~Stopping
    /\ rpc' = "closing"
    /\ UNCHANGED <<chosen, forked, left, armed, rflags, given, mgrVars,
                   workVars, toM, toW>>

Speaks(w) == toM[w] # <<>>

RStopsOne(w) ==
    /\ rpc = "select" /\ w \in armed /\ Speaks(w)
    /\ Hear(w)
    /\ AskStop(w)
    /\ left' = left - 1
    /\ armed' = IF left = 1 THEN {} ELSE working \ pendingExit'
    /\ rpc' = IF armed' = {} THEN "closing" ELSE "select"
    /\ UNCHANGED <<chosen, forked, rflags, given, working, wpc, wstat, wflag,
                   toW>>

RStopWidowed(w) ==
    /\ rpc = "select" /\ w \in armed /\ toM[w] = <<>> /\ ~Alive(w)
    /\ armed' = {}
    /\ rpc' = "closing"
    /\ UNCHANGED <<chosen, forked, left, rflags, given, mgrVars, workVars, toM,
                   toW>>

(* After the barrier and the final message the process ends.               *)
RCloses ==
    /\ rpc = "closing"
    /\ rpc' = "over"
    /\ UNCHANGED <<chosen, forked, left, armed, rflags, given, mgrVars, workVars, toM,
                   toW>>

(* A signal, or an OOB command of rank 0, sets an exit condition.          *)
RSignal ==
    /\ rpc \notin {"closing", "over"}
    /\ \E c \in Signals \ rflags : rflags' = rflags \cup {c}
    /\ UNCHANGED <<rpc, chosen, forked, left, armed, given, mgrVars, workVars, toM, toW>>

(* SIGCHLD: the manager learns that a worker ended (module ForkManager).   *)
ReapUnlessStopped(w) ==                                        \* a mistake
    /\ rpc # "over" /\ w \in working \ pendingExit /\ ~Alive(w)
    /\ working' = working \ {w}
    /\ UNCHANGED <<recvVars, pendingExit, workVars, toM, toW>>
Reap(w) ==
    /\ rpc # "over" /\ w \in working /\ ~Alive(w)
    /\ working' = working \ {w}
    /\ UNCHANGED <<recvVars, pendingExit, workVars, toM, toW>>

-----------------------------------------------------------------------------
(***************************************************************************)
(* PackageWorker::workerMain().  Nobody reads what a worker writes, and it *)
(* reads the end of file, when the receiver and all the workers forked     *)
(* after it are gone.                                                      *)
(***************************************************************************)
KeepsItsEnd(w) ==                                              \* a mistake
    rpc = "over" /\ \A v \in Workers : v >= w => ~Alive(v)
Widowed(w) == rpc = "over" /\ \A v \in Workers : v > w => ~Alive(v)

(* The log or the package processor of the worker may not open.            *)
WStart(w) ==
    /\ wpc[w] = "starting"
    /\ \/ WGoTo(w, "top")
       \/ "Dies" \in Outcomes /\ WGoTo(w, "dead")
    /\ UNCHANGED <<recvVars, mgrVars, wstat, wflag, stop, toM, toW>>

(* The status to send: an exit condition takes the place of any other.     *)
AnyFlagSent(w) == IF wflag[w] THEN "QuickExit" ELSE wstat[w]     \* a mistake
StatusSent(w) == IF wflag[w] THEN "Exit" ELSE wstat[w]

WStops(w) ==
    /\ wpc[w] = "top" /\ stop[w]
    /\ WGoTo(w, "dead")
    /\ UNCHANGED <<recvVars, mgrVars, wstat, wflag, stop, toM, toW>>

WReports(w) ==
    /\ wpc[w] = "top" /\ ~stop[w]
    /\ wstat' = [wstat EXCEPT ![w] = StatusSent(w)]
    /\ toM' = IF Widowed(w) THEN toM
              ELSE [toM EXCEPT ![w] = Append(@, StatusSent(w))]
    /\ WGoTo(w, IF Widowed(w) \/ StatusSent(w) # "OK" THEN "dead" ELSE "wait")
    /\ UNCHANGED <<recvVars, mgrVars, wflag, stop, toW>>

(* waitForMessage() gives up when asked to stop.                           *)
WGivesUp(w) ==
    /\ wpc[w] = "wait" /\ stop[w]
    /\ WGoTo(w, "dead")
    /\ UNCHANGED <<recvVars, mgrVars, wstat, wflag, stop, toM, toW>>

(* The parts of a package are told apart by their order alone.             *)
AfterPart == [wait |-> "count", count |-> "data", data |-> "work"]

WReceives(w) ==
    /\ wpc[w] \in {"wait", "count", "data"} /\ toW[w] # <<>>
    /\ toW' = [toW EXCEPT ![w] = Tail(@)]
    /\ WGoTo(w, AfterPart[wpc[w]])
    /\ UNCHANGED <<recvVars, mgrVars, wstat, wflag, stop, toM>>

WReadsEnd(w) ==
    /\ wpc[w] \in {"wait", "count", "data"} /\ toW[w] = <<>> /\ Widowed(w)
    /\ wstat' = [wstat EXCEPT ![w] = "Failed"]
    /\ WGoTo(w, "top")
    /\ UNCHANGED <<recvVars, mgrVars, wflag, stop, toM, toW>>

WProcesses(w) ==
    /\ wpc[w] = "work"
    /\ \E o \in Outcomes :
         IF o = "Dies" THEN WGoTo(w, "dead") /\ UNCHANGED wstat
         ELSE WGoTo(w, "top") /\ wstat' = [wstat EXCEPT ![w] = o]
    /\ UNCHANGED <<recvVars, mgrVars, wflag, stop, toM, toW>>

(* A signal to one worker.                                                 *)
WSignal(w) ==
    /\ Signals # {} /\ Alive(w) /\ ~wflag[w]
    /\ wflag' = [wflag EXCEPT ![w] = TRUE]
    /\ UNCHANGED <<recvVars, mgrVars, wpc, wstat, stop, toM, toW>>

-----------------------------------------------------------------------------
ReceiverStep ==
    \/ RFlagged \/ RCommanded \/ RPackage \/ RNoWorkers \/ RDrop \/ RSends
    \/ RBeginStopping \/ RNothingToStop \/ RCloses
    \/ \E w \in Workers :
         \/ RHearsOK(w) \/ RHearsLeaving(w) \/ RHearsTerminate(w)
         \/ RHearsWidow(w) \/ RStopsOne(w) \/ RStopWidowed(w)

WorkerStep(w) ==
    \/ WStart(w) \/ WStops(w) \/ WReports(w) \/ WGivesUp(w) \/ WReceives(w)
    \/ WReadsEnd(w) \/ WProcesses(w)

Over == rpc = "over" /\ (\A w \in Workers : ~Alive(w)) /\ UNCHANGED vars

Next == \/ ReceiverStep \/ RSignal \/ Over
        \/ \E w \in Workers : WorkerStep(w) \/ Reap(w) \/ WSignal(w)

(* Processes keep running and a package is processed in finite time.       *)
Fairness == /\ WF_vars(ReceiverStep)
            /\ \A w \in Workers : WF_vars(WorkerStep(w)) /\ WF_vars(Reap(w))

Spec     == Init /\ [][Next]_vars
FairSpec == Spec /\ Fairness
=============================================================================
