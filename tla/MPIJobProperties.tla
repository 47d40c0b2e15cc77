-------------------------- MODULE MPIJobProperties --------------------------
(***************************************************************************)
(* What an MPI job promises: that its control messages stay paired, that   *)
(* no record is processed twice or silently lost, that a checkpoint says   *)
(* what was distributed, and that a job, once started, ends.               *)
(***************************************************************************)
EXTENDS MPIJob

(* Packages on their way to r, or in its hands.                            *)
Carried(r) == pkg[r] \cup UNION {toR[r][i].pkg : i \in 1 .. Len(toR[r])}

LeftLoop == {"stopping", "barrier2", "final", "done"}

(***************************************************************************)
(* A receiver waiting in Sendrecv is answered exactly once: either its     *)
(* request is still to be handled by the distributor, or one command is on *)
(* its way back, never both and never neither.  This is the pairing the    *)
(* Ignore command of distributeWork() exists to preserve.  (Its reply to   *)
(* the start message may still be ahead of the first request.)             *)
(***************************************************************************)
RepliesPaired ==
    \A r \in Receivers :
        At(r, "asking") =>
            Len(toD[r]) + Len(toR[r]) = IF r \in awaited THEN 2 ELSE 1

(***************************************************************************)
(* shutdown() receives from MPI_ANY_SOURCE.  What it hears there must be a *)
(* request of a task it still has to dismiss: a message of a task already  *)
(* taken off _activeMpiTasks would be answered with a stray command.       *)
(***************************************************************************)
ShutdownHearsActiveOnly ==
    dpc = "shutdown" =>
        /\ posted = {} /\ batch = {}
        /\ \A r \in Receivers : Heard(r) => r \in active

(***************************************************************************)
(* A package is never sent to a receiver that has left its request loop:   *)
(* nobody would read it and its records would be lost without a trace.     *)
(***************************************************************************)
NoPackageToLeaver ==
    \A r \in Receivers :
        rpc[r] \in LeftLoop => Carried(r) = {}

(***************************************************************************)
(* Within a job, and across the jobs that resume a saved checkpoint, a     *)
(* record goes to one worker only: what a receiver carries was not handed  *)
(* to a worker before and is carried by no other receiver.                 *)
(***************************************************************************)
RecordsProcessedOnce ==
    \A r \in Receivers :
        /\ Carried(r) \cap (handed \cup earlier) = {}
        /\ \A s \in Receivers \ {r} : Carried(r) \cap Carried(s) = {}

(***************************************************************************)
(* The clean exit loses nothing: while the only exit condition anywhere is *)
(* Exit, and every receiver keeps a worker, each package sent is given to  *)
(* a worker.                                                               *)
(***************************************************************************)
CleanExitKeepsPackages ==
    (/\ dflags \subseteq {"Exit"}
     /\ \A r \in Receivers : /\ rflags[r] \subseteq {"Exit"}
                             /\ status[r] \in {"OK", "Exit"})
        => dropped = {}

(***************************************************************************)
(* A job that ends without any exit condition and in which some receiver   *)
(* ran to a normal end has handed every readable record to a worker.       *)
(***************************************************************************)
CompletedJobHandedAll ==
    (/\ JobOver /\ job = 1 /\ dflags = {} /\ dropped = {}
     /\ \E r \in Receivers : status[r] = "OK")
        => handed = Readable

(***************************************************************************)
(* When the job is over rank 0 has received every status its receivers     *)
(* sent: its N-1 final receives took the N-1 final messages.               *)
(***************************************************************************)
FinalMessagesReceived ==
    JobOver => \A r \in Receivers : toD[r] = <<>>

(***************************************************************************)
(* What becomes of the records, whatever the messages and signals: every   *)
(* step of the distributor and its receivers is one of RecordJob's, so no  *)
(* record is lost or doubled in a message, in the hands of a receiver or   *)
(* between two jobs.                                                       *)
(***************************************************************************)
Stage == IF dpc \in {"restore", "failed"} THEN "starting"
         ELSE IF dpc \in {"barrier1", "sendStart", "recvStart", "distribute"}
                THEN "giving" ELSE "closing"

Ahead   == cursor .. NumRecords
Loads   == [r \in Receivers |-> Carried(r)]
Covered == IF chk.exists THEN 1 .. chk.last ELSE {}

Account == INSTANCE RecordJob WITH
    Carriers <- Receivers,
    stage <- Stage,
    ahead <- Ahead,
    carried <- Loads,
    processed <- handed,
    settled <- earlier,
    file <- chk.exists,
    covered <- Covered

AccountKept == Account!Spec

(***************************************************************************)
(* A saved checkpoint is past everything handed out: a job that resumes at *)
(* it starts behind every record that earlier jobs, or this one, gave or   *)
(* are about to give to a worker.                                          *)
(***************************************************************************)
CheckpointPastHandedOut ==
    (chk.exists /\ CheckpointUsable) =>
        \A x \in earlier \cup
                 (IF saved THEN handed \cup UNION {Carried(r) : r \in Receivers}
                  ELSE {}) :
            x =< chk.last

(***************************************************************************)
(* A resumed job is at the same place of the store as its count says: the  *)
(* records remaining are the ones from the cursor to the end.              *)
(***************************************************************************)
RemainingMatchesCursor ==
    dpc \notin {"restore", "failed"} => cursor + remaining = NumRecords + 1

(***************************************************************************)
(* Liveness: every job that is started comes to its end, under whatever    *)
(* signals and worker losses, as long as ranks run and workers ask.        *)
(***************************************************************************)
JobEnds == dpc # "done" ~> JobOver

-----------------------------------------------------------------------------
(***************************************************************************)
(* Statements of the documentation and comments that the code does not     *)
(* keep; each is checked by a run that finds it violated.                  *)
(***************************************************************************)
(* "checkpoints simply save information about the last work package that   *)
(* was distributed": what the checkpoint covers was sent to a receiver.    *)
CheckpointedWasSent ==
    (chk.exists /\ saved) => \A x \in withheld : x > chk.last

(* "The checkpoint file is optional for restore": JobEnds, above, also     *)
(* where a job was killed and started again.                               *)
=============================================================================
