------------------------ MODULE ForkManagerProperties ------------------------
(***************************************************************************)
(* What callers of Process::ForkManager rely on.                           *)
(***************************************************************************)
EXTENDS ForkManager

InFlight(w) == at \in {"forked", "half"} /\ cur = w
Lost(w) == IsWorking(w) /\ proc[w][pid[w]] \in Gone

(***************************************************************************)
(* A worker reported as not working is gone: its process has ended and was *)
(* reaped, so that the controller may be reset and started again.  (Not    *)
(* while startWorkers() is between fork() and the entry of that worker.)   *)
(***************************************************************************)
NotWorkingIsGone ==
    \A w \in Workers : (~IsWorking(w) /\ ~InFlight(w)) =>
        \A n \in Runs : proc[w][n] \notin Unreaped

(***************************************************************************)
(* Starting again never puts a second process beside the first one.        *)
(***************************************************************************)
OneProcessPerWorker ==
    \A w \in Workers, i, j \in Runs :
        (proc[w][i] \in Unreaped /\ proc[w][j] \in Unreaped) => i = j

(***************************************************************************)
(* getExitStatus() tells the exit status of the worker's last run, and of  *)
(* one that exited: never that of an earlier run, never for a signal.      *)
(***************************************************************************)
ExitStatusOfLastRun ==
    \A w \in Workers : exitOf[w] # NoRun =>
        exitOf[w] = pid[w] /\ proc[w][pid[w]] = "collected"

(***************************************************************************)
(* Liveness: a wait for workers that all return is over sooner or later,   *)
(* unless the end of one of them was lost before the wait began, or the    *)
(* call is held for children of other managers: a handler left by an       *)
(* earlier start reaped the last worker of this manager between the count  *)
(* of the active ones and wait(2).  waitForWorkerExit(), which takes the   *)
(* handler away, cannot be held.                                           *)
(***************************************************************************)
InWait == at \in {"wait", "reaping"}
HeldByOthers ==
    /\ at = "reaping" /\ handler /\ NoneActive(mgr)
    /\ \E w \in Workers \ Mine(mgr), n \in Runs : proc[w][n] \in Unreaped

WaitReturns ==
    (InWait /\ \A w \in Mine(mgr) : w \notin LongLived /\ ~Lost(w))
        ~> (~InWait \/ HeldByOthers)
=============================================================================
