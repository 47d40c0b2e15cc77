----------------------------- MODULE ForkManager -----------------------------
(***************************************************************************)
(* Process::ForkManager (be_process_forkmanager.cpp): the managers of one  *)
(* parent process, the workers they fork, and the SIGCHLD handler the      *)
(* managers share.  The parent has one thread of control, which makes the  *)
(* public calls one at a time; the handler runs in it between any two of   *)
(* its steps, and the children run on their own.                           *)
(*                                                                         *)
(* A worker's n-th process is run n of it, which stands for its PID: the   *)
(* model does not reuse a PID.  broadcastSignal(), which changes nothing   *)
(* in the parent, is the death of the processes it reaches (ChildKilled).  *)
(***************************************************************************)
EXTENDS Integers, Functions, FiniteSets

CONSTANTS Managers,    \* the ForkManagers of the process
          Workers,     \* the WorkerControllers of them all
          ManagerOf,   \* the manager each worker was added to
          LongLived,   \* workers that return only when asked to stop
          WaitModes,   \* values callers pass for the wait parameter
          ForkFails,   \* whether fork() may fail
          MaxForks     \* bound: processes forked in all

ASSUME ForkAssumption == /\ Workers # {} /\ IsFiniteSet(Workers)
                         /\ ManagerOf \in [Workers -> Managers]
                         /\ LongLived \subseteq Workers
                         /\ WaitModes \subseteq BOOLEAN
                         /\ ForkFails \in BOOLEAN
                         /\ MaxForks \in Nat

VARIABLES
    pid,         \* _pid of each controller, 0 when reset
    entry,       \* _wcStatus: the PID and isWorking flag of each controller
    exitOf,      \* run whose exit status the controller holds, 0 for none
    pendingExit, \* _pendingExit of all managers
    parent,      \* _parent of each manager
    at,          \* where the parent's thread is
    mgr,         \* the manager it called
    todo,        \* workers startWorkers() has still to start
    cur,         \* worker just forked
    thenWait,    \* the wait parameter of the call
    handler,     \* SIGCHLD goes to reap(), not to its default
    sigchld,     \* SIGCHLD is pending
    runs,        \* processes forked for each worker so far
    proc         \* state of every process

callVars  == <<at, mgr, todo, cur, thenWait>>
ctlVars   == <<pid, exitOf, pendingExit>>
procVars  == <<runs, proc>>
vars == <<ctlVars, entry, parent, callVars, handler, sigchld, procVars>>

Runs  == 1 .. MaxForks
NoRun == 0
Alive  == {"young", "running", "stopping"}  \* young: SIGUSR1 still kills it
Zombie == {"exited", "killed"}
Unreaped == Alive \cup Zombie
Gone   == {"collected", "removed"}          \* reaped, after either end
ProcState == {"none"} \cup Alive \cup Zombie \cup Gone
Location  == {"idle", "starting", "forked", "half", "install",
              "wait", "reaping"}  \* outer and inner loop of _wait()

Forks   == FoldFunction(+, 0, runs)
Mine(m) == {w \in Workers : ManagerOf[w] = m}

(* ForkWorkerController::isWorking().                                      *)
IsWorking(w)    == /\ pid[w] # NoRun
                   /\ entry[w].pid = pid[w] /\ entry[w].working
Unguarded(m)    == TRUE                                         \* a mistake
NoneActive(m)   == \A w \in Mine(m) : ~IsWorking(w)

TypeOK ==
    /\ pid \in [Workers -> 0 .. MaxForks]
    /\ entry \in [Workers -> [pid : 0 .. MaxForks, working : BOOLEAN]]
    /\ exitOf \in [Workers -> 0 .. MaxForks]
    /\ pendingExit \subseteq Workers
    /\ parent \in [Managers -> BOOLEAN]
    /\ at \in Location /\ mgr \in Managers
    /\ todo \subseteq Workers /\ cur \in Workers
    /\ thenWait \in BOOLEAN /\ handler \in BOOLEAN /\ sigchld \in BOOLEAN
    /\ runs \in [Workers -> 0 .. MaxForks]
    /\ proc \in [Workers -> [Runs -> ProcState]]

Init ==
    /\ pid = [w \in Workers |-> NoRun]
    /\ entry = [w \in Workers |-> [pid |-> NoRun, working |-> FALSE]]
    /\ exitOf = [w \in Workers |-> NoRun]
    /\ pendingExit = {}
    /\ parent = [m \in Managers |-> FALSE]
    /\ at = "idle" /\ mgr \in Managers /\ todo = {} /\ cur \in Workers
    /\ thenWait = FALSE /\ handler = FALSE /\ sigchld = FALSE
    /\ runs = [w \in Workers |-> 0]
    /\ proc = [w \in Workers |-> [n \in Runs |-> "none"]]

-----------------------------------------------------------------------------
(***************************************************************************)
(* startWorkers() and startWorker().  The first resets every controller of *)
(* the manager and forgets its pending exits; the second resets one        *)
(* controller only.  A call made while workers are active throws at once.  *)
(***************************************************************************)
ResetControllers(ws) ==
    /\ pid' = [w \in Workers |-> IF w \in ws THEN NoRun ELSE pid[w]]
    /\ exitOf' = [w \in Workers |-> IF w \in ws THEN NoRun ELSE exitOf[w]]

Begin(m, ws, wait) ==
    /\ at = "idle"
    /\ Forks + Cardinality(ws) =< MaxForks
    /\ ResetControllers(ws)
    /\ at' = "starting" /\ mgr' = m /\ todo' = ws /\ thenWait' = wait
    /\ UNCHANGED <<entry, parent, cur, handler, sigchld, procVars>>

StartWorkers(m, wait) ==
    /\ NoneActive(m) /\ Mine(m) # {}
    /\ pendingExit' = pendingExit \ Mine(m)
    /\ Begin(m, Mine(m), wait)

StartWorker(w, wait) ==
    /\ ~IsWorking(w)
    /\ Begin(ManagerOf[w], {w}, wait)
    /\ UNCHANGED pendingExit

(* Manager::reset(), when called by the application.                       *)
Reset(m) ==
    /\ at = "idle" /\ NoneActive(m)
    /\ ResetControllers(Mine(m))
    /\ pendingExit' = pendingExit \ Mine(m)
    /\ UNCHANGED <<entry, parent, callVars, handler, sigchld, procVars>>

Fork(w) ==
    /\ at = "starting" /\ w \in todo /\ runs[w] < MaxForks
    /\ runs' = [runs EXCEPT ![w] = @ + 1]
    /\ proc' = [proc EXCEPT ![w][runs[w] + 1] = "young"]
    /\ pid' = [pid EXCEPT ![w] = runs[w] + 1]
    /\ at' = "forked" /\ cur' = w /\ todo' = todo \ {w}
    /\ UNCHANGED <<entry, exitOf, pendingExit, parent, mgr, thenWait, handler,
                   sigchld>>

(* The exception leaves startWorkers() before _parent is set.              *)
ForkFailure ==
    /\ ForkFails /\ at = "starting" /\ todo # {}
    /\ at' = "idle" /\ todo' = {}
    /\ UNCHANGED <<ctlVars, entry, parent, mgr, cur, thenWait, handler,
                   sigchld, procVars>>

(* _wcStatus[fwc].pid = ..., and then _wcStatus[fwc].isWorking = true: a   *)
(* child may end, and be reaped by the handler, before either.             *)
RecordPid ==
    /\ at = "forked"
    /\ entry' = [entry EXCEPT ![cur].pid = pid[cur]]
    /\ at' = "half"
    /\ UNCHANGED <<ctlVars, parent, mgr, todo, cur, thenWait, handler, sigchld,
                   procVars>>

RecordWorking ==
    /\ at = "half"
    /\ entry' = [entry EXCEPT ![cur].working = TRUE]
    /\ IF todo # {} THEN at' = "starting" /\ UNCHANGED parent
       ELSE /\ at' = IF thenWait THEN "wait" ELSE "install"
            /\ parent' = [parent EXCEPT ![mgr] = TRUE]
    /\ UNCHANGED <<ctlVars, mgr, todo, cur, thenWait, handler, sigchld,
                   procVars>>

InstallReaper ==
    /\ at = "install"
    /\ handler' = TRUE
    /\ at' = "idle"
    /\ UNCHANGED <<ctlVars, entry, parent, mgr, todo, cur, thenWait, sigchld,
                   procVars>>

-----------------------------------------------------------------------------
(***************************************************************************)
(* The children, and the SIGCHLD their end sends: nothing is pending when  *)
(* the signal has its default action, which is to ignore it.               *)
(***************************************************************************)
Becomes(w, n, s) == proc' = [proc EXCEPT ![w][n] = s]

ChildReady(w, n) ==
    /\ proc[w][n] = "young"
    /\ Becomes(w, n, "running")
    /\ UNCHANGED <<ctlVars, entry, parent, callVars, handler, sigchld, runs>>

ChildExits(w, n) ==
    /\ proc[w][n] \in {"running", "stopping"}
    /\ Becomes(w, n, "exited")
    /\ sigchld' = (sigchld \/ handler)
    /\ UNCHANGED <<ctlVars, entry, parent, callVars, handler, runs>>

ChildKilled(w, n) ==
    /\ proc[w][n] \in Alive
    /\ Becomes(w, n, "killed")
    /\ sigchld' = (sigchld \/ handler)
    /\ UNCHANGED <<ctlVars, entry, parent, callVars, handler, runs>>

(***************************************************************************)
(* What the parent learns from wait(2): setExitStatus() and setNotWorking()*)
(* go by the PID of the manager's entry.                                   *)
(***************************************************************************)
AfterReap(s) == IF s = "exited" THEN "collected"
                ELSE IF s = "killed" THEN "removed" ELSE s
Ended(w, n)      == n \in Runs /\ proc[w][n] \in Zombie
AnyStatus(w, n)  == Ended(w, n)                                 \* a mistake
HasStatus(w, n)  == n \in Runs /\ proc[w][n] = "exited"

AllMarked(w)  == [entry[w] EXCEPT !.working = FALSE]            \* a mistake
Marked(w)     == IF Ended(w, entry[w].pid)
                   THEN [entry[w] EXCEPT !.working = FALSE] ELSE entry[w]
SignalStatus(w) == IF Ended(w, entry[w].pid)                    \* a mistake
                     THEN IF HasStatus(w, entry[w].pid) THEN entry[w].pid ELSE -1
                     ELSE exitOf[w]
StatusNow(w)  == IF HasStatus(w, entry[w].pid) THEN entry[w].pid ELSE exitOf[w]

(* The handler: every process that has ended is reaped, whoever forked it. *)
Reap ==
    /\ handler /\ sigchld
    /\ sigchld' = FALSE
    /\ proc' = [w \in Workers |-> [n \in Runs |-> AfterReap(proc[w][n])]]
    /\ entry' = [w \in Workers |-> Marked(w)]
    /\ exitOf' = [w \in Workers |-> StatusNow(w)]
    /\ UNCHANGED <<pid, pendingExit, parent, callVars, handler, runs>>

(***************************************************************************)
(* waitForWorkerExit() and _wait().  The first takes the handler away, and *)
(* returns at once from a manager that never finished a start.             *)
(***************************************************************************)
WaitForWorkerExit(m) ==
    /\ at = "idle"
    /\ handler' = FALSE /\ sigchld' = FALSE
    /\ mgr' = m
    /\ at' = IF parent[m] THEN "wait" ELSE "idle"
    /\ UNCHANGED <<ctlVars, entry, parent, todo, cur, thenWait, procVars>>

(* The active workers are counted in the outer loop only.  The inner loop  *)
(* calls wait(2) until it reaps a child or has none; a SIGCHLD interrupts  *)
(* the call, the handler runs, and wait(2) is called again.                *)
WaitOver ==
    /\ at = "wait" /\ NoneActive(mgr)
    /\ at' = "idle"
    /\ UNCHANGED <<ctlVars, entry, parent, mgr, todo, cur, thenWait, handler,
                   sigchld, procVars>>

WaitCalled ==
    /\ at = "wait" /\ ~NoneActive(mgr)
    /\ at' = "reaping"
    /\ UNCHANGED <<ctlVars, entry, parent, mgr, todo, cur, thenWait, handler,
                   sigchld, procVars>>

(* wait(2) returns any child.  One that is not this manager's ends _wait() *)
(* with a StrategyError, and its status is lost.                           *)
WaitReaps(w, n) ==
    /\ at = "reaping"
    /\ Ended(w, n)
    /\ Becomes(w, n, AfterReap(proc[w][n]))
    /\ IF w \in Mine(mgr) /\ entry[w].pid = n
         THEN /\ entry' = [entry EXCEPT ![w].working = FALSE]
              /\ exitOf' = [exitOf EXCEPT ![w] = StatusNow(w)]
              /\ at' = "wait"
         ELSE /\ at' = "idle"
              /\ UNCHANGED <<entry, exitOf>>
    /\ UNCHANGED <<pid, pendingExit, parent, mgr, todo, cur, thenWait, handler,
                   sigchld, runs>>

(* ECHILD: the workers are counted again, and wait(2) called again as long *)
(* as one of them is believed to be active.                                *)
EchildRetried == FALSE /\ UNCHANGED vars                        \* a mistake
NoChildren ==
    /\ at = "reaping"
    /\ \A w \in Workers, n \in Runs : proc[w][n] \notin Unreaped
    /\ at' = "wait"
    /\ UNCHANGED <<ctlVars, entry, parent, mgr, todo, cur, thenWait, handler,
                   sigchld, procVars>>

(***************************************************************************)
(* stopWorker(): the worker is put on the pending exits before it is known *)
(* to be working.  SIGUSR1 kills a child that has not yet set its handler, *)
(* and asks any other to stop.                                             *)
(***************************************************************************)
Stopped(s) == IF s = "young" THEN "killed"
              ELSE IF s = "running" THEN "stopping" ELSE s

StopWorker(w) ==
    /\ at = "idle" /\ parent[ManagerOf[w]]
    /\ pendingExit' = pendingExit \cup {w}
    /\ IF IsWorking(w)
         THEN /\ Becomes(w, pid[w], Stopped(proc[w][pid[w]]))
              /\ sigchld' = (sigchld \/ (handler /\ proc[w][pid[w]] = "young"))
         ELSE UNCHANGED <<proc, sigchld>>
    /\ UNCHANGED <<pid, exitOf, entry, parent, callVars, handler, runs>>

-----------------------------------------------------------------------------
Call == \/ \E m \in Managers :
             \/ \E wait \in WaitModes : StartWorkers(m, wait)
             \/ Reset(m) \/ WaitForWorkerExit(m)
        \/ \E w \in Workers :
             \/ \E wait \in WaitModes : StartWorker(w, wait)
             \/ StopWorker(w)

Starting == (\E w \in Workers : Fork(w)) \/ RecordPid \/ RecordWorking
            \/ InstallReaper
Waiting  == \/ WaitOver \/ WaitCalled \/ NoChildren
            \/ \E w \in Workers, n \in Runs : WaitReaps(w, n)
Running(w, n) == ChildReady(w, n) \/ ChildExits(w, n)

Next == \/ Call \/ Starting \/ ForkFailure \/ Waiting \/ Reap
        \/ \E w \in Workers, n \in Runs : Running(w, n) \/ ChildKilled(w, n)

(* The parent's thread and the children keep running, a pending signal is  *)
(* taken, and workerMain() returns sooner or later: of a long-lived worker *)
(* only once it was asked to stop.                                         *)
Finishes(w, n) == /\ w \in LongLived => proc[w][n] = "stopping"
                  /\ ChildExits(w, n)
Fairness == /\ WF_vars(Starting) /\ WF_vars(Waiting) /\ WF_vars(Reap)
            /\ \A w \in Workers, n \in Runs :
                 WF_vars(ChildReady(w, n)) /\ WF_vars(Finishes(w, n))

Spec     == Init /\ [][Next]_vars
FairSpec == Spec /\ Fairness
=============================================================================
