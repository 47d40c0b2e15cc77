------------------------- MODULE ForkManager_proofs -------------------------
(***************************************************************************)
(* Proofs about ForkManager, for any managers, workers and number of       *)
(* processes.                                                              *)
(*                                                                         *)
(* The inductive invariant follows the PIDs: every process of a worker     *)
(* except the one its controller names has been reaped, and outside the    *)
(* window between fork() and the entry in _wcStatus the entry names that   *)
(* same process, so that a cleared flag tells about it and no other.       *)
(***************************************************************************)
EXTENDS ForkManagerProperties, TLAPS

(* Processes are numbered as they are forked, and only the last one can be *)
(* the controller's.                                                       *)
Numbered(w) ==
    /\ \A n \in Runs : n > runs[w] => proc[w][n] = "none"
    /\ pid[w] # NoRun => pid[w] = runs[w]
    /\ entry[w].pid =< runs[w]

(* Every process but the controller's has been reaped.                     *)
OthersGone(w) ==
    \A n \in Runs : n =< runs[w] /\ n # pid[w] => proc[w][n] \in Gone

(* The entry speaks of the controller's process.                           *)
EntryTrue(w) ==
    pid[w] # NoRun /\ ~InFlight(w) =>
        /\ entry[w].pid = pid[w]
        /\ ~entry[w].working => proc[w][pid[w]] \in Gone

StatusTrue(w) ==
    exitOf[w] # NoRun =>
        exitOf[w] = pid[w] /\ proc[w][pid[w]] = "collected"

WorkerInv(w) == Numbered(w) /\ OthersGone(w) /\ EntryTrue(w) /\ StatusTrue(w)

(* Where startWorkers() is: workers to start are reset, the one in flight  *)
(* is not among them.                                                      *)
StartInv ==
    /\ at \in {"starting", "forked", "half"} => \A w \in todo : pid[w] = NoRun
    /\ at \in {"forked", "half"} => pid[cur] # NoRun /\ cur \notin todo
    /\ at = "half" => entry[cur].pid = pid[cur]

IInv == TypeOK /\ StartInv /\ \A w \in Workers : WorkerInv(w)

USE ForkAssumption
-----------------------------------------------------------------------------
LEMMA InitTypes == Init => TypeOK
<1> SUFFICES ASSUME Init PROVE TypeOK
  OBVIOUS
<1>1. 0 \in 0 .. MaxForks /\ "none" \in ProcState
  BY DEF ProcState
<1>2. proc \in [Workers -> [Runs -> ProcState]]
  BY <1>1 DEF Init
<1> QED
  BY <1>1, <1>2 DEF Init, TypeOK, Location, NoRun

(* One process changes its state.                                          *)
LEMMA BecomesTypes ==
    ASSUME proc \in [Workers -> [Runs -> ProcState]], NEW w \in Workers,
           NEW n \in Runs, NEW s \in ProcState, Becomes(w, n, s)
    PROVE  /\ proc' \in [Workers -> [Runs -> ProcState]]
           /\ \A v \in Workers, i \in Runs :
                proc'[v][i] = IF v = w /\ i = n THEN s ELSE proc[v][i]
<1>1. proc[w] \in [Runs -> ProcState]
  OBVIOUS
<1>2. proc' = [proc EXCEPT ![w] = [proc[w] EXCEPT ![n] = s]]
  BY DEF Becomes
<1> QED
  BY <1>1, <1>2

(* Every step keeps the types.                                             *)
LEMMA NextTypes == TypeOK /\ [Next]_vars => TypeOK'
<1> SUFFICES ASSUME TypeOK, [Next]_vars PROVE TypeOK'
  OBVIOUS
<1> USE DEF TypeOK
<1>1. ASSUME NEW m \in Managers, NEW wait \in WaitModes, StartWorkers(m, wait)
      PROVE  TypeOK'
  BY <1>1 DEF StartWorkers, Begin, ResetControllers, Mine, NoRun, Location,
              procVars
<1>2. ASSUME NEW m \in Managers, Reset(m) PROVE TypeOK'
  BY <1>2 DEF Reset, ResetControllers, Mine, NoRun, callVars, procVars
<1>3. ASSUME NEW m \in Managers, WaitForWorkerExit(m) PROVE TypeOK'
  BY <1>3 DEF WaitForWorkerExit, ctlVars, procVars, Location
<1>4. ASSUME NEW w \in Workers, NEW wait \in WaitModes, StartWorker(w, wait)
      PROVE  TypeOK'
  BY <1>4 DEF StartWorker, Begin, ResetControllers, NoRun, Location, procVars
<1>5. ASSUME NEW w \in Workers, StopWorker(w) PROVE TypeOK'
  <2>1. proc' \in [Workers -> [Runs -> ProcState]]
    <3>1. CASE IsWorking(w)
      <4>1. pid[w] \in Runs
        BY <3>1 DEF IsWorking, Runs, NoRun
      <4>2. Stopped(proc[w][pid[w]]) \in ProcState
        BY <4>1 DEF Stopped, ProcState, Alive, Zombie
      <4> QED
        BY <1>5, <3>1, <4>1, <4>2, BecomesTypes DEF StopWorker
    <3>2. CASE ~IsWorking(w)
      BY <1>5, <3>2 DEF StopWorker
    <3> QED
      BY <3>1, <3>2
  <2> QED
    BY <1>5, <2>1 DEF StopWorker, callVars
<1>6. ASSUME NEW w \in Workers, Fork(w) PROVE TypeOK'
  <2>1. runs[w] + 1 \in Runs
    BY <1>6 DEF Fork, Runs
  <2>2. "young" \in ProcState
    BY DEF ProcState, Alive
  <2>3. proc' \in [Workers -> [Runs -> ProcState]]
    BY <1>6, <2>1, <2>2, BecomesTypes DEF Fork, Becomes
  <2> QED
    BY <1>6, <2>1, <2>3 DEF Fork, Location, Runs
<1>7. CASE ForkFailure
  BY <1>7 DEF ForkFailure, ctlVars, procVars, Location
<1>8. CASE RecordPid
  BY <1>8 DEF RecordPid, ctlVars, procVars, Location
<1>9. CASE RecordWorking
  BY <1>9 DEF RecordWorking, ctlVars, procVars, Location
<1>10. CASE InstallReaper
  BY <1>10 DEF InstallReaper, ctlVars, procVars, Location
<1>11. CASE WaitOver \/ WaitCalled \/ NoChildren
  BY <1>11 DEF WaitOver, WaitCalled, NoChildren, ctlVars, procVars, Location
<1>12. ASSUME NEW w \in Workers, NEW n \in Runs, WaitReaps(w, n) PROVE TypeOK'
  <2>1. proc' \in [Workers -> [Runs -> ProcState]]
    <3>1. AfterReap(proc[w][n]) \in ProcState
      BY DEF AfterReap, ProcState, Gone
    <3> QED
      BY <1>12, <3>1, BecomesTypes DEF WaitReaps
  <2>2. entry' \in [Workers -> [pid : 0 .. MaxForks, working : BOOLEAN]]
    <3>1. [entry[w] EXCEPT !.working = FALSE]
             \in [pid : 0 .. MaxForks, working : BOOLEAN]
      <4>1. entry[w] \in [pid : 0 .. MaxForks, working : BOOLEAN]
        OBVIOUS
      <4> HIDE DEF TypeOK
      <4> QED
        BY <4>1
    <3>2. \/ entry' = entry
          \/ entry' = [entry EXCEPT ![w] = [entry[w] EXCEPT !.working = FALSE]]
      BY <1>12 DEF WaitReaps
    <3> QED
      BY <3>1, <3>2
  <2>3. exitOf' \in [Workers -> 0 .. MaxForks]
    BY <1>12 DEF WaitReaps, StatusNow, HasStatus
  <2> QED
    BY <1>12, <2>1, <2>2, <2>3 DEF WaitReaps, Location
<1>13. CASE Reap
  BY <1>13 DEF Reap, AfterReap, Marked, StatusNow, HasStatus, ProcState, Gone,
               callVars
<1>14. ASSUME NEW w \in Workers, NEW n \in Runs,
              Running(w, n) \/ ChildKilled(w, n)
       PROVE  TypeOK'
  <2>1. \E s \in ProcState : Becomes(w, n, s)
    BY <1>14 DEF Running, ChildReady, ChildExits, ChildKilled, ProcState, Alive,
                 Zombie
  <2>2. proc' \in [Workers -> [Runs -> ProcState]]
    BY <2>1, BecomesTypes
  <2> QED
    BY <1>14, <2>2 DEF Running, ChildReady, ChildExits, ChildKilled, ctlVars,
                       callVars
<1>15. CASE UNCHANGED vars
  BY <1>15 DEF vars, ctlVars, callVars, procVars
<1> QED
  BY <1>1, <1>2, <1>3, <1>4, <1>5, <1>6, <1>7, <1>8, <1>9, <1>10, <1>11, <1>12,
     <1>13, <1>14, <1>15 DEF Next, Call, Starting, Waiting

(* TypeOK: every variable keeps its type.                                  *)
THEOREM TypeCorrect == Spec => []TypeOK
<1> QED
  BY InitTypes, NextTypes, PTL DEF Spec

-----------------------------------------------------------------------------
LEMMA RunNumbers ==
    ASSUME TypeOK, NEW w \in Workers
    PROVE  /\ runs[w] \in 0 .. MaxForks /\ pid[w] \in 0 .. MaxForks
           /\ entry[w].pid \in 0 .. MaxForks /\ exitOf[w] \in 0 .. MaxForks
           /\ pid[w] # NoRun => pid[w] \in Runs
           /\ exitOf[w] # NoRun => exitOf[w] \in Runs
<1>1. /\ runs[w] \in 0 .. MaxForks /\ pid[w] \in 0 .. MaxForks
      /\ entry[w].pid \in 0 .. MaxForks /\ exitOf[w] \in 0 .. MaxForks
  BY DEF TypeOK
<1> QED
  BY <1>1 DEF Runs, NoRun

(* What may become of a process while its worker's bookkeeping rests: a    *)
(* process that is gone, or never was, stays so.                           *)
Advances(a, b) == b = a \/ (a \in Unreaped /\ b # "none")

LEMMA ProcessesAdvance ==
    ASSUME IInv, TypeOK', UNCHANGED <<pid, entry, exitOf, runs>>,
           \A w \in Workers : InFlight(w) => InFlight(w)',
           \A w \in Workers, n \in Runs : Advances(proc[w][n], proc'[w][n])
    PROVE  \A w \in Workers : WorkerInv(w)'
<1> SUFFICES ASSUME NEW w \in Workers PROVE WorkerInv(w)'
  OBVIOUS
<1>1. WorkerInv(w) /\ TypeOK
  BY DEF IInv
<1>2. \A n \in Runs : proc[w][n] \in Gone \cup {"none"}
                        => proc'[w][n] = proc[w][n]
  BY DEF Advances, Unreaped, Alive, Zombie, Gone
<1>3. pid[w] # NoRun => pid[w] \in Runs
  BY <1>1, RunNumbers
<1>4. Numbered(w)' /\ OthersGone(w)'
  BY <1>1, <1>2 DEF WorkerInv, Numbered, OthersGone
<1>5. EntryTrue(w)'
  BY <1>1, <1>2, <1>3 DEF WorkerInv, EntryTrue
<1>6. StatusTrue(w)'
  BY <1>1, <1>2, <1>3 DEF WorkerInv, StatusTrue, Gone
<1> QED
  BY <1>4, <1>5, <1>6 DEF WorkerInv

(* Only the controller's process may not have been reaped.                 *)
LEMMA UnreapedIsLast ==
    ASSUME TypeOK, NEW w \in Workers, WorkerInv(w), NEW n \in Runs,
           proc[w][n] \in Unreaped
    PROVE  n = pid[w] /\ n = runs[w]
<1>1. n =< runs[w]
  BY RunNumbers DEF WorkerInv, Numbered, Runs, Unreaped, Alive, Zombie
<1>2. n = pid[w]
  BY <1>1 DEF WorkerInv, OthersGone, Unreaped, Alive, Zombie, Gone
<1> QED
  BY <1>2 DEF WorkerInv, Numbered, Runs, NoRun

(* A controller without a working process may be reset.                    *)
LEMMA ResetKeeps ==
    ASSUME IInv, TypeOK', NEW ws \in SUBSET Workers,
           \A w \in ws : ~IsWorking(w),
           at = "idle", at' \in {"idle", "starting"}, ResetControllers(ws),
           UNCHANGED <<entry, runs, proc>>
    PROVE  \A w \in Workers : WorkerInv(w)'
<1> SUFFICES ASSUME NEW w \in Workers PROVE WorkerInv(w)'
  OBVIOUS
<1>1. WorkerInv(w) /\ TypeOK
  BY DEF IInv
<1>2. ~InFlight(w) /\ ~InFlight(w)'
  BY DEF InFlight
<1>3. CASE w \in ws
  <2>1. pid'[w] = NoRun /\ exitOf'[w] = NoRun
    BY <1>3 DEF ResetControllers
  <2>2. pid[w] # NoRun => proc[w][pid[w]] \in Gone
    BY <1>1, <1>2, <1>3 DEF WorkerInv, EntryTrue, IsWorking
  <2>3. OthersGone(w)'
    BY <1>1, <2>1, <2>2 DEF WorkerInv, OthersGone, Runs, NoRun
  <2> QED
    BY <1>1, <2>1, <2>3 DEF WorkerInv, Numbered, EntryTrue, StatusTrue
<1>4. CASE w \notin ws
  <2>1. pid'[w] = pid[w] /\ exitOf'[w] = exitOf[w]
    BY <1>4 DEF ResetControllers
  <2> QED
    BY <1>1, <1>2, <2>1 DEF WorkerInv, Numbered, OthersGone, EntryTrue, StatusTrue
<1> QED
  BY <1>3, <1>4

(* fork(): the new process is the worker's last, and the controller's.     *)
LEMMA ForkKeeps ==
    ASSUME IInv, TypeOK', NEW v \in Workers, Fork(v)
    PROVE  \A w \in Workers : WorkerInv(w)'
<1> SUFFICES ASSUME NEW w \in Workers PROVE WorkerInv(w)'
  OBVIOUS
<1>1. WorkerInv(w) /\ TypeOK /\ pid[v] = NoRun
  BY DEF IInv, StartInv, Fork
<1>2. runs[v] \in Nat /\ runs[v] + 1 \in Runs
  BY <1>1 DEF TypeOK, Fork, Runs
<1>3. \A u \in Workers, i \in Runs :
        proc'[u][i] = IF u = v /\ i = runs[v] + 1 THEN "young" ELSE proc[u][i]
  BY <1>1, <1>2, BecomesTypes DEF TypeOK, Fork, Becomes, ProcState, Alive
<1>4. CASE w = v
  <2>1. pid'[w] = runs[w] + 1 /\ runs'[w] = runs[w] + 1
    BY <1>1, <1>4 DEF Fork, TypeOK
  <2>2. InFlight(w)'
    BY <1>4 DEF Fork, InFlight
  <2>3. exitOf'[w] = NoRun /\ entry' = entry
    BY <1>1, <1>4 DEF WorkerInv, StatusTrue, Fork
  <2>4. Numbered(w)'
    BY <1>1, <1>2, <1>3, <1>4, <2>1, <2>3, RunNumbers DEF WorkerInv, Numbered, Runs
  <2>5. OthersGone(w)'
    BY <1>1, <1>2, <1>3, <1>4, <2>1 DEF WorkerInv, OthersGone, Runs, NoRun
  <2> QED
    BY <2>2, <2>3, <2>4, <2>5 DEF WorkerInv, EntryTrue, StatusTrue
<1>5. CASE w # v
  <2>1. pid'[w] = pid[w] /\ runs'[w] = runs[w] /\ entry' = entry
        /\ exitOf' = exitOf
    BY <1>1, <1>5 DEF Fork, TypeOK
  <2>2. ~InFlight(w)
    BY DEF InFlight, Fork
  <2>3. \A i \in Runs : proc'[w][i] = proc[w][i]
    BY <1>3, <1>5
  <2>4. pid[w] # NoRun => pid[w] \in Runs
    BY <1>1, RunNumbers
  <2> QED
    BY <1>1, <2>1, <2>2, <2>3, <2>4
       DEF WorkerInv, Numbered, OthersGone, EntryTrue, StatusTrue
<1> QED
  BY <1>4, <1>5

-----------------------------------------------------------------------------
(* The entry of the worker in flight is being written.                     *)
LEMMA RecordKeeps ==
    ASSUME IInv, TypeOK', RecordPid \/ RecordWorking
    PROVE  \A w \in Workers : WorkerInv(w)'
<1> SUFFICES ASSUME NEW w \in Workers PROVE WorkerInv(w)'
  OBVIOUS
<1>1. /\ WorkerInv(w) /\ TypeOK /\ cur \in Workers
      /\ runs[w] \in Int /\ pid[w] \in Int
  BY RunNumbers DEF IInv, TypeOK
<1>2. UNCHANGED <<pid, exitOf, runs, proc, cur>>
  BY DEF RecordPid, RecordWorking, ctlVars, procVars
<1>3. pid[cur] # NoRun
  BY DEF IInv, StartInv, RecordPid, RecordWorking
<1>4. CASE w # cur
  <2>1. entry'[w] = entry[w]
    BY <1>1, <1>4 DEF RecordPid, RecordWorking, TypeOK
  <2>2. ~InFlight(w)
    BY <1>4 DEF InFlight
  <2> QED
    BY <1>1, <1>2, <2>1, <2>2
       DEF WorkerInv, Numbered, OthersGone, EntryTrue, StatusTrue
<1>5. CASE w = cur /\ RecordPid
  <2>1. InFlight(w)' /\ entry'[w].pid = pid[w]
    BY <1>1, <1>5 DEF RecordPid, InFlight, TypeOK
  <2>2. entry'[w].pid =< runs[w]
    BY <1>1, <1>3, <1>5, <2>1 DEF WorkerInv, Numbered
  <2> QED
    BY <1>1, <1>2, <2>1, <2>2
       DEF WorkerInv, Numbered, OthersGone, EntryTrue, StatusTrue
<1>6. CASE w = cur /\ RecordWorking
  <2>1. entry'[w].pid = pid[w] /\ entry'[w].working
    BY <1>1, <1>6 DEF RecordWorking, IInv, StartInv, TypeOK
  <2>2. entry'[w].pid =< runs[w]
    BY <1>1, <1>3, <1>6, <2>1 DEF WorkerInv, Numbered
  <2> QED
    BY <1>1, <1>2, <2>1, <2>2
       DEF WorkerInv, Numbered, OthersGone, EntryTrue, StatusTrue
<1> QED
  BY <1>4, <1>5, <1>6

(* The handler goes by the PIDs of the entries, and an entry that names an *)
(* ended process names the controller's.                                   *)
LEMMA ReapKeeps ==
    ASSUME IInv, TypeOK', Reap
    PROVE  \A w \in Workers : WorkerInv(w)'
<1> SUFFICES ASSUME NEW w \in Workers PROVE WorkerInv(w)'
  OBVIOUS
<1>1. WorkerInv(w) /\ TypeOK
  BY DEF IInv
<1>2. /\ UNCHANGED <<pid, runs, at, cur>>
      /\ entry'[w] = Marked(w) /\ exitOf'[w] = StatusNow(w)
      /\ \A n \in Runs : proc'[w][n] = AfterReap(proc[w][n])
  BY DEF Reap, callVars
<1>3. entry'[w].pid = entry[w].pid
  BY <1>1, <1>2 DEF Marked, TypeOK
<1>4. pid[w] # NoRun => pid[w] \in Runs
  BY <1>1, RunNumbers
<1>5. Numbered(w)' /\ OthersGone(w)'
  BY <1>1, <1>2, <1>3 DEF WorkerInv, Numbered, OthersGone, AfterReap, Gone
<1>6. EntryTrue(w)'
  <2> SUFFICES ASSUME pid[w] # NoRun, ~InFlight(w)
               PROVE  /\ entry'[w].pid = pid[w]
                      /\ ~entry'[w].working => proc'[w][pid[w]] \in Gone
    BY <1>2 DEF EntryTrue, InFlight
  <2>1. entry[w].pid = pid[w]
    BY <1>1 DEF WorkerInv, EntryTrue
  <2>2. CASE Ended(w, pid[w])
    BY <1>2, <1>3, <1>4, <2>1, <2>2 DEF Ended, Zombie, Gone, AfterReap
  <2>3. CASE ~Ended(w, pid[w])
    <3>1. entry'[w] = entry[w]
      BY <1>2, <2>1, <2>3 DEF Marked
    <3> QED
      BY <1>1, <1>2, <1>4, <2>1, <3>1 DEF WorkerInv, EntryTrue, AfterReap, Gone
  <2> QED
    BY <2>2, <2>3
<1>7. StatusTrue(w)'
  <2>1. CASE HasStatus(w, entry[w].pid)
    <3>1. entry[w].pid = pid[w]
      BY <1>1, <2>1, UnreapedIsLast DEF HasStatus, Unreaped, Zombie
    <3> QED
      BY <1>2, <1>4, <2>1, <3>1 DEF StatusTrue, StatusNow, HasStatus, AfterReap
  <2>2. CASE ~HasStatus(w, entry[w].pid)
    BY <1>1, <1>2, <1>4, <2>2 DEF WorkerInv, StatusTrue, StatusNow, AfterReap
  <2> QED
    BY <2>1, <2>2
<1> QED
  BY <1>5, <1>6, <1>7 DEF WorkerInv

(* wait(2) reaps one process, perhaps one of another manager.              *)
LEMMA WaitReapsKeeps ==
    ASSUME IInv, TypeOK', NEW v \in Workers, NEW n \in Runs, WaitReaps(v, n)
    PROVE  \A w \in Workers : WorkerInv(w)'
<1>1. TypeOK /\ WorkerInv(v) /\ proc[v][n] \in Zombie
  BY DEF IInv, WaitReaps, Ended
<1>2. n = pid[v] /\ n = runs[v]
  BY <1>1, UnreapedIsLast DEF Unreaped
<1>3. \A w \in Workers, i \in Runs :
        proc'[w][i] = IF w = v /\ i = n THEN AfterReap(proc[v][n])
                      ELSE proc[w][i]
  <2>1. AfterReap(proc[v][n]) \in ProcState
    BY <1>1 DEF AfterReap, Zombie, ProcState, Gone
  <2> QED
    BY <1>1, <2>1, BecomesTypes DEF TypeOK, WaitReaps
<1>4. AfterReap(proc[v][n]) \in Gone
  BY <1>1 DEF AfterReap, Zombie, Gone
<1>5. \A w \in Workers : ~InFlight(w) /\ ~InFlight(w)'
  BY DEF InFlight, WaitReaps
<1>6. \A w \in Workers, i \in Runs : Advances(proc[w][i], proc'[w][i])
  BY <1>1, <1>3, <1>4 DEF Advances, Unreaped, Gone
<1>7. CASE UNCHANGED <<entry, exitOf>>
  BY <1>5, <1>6, <1>7, ProcessesAdvance DEF WaitReaps
<1>8. CASE /\ entry[v].pid = n
           /\ entry' = [entry EXCEPT ![v].working = FALSE]
           /\ exitOf' = [exitOf EXCEPT ![v] = StatusNow(v)]
  <2> SUFFICES ASSUME NEW w \in Workers PROVE WorkerInv(w)'
    OBVIOUS
  <2>1. WorkerInv(w) /\ UNCHANGED <<pid, runs>>
    BY DEF IInv, WaitReaps
  <2>2. entry'[w].pid = entry[w].pid
    BY <1>1, <1>8 DEF TypeOK
  <2>3. pid[w] # NoRun => pid[w] \in Runs
    BY <1>1, RunNumbers
  <2>4. Numbered(w)' /\ OthersGone(w)'
    BY <1>1, <1>2, <1>3, <1>4, <2>1, <2>2
       DEF WorkerInv, Numbered, OthersGone, Runs
  <2>5. CASE w = v
    <3>1. entry'[w].pid = pid[w] /\ proc'[w][pid[w]] \in Gone
      BY <1>2, <1>3, <1>4, <1>8, <2>2, <2>5
    <3>2. EntryTrue(w)'
      BY <2>1, <3>1 DEF EntryTrue
    <3>3. exitOf'[w] = StatusNow(w)
      BY <1>1, <1>8, <2>5 DEF TypeOK
    <3>4. StatusTrue(w)'
      <4>1. CASE proc[v][n] = "exited"
        BY <1>2, <1>3, <1>8, <2>1, <2>5, <3>3, <4>1
           DEF StatusTrue, StatusNow, HasStatus, AfterReap
      <4>2. CASE proc[v][n] # "exited"
        <5>1. exitOf'[w] = exitOf[w]
          BY <1>8, <2>5, <3>3, <4>2 DEF StatusNow, HasStatus
        <5>2. exitOf[w] = NoRun
          BY <1>1, <1>2, <2>1, <2>5 DEF WorkerInv, StatusTrue, Zombie
        <5> QED
          BY <5>1, <5>2 DEF StatusTrue
      <4> QED
        BY <4>1, <4>2
    <3> QED
      BY <2>4, <3>2, <3>4 DEF WorkerInv
  <2>6. CASE w # v
    <3>1. entry'[w] = entry[w] /\ exitOf'[w] = exitOf[w]
      BY <1>1, <1>8, <2>6 DEF TypeOK
    <3>2. \A i \in Runs : proc'[w][i] = proc[w][i]
      BY <1>3, <2>6
    <3> QED
      BY <1>5, <2>1, <2>3, <2>4, <3>1, <3>2 DEF WorkerInv, EntryTrue, StatusTrue
  <2> QED
    BY <2>5, <2>6
<1> QED
  BY <1>7, <1>8 DEF WaitReaps

(* Where startWorkers() is.                                                *)
LEMMA NextStart == IInv /\ TypeOK' /\ [Next]_vars => StartInv'
<1> SUFFICES ASSUME IInv, TypeOK', [Next]_vars PROVE StartInv'
  OBVIOUS
<1>1. TypeOK /\ StartInv
  BY DEF IInv
<1>2. CASE at' \notin {"starting", "forked", "half"}
  BY <1>2 DEF StartInv
<1>3. ASSUME NEW m \in Managers, NEW wait \in WaitModes, StartWorkers(m, wait)
      PROVE  StartInv'
  BY <1>3 DEF StartWorkers, Begin, ResetControllers, StartInv, Mine
<1>4. ASSUME NEW w \in Workers, NEW wait \in WaitModes, StartWorker(w, wait)
      PROVE  StartInv'
  BY <1>4 DEF StartWorker, Begin, ResetControllers, StartInv
<1>5. ASSUME NEW w \in Workers, Fork(w) PROVE StartInv'
  <2>1. pid'[w] = runs[w] + 1 /\ \A v \in Workers \ {w} : pid'[v] = pid[v]
    BY <1>1, <1>5 DEF Fork, TypeOK
  <2>2. runs[w] + 1 # NoRun
    BY <1>1, RunNumbers DEF NoRun
  <2> QED
    BY <1>1, <1>5, <2>1, <2>2 DEF Fork, StartInv, TypeOK
<1>6. CASE RecordPid
  BY <1>1, <1>6 DEF RecordPid, StartInv, TypeOK, ctlVars
<1>7. CASE RecordWorking
  BY <1>1, <1>7 DEF RecordWorking, StartInv, ctlVars
<1>8. CASE Reap
  <2>1. \A w \in Workers : entry'[w].pid = entry[w].pid
    BY <1>1, <1>8 DEF Reap, Marked, TypeOK
  <2> QED
    BY <1>1, <1>8, <2>1 DEF Reap, StartInv, TypeOK, callVars
<1>9. CASE UNCHANGED <<at, cur, todo, pid, entry>>
  BY <1>1, <1>9 DEF StartInv
<1>10. ASSUME NEW w \in Workers, NEW n \in Runs,
              Running(w, n) \/ ChildKilled(w, n)
       PROVE  UNCHANGED <<at, cur, todo, pid, entry>>
  BY <1>10 DEF Running, ChildReady, ChildExits, ChildKilled, ctlVars, callVars
<1>11. ASSUME NEW w \in Workers, StopWorker(w)
       PROVE  UNCHANGED <<at, cur, todo, pid, entry>>
  BY <1>11 DEF StopWorker, callVars
<1>12. CASE UNCHANGED vars
  BY <1>9, <1>12 DEF vars, callVars, ctlVars
<1>13. ASSUME NEW m \in Managers, Reset(m) \/ WaitForWorkerExit(m)
       PROVE  at' \notin {"starting", "forked", "half"}
  BY <1>13 DEF Reset, WaitForWorkerExit, callVars
<1>14. ForkFailure \/ InstallReaper \/ WaitOver \/ WaitCalled \/ NoChildren
         => at' \notin {"starting", "forked", "half"}
  BY DEF ForkFailure, InstallReaper, WaitOver, WaitCalled, NoChildren
<1>15. ASSUME NEW w \in Workers, NEW n \in Runs, WaitReaps(w, n)
       PROVE  at' \notin {"starting", "forked", "half"}
  BY <1>15 DEF WaitReaps
<1> QED
  BY <1>2, <1>3, <1>4, <1>5, <1>6, <1>7, <1>8, <1>9, <1>10, <1>11, <1>12, <1>13,
     <1>14, <1>15 DEF Next, Call, Starting, Waiting

(* Every step keeps the bookkeeping of every worker.                       *)
LEMMA NextWorkers ==
    IInv /\ TypeOK' /\ [Next]_vars => \A w \in Workers : WorkerInv(w)'
<1> DEFINE Kept == \A w \in Workers : WorkerInv(w)'
<1> SUFFICES ASSUME IInv, TypeOK', [Next]_vars PROVE Kept
  OBVIOUS
<1>1. TypeOK
  BY DEF IInv
<1>2. ASSUME NEW m \in Managers, NEW wait \in WaitModes, StartWorkers(m, wait)
      PROVE  Kept
  <2>1. Mine(m) \in SUBSET Workers
    BY DEF Mine
  <2> QED
    BY <1>2, <2>1, ResetKeeps DEF StartWorkers, Begin, NoneActive, procVars
<1>3. ASSUME NEW m \in Managers, Reset(m) PROVE Kept
  <2>1. Mine(m) \in SUBSET Workers
    BY DEF Mine
  <2> QED
    BY <1>3, <2>1, ResetKeeps DEF Reset, NoneActive, procVars, callVars
<1>4. ASSUME NEW w \in Workers, NEW wait \in WaitModes, StartWorker(w, wait)
      PROVE  Kept
  BY <1>4, ResetKeeps DEF StartWorker, Begin, procVars
<1>5. ASSUME NEW w \in Workers, Fork(w) PROVE Kept
  BY <1>5, ForkKeeps
<1>6. CASE RecordPid \/ RecordWorking
  BY <1>6, RecordKeeps
<1>7. CASE Reap
  BY <1>7, ReapKeeps
<1>8. ASSUME NEW w \in Workers, NEW n \in Runs, WaitReaps(w, n) PROVE Kept
  BY <1>8, WaitReapsKeeps
<1>9. ASSUME UNCHANGED <<pid, entry, exitOf, runs, proc>>,
             at \notin {"forked", "half"} \/ UNCHANGED <<at, cur>>
      PROVE  Kept
  BY <1>9, ProcessesAdvance DEF Advances, InFlight
<1>10. ASSUME NEW m \in Managers, WaitForWorkerExit(m) PROVE Kept
  BY <1>9, <1>10 DEF WaitForWorkerExit, ctlVars, procVars
<1>11. CASE ForkFailure \/ InstallReaper \/ WaitOver \/ WaitCalled \/ NoChildren
  BY <1>9, <1>11 DEF ForkFailure, InstallReaper, WaitOver, WaitCalled, NoChildren,
                     ctlVars, procVars
<1>12. CASE UNCHANGED vars
  BY <1>9, <1>12 DEF vars, ctlVars, procVars, callVars
<1>13. ASSUME UNCHANGED <<pid, entry, exitOf, runs, at, cur>>,
              NEW w \in Workers, NEW n \in Runs, NEW s \in ProcState,
              Becomes(w, n, s), Advances(proc[w][n], s)
       PROVE  Kept
  <2>1. \A v \in Workers, i \in Runs : Advances(proc[v][i], proc'[v][i])
    BY <1>1, <1>13, BecomesTypes DEF TypeOK, Advances
  <2> QED
    BY <1>13, <2>1, ProcessesAdvance DEF InFlight
<1>14. ASSUME NEW w \in Workers, NEW n \in Runs,
              Running(w, n) \/ ChildKilled(w, n)
       PROVE  Kept
  <2>1. \E s \in ProcState : Becomes(w, n, s) /\ Advances(proc[w][n], s)
    BY <1>14 DEF Running, ChildReady, ChildExits, ChildKilled, Advances,
                 Unreaped, ProcState, Alive, Zombie
  <2>2. UNCHANGED <<pid, entry, exitOf, runs, at, cur>>
    BY <1>14 DEF Running, ChildReady, ChildExits, ChildKilled, ctlVars, callVars
  <2> QED
    BY <1>13, <2>1, <2>2
<1>15. ASSUME NEW w \in Workers, StopWorker(w) PROVE Kept
  <2>1. UNCHANGED <<pid, entry, exitOf, runs, at, cur>>
    BY <1>15 DEF StopWorker, callVars
  <2>2. CASE ~IsWorking(w)
    BY <1>9, <1>15, <2>1, <2>2 DEF StopWorker
  <2>3. CASE IsWorking(w)
    <3>1. pid[w] \in Runs
      BY <1>1, <2>3, RunNumbers DEF IsWorking
    <3>2. /\ Stopped(proc[w][pid[w]]) \in ProcState
          /\ Advances(proc[w][pid[w]], Stopped(proc[w][pid[w]]))
      BY <1>1, <3>1 DEF TypeOK, Stopped, Advances, Unreaped, ProcState, Alive,
                        Zombie
    <3> QED
      BY <1>13, <1>15, <2>1, <2>3, <3>1, <3>2 DEF StopWorker
  <2> QED
    BY <2>2, <2>3
<1> HIDE DEF Kept
<1> QED
  BY <1>2, <1>3, <1>4, <1>5, <1>6, <1>7, <1>8, <1>10, <1>11, <1>12, <1>14, <1>15
     DEF Next, Call, Starting, Waiting

-----------------------------------------------------------------------------
LEMMA InitInv == Init => IInv
<1> SUFFICES ASSUME Init PROVE IInv
  OBVIOUS
<1>1. TypeOK
  BY InitTypes
<1>2. StartInv
  BY DEF Init, StartInv
<1>3. ASSUME NEW w \in Workers PROVE WorkerInv(w)
  BY DEF Init, WorkerInv, Numbered, OthersGone, EntryTrue, StatusTrue, Runs,
         NoRun
<1> QED
  BY <1>1, <1>2, <1>3 DEF IInv

(* The bookkeeping of the managers is an invariant.                        *)
THEOREM BookkeepingCorrect == Spec => []IInv
<1>1. IInv /\ [Next]_vars => IInv'
  BY NextTypes, NextStart, NextWorkers DEF IInv
<1> QED
  BY <1>1, InitInv, PTL DEF Spec

(* NotWorkingIsGone: a worker that isWorking() denies has been reaped, so  *)
(* it may be reset and started again.                                      *)
THEOREM NotWorkingIsGoneCorrect == Spec => []NotWorkingIsGone
<1>1. IInv => NotWorkingIsGone
  <2> SUFFICES ASSUME IInv, NEW w \in Workers, ~IsWorking(w), ~InFlight(w),
                      NEW n \in Runs, proc[w][n] \in Unreaped
               PROVE  FALSE
    BY DEF NotWorkingIsGone
  <2>1. TypeOK /\ WorkerInv(w)
    BY DEF IInv
  <2>2. n = pid[w]
    BY <2>1, UnreapedIsLast
  <2>3. proc[w][n] \in Gone
    BY <2>1, <2>2 DEF WorkerInv, EntryTrue, IsWorking, Runs, NoRun
  <2> QED
    BY <2>3 DEF Unreaped, Alive, Zombie, Gone
<1> QED
  BY <1>1, BookkeepingCorrect, PTL

(* OneProcessPerWorker: no call puts a second process beside the first.    *)
THEOREM OneProcessCorrect == Spec => []OneProcessPerWorker
<1>1. IInv => OneProcessPerWorker
  <2> SUFFICES ASSUME IInv, NEW w \in Workers, NEW i \in Runs, NEW j \in Runs,
                      proc[w][i] \in Unreaped, proc[w][j] \in Unreaped
               PROVE  i = j
    BY DEF OneProcessPerWorker
  <2>1. TypeOK /\ WorkerInv(w)
    BY DEF IInv
  <2> QED
    BY <2>1, UnreapedIsLast
<1> QED
  BY <1>1, BookkeepingCorrect, PTL

(* ExitStatusOfLastRun: an exit status shown is the last run's own.        *)
THEOREM ExitStatusCorrect == Spec => []ExitStatusOfLastRun
<1>1. IInv => ExitStatusOfLastRun
  BY DEF IInv, WorkerInv, StatusTrue, ExitStatusOfLastRun
<1> QED
  BY <1>1, BookkeepingCorrect, PTL
=============================================================================
