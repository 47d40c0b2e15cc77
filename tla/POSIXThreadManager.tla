------------------------- MODULE POSIXThreadManager -------------------------
(***************************************************************************)
(* Process::POSIXThreadManager (be_process_posixthreadmanager.cpp): the    *)
(* manager's calls, made by the main thread, against the threads that run  *)
(* the workers.  What a controller says of its worker are plain bool       *)
(* members that both sides write without a lock: _working and _hasWorked   *)
(* become true when the new thread comes to it, not when it is created.    *)
(*                                                                         *)
(* These stores are data races.  Those of reset() and of the wrapper       *)
(* before and after workerMain() are made in any order, as the build may   *)
(* order or delay them: that of _working, which the manager reads at any   *)
(* time, and those of what is read when the thread is joined: _hasWorked,  *)
(* and _rvSet with _rv, here one status.  pthread_join() makes all of them *)
(* visible.  A join of a thread never created or joined before has no      *)
(* meaning: the model ends there.                                          *)
(*                                                                         *)
(* A worker is so started again although a thread of it has not ended, for *)
(* as long as _working is not set yet, or is not set any more.  Its reset  *)
(* then races with that thread, and its handle is overwritten.             *)
(*                                                                         *)
(* Left out: what a worker does; stopWorker(), which sets a flag that only *)
(* the worker reads and lists it for what reads its pipes, so that a       *)
(* worker may return at any time; and the pipes (MessageCenter and         *)
(* PackageWorkers have them, over the same Manager).                       *)
(***************************************************************************)
EXTENDS Integers

CONSTANTS
    NumWorkers,  \* workers added, in the order _wait() joins them
    MaxThreads   \* bound: threads created

ASSUME ThreadAssumption ==
    NumWorkers \in Nat \ {0} /\ MaxThreads \in Nat

VARIABLES
    main,          \* [at, next, stores, all]: what the main thread is doing,
                   \* the worker it has come to and the stores of its reset()
                   \* still to be made; whether all workers are to be started
    thread,        \* [worker, at, stores] of each thread: the stores it
                   \* has still to make before or after workerMain()
    handle,        \* _thread of each controller: a thread, or NoThread
    joined,        \* workers whose thread pthread_join() was called for
    working,       \* _working
    hasWorked,     \* _hasWorked
    status,        \* _rv: the thread whose exit status it is, NoThread when
                   \* _rvSet says that there is none
    raced          \* history: workers reset while a thread of theirs had not
                   \* ended, and not started since when all had

flags == <<working, hasWorked, status>>
vars == <<main, thread, handle, joined, flags, raced>>

Workers  == 1 .. NumWorkers
Threads  == 1 .. MaxThreads
NoThread == 0

Created == {t \in Threads : thread[t].at # "none"}
Running(w) == {t \in Created : thread[t].worker = w /\ thread[t].at # "ended"}

IsWorking(w) == working[w]

\* getNumActiveWorkers(): it reads the flags one by one, here at one moment.
ActiveWorkers == {w \in Workers : IsWorking(w)}

---------------------------------------------------------------------------
(* A worker's thread: workerMainWrapper() *)

Stores == {"status", "working"}

StoreWorking(w, b) ==
    working' = [working EXCEPT ![w] = b] /\ UNCHANGED <<hasWorked, status>>
StoreStatus(w, worked, t) ==
    /\ hasWorked' = [hasWorked EXCEPT ![w] = worked]
    /\ status' = [status EXCEPT ![w] = t]
    /\ UNCHANGED working

\* The stores made before workerMain() ("enters") and after it ("leaves").
Store(t, s) ==
    LET w == thread[t].worker
        enters == thread[t].at = "enters"
    IN  /\ thread[t].at \in {"enters", "leaves"}
        /\ s \in thread[t].stores
        /\ thread' = [thread EXCEPT ![t].stores = @ \ {s}]
        /\ \/ s = "working" /\ StoreWorking(w, enters)
           \/ s = "status" /\ enters /\ StoreStatus(w, TRUE, NoThread)
           \/ s = "status" /\ ~enters /\ StoreStatus(w, hasWorked[w], t)
        /\ UNCHANGED <<main, handle, joined, raced>>

Goes(t, from, to, stores) ==
    /\ thread[t].at = from
    /\ thread[t].stores = {}
    /\ thread' = [thread EXCEPT ![t].at = to, ![t].stores = stores]
    /\ UNCHANGED <<main, handle, joined, flags, raced>>

\* workerMain() returns, on its own or because it was asked to stop, or
\* throws, which the wrapper turns into a status.
Returns(t) == Goes(t, "enters", "leaves", Stores)
Ends(t)    == Goes(t, "leaves", "ended", {})

---------------------------------------------------------------------------
(* Starting *)

MainAt(at, next) ==
    main' = [at |-> at, next |-> next, stores |-> {}, all |-> FALSE]
Idle == main.at = "idle"

\* On to worker w of the loop, its reset() to be made first.
MainResets(at, w) ==
    main' = [main EXCEPT !.at = at, !.next = w, !.stores = Stores]

\* A mistake: one worker too many.
GoesOn(after) ==
    IF main.next <= NumWorkers THEN MainAt(main.at, main.next + 1)
    ELSE MainAt(after, 1)

\* The loop of _wait() comes to the next worker, or ends.
Continues(after) ==
    IF main.next < NumWorkers THEN MainAt(main.at, main.next + 1)
    ELSE MainAt(after, 1)

\* A start of w that finds none of its threads left is a new beginning.
Begins(w) == raced' = IF Running(w) = {} THEN raced \ {w} ELSE raced

\* startWorker(), and start() as far as its reset(): refused of a worker that
\* says it works.
StartWorker(w) ==
    /\ Idle
    /\ ~IsWorking(w)
    /\ main' = [at |-> "resets", next |-> w, stores |-> Stores, all |-> FALSE]
    /\ Begins(w)
    /\ UNCHANGED <<thread, handle, joined, flags>>

\* startWorkers(), and Manager::reset() as far as the first reset().
StartWorkers ==
    /\ Idle
    /\ ActiveWorkers = {}
    /\ main' = [at |-> "resetsAll", next |-> 1, stores |-> Stores, all |-> TRUE]
    /\ UNCHANGED <<thread, handle, joined, flags, raced>>

\* One store of the reset() of a controller.
ResetStore(s) ==
    LET w == main.next
    IN  /\ main.at \in {"resetsAll", "resets"}
        /\ s \in main.stores
        /\ main' = [main EXCEPT !.stores = @ \ {s}]
        /\ \/ s = "working" /\ StoreWorking(w, FALSE)
           \/ s = "status" /\ StoreStatus(w, FALSE, NoThread)
        /\ raced' = IF Running(w) = {} THEN raced ELSE raced \cup {w}
        /\ UNCHANGED <<thread, handle, joined>>

\* Manager::reset() goes on to the next controller, or startWorkers() to the
\* first start().
ResetNext ==
    /\ main.at = "resetsAll" /\ main.stores = {}
    /\ IF main.next < NumWorkers THEN MainResets("resetsAll", main.next + 1)
       ELSE main' = [main EXCEPT !.at = "starts", !.next = 1]
    /\ UNCHANGED <<thread, handle, joined, flags, raced>>

\* start(), called by startWorkers(): a worker that works by now is refused.
StartNext ==
    /\ main.at = "starts"
    /\ IF IsWorking(main.next) THEN MainAt("idle", 1) /\ UNCHANGED raced
       ELSE MainResets("resets", main.next) /\ Begins(main.next)
    /\ UNCHANGED <<thread, handle, joined, flags>>

\* pthread_create(), the controller being reset; startWorker() and, after the
\* last worker, startWorkers() then return, or wait as their argument says.
Create ==
    LET w == main.next
    IN  /\ main.at = "resets" /\ main.stores = {}
        /\ \E t \in Threads \ Created :
            /\ \A u \in Threads \ Created : t <= u
            /\ thread' = [thread EXCEPT ![t] =
                             [worker |-> w, at |-> "enters", stores |-> Stores]]
            /\ handle' = [handle EXCEPT ![w] = t]
        /\ joined' = joined \ {w}
        /\ IF main.all /\ w < NumWorkers
           THEN main' = [main EXCEPT !.at = "starts", !.next = w + 1]
           ELSE MainAt("idle", 1) \/ MainAt("waits", 1)
        /\ UNCHANGED <<flags, raced>>

\* It fails, and leaves the handle as it was or without a meaning.
CreateFails ==
    /\ main.at = "resets" /\ main.stores = {}
    /\ MainAt("idle", 1)
    /\ \/ UNCHANGED handle
       \/ handle' = [handle EXCEPT ![main.next] = NoThread]
    /\ UNCHANGED <<thread, joined, flags, raced>>

---------------------------------------------------------------------------
(* Waiting *)

\* waitForWorkerExit()
WaitForWorkerExit ==
    /\ Idle
    /\ MainAt("waits", 1)
    /\ UNCHANGED <<thread, handle, joined, flags, raced>>

HasLeft(t)  == thread[t].at \in {"leaves", "ended"}             \* a mistake
HasEnded(t) == thread[t].at = "ended"
CanJoin(w)  == handle[w] # NoThread /\ w \notin joined

\* _wait(): the threads are joined in the order of the workers.
Join ==
    LET w == main.next
    IN  /\ main.at = "waits"
        /\ CanJoin(w) /\ HasEnded(handle[w])
        /\ joined' = joined \cup {w}
        /\ Continues("waited")
        /\ UNCHANGED <<thread, handle, flags, raced>>

\* No thread to join: what pthread_join() does then is undefined.
JoinsNothing ==
    /\ main.at = "waits"
    /\ ~CanJoin(main.next)
    /\ MainAt("undefined", 1)
    /\ UNCHANGED <<thread, handle, joined, flags, raced>>

WaitReturns ==
    /\ main.at = "waited"
    /\ MainAt("idle", 1)
    /\ UNCHANGED <<thread, handle, joined, flags, raced>>

---------------------------------------------------------------------------
Init ==
    /\ main = [at |-> "idle", next |-> 1, stores |-> {}, all |-> FALSE]
    /\ thread = [t \in Threads |-> [worker |-> 1, at |-> "none", stores |-> {}]]
    /\ handle = [w \in Workers |-> NoThread]
    /\ joined = {}
    /\ working = [w \in Workers |-> FALSE]
    /\ hasWorked = [w \in Workers |-> FALSE]
    /\ status = [w \in Workers |-> NoThread]
    /\ raced = {}

Thread(t) == Returns(t) \/ Ends(t) \/ \E s \in Stores : Store(t, s)

Main ==
    \/ StartWorkers \/ \E w \in Workers : StartWorker(w)
    \/ \E s \in Stores : ResetStore(s)
    \/ ResetNext \/ StartNext \/ Create \/ CreateFails
    \/ WaitForWorkerExit \/ Join \/ JoinsNothing \/ WaitReturns

Next == Main \/ \E t \in Threads : Thread(t)

Spec == Init /\ [][Next]_vars
=============================================================================
