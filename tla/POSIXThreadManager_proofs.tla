---------------------- MODULE POSIXThreadManager_proofs ----------------------
(***************************************************************************)
(* Proofs about POSIXThreadManager, for any number of workers and threads, *)
(* and for clients that restart workers whenever the manager lets them.    *)
(*                                                                         *)
(* WaitMeansFinished is about the moment a wait returns.  What carries it  *)
(* there is, of a worker that was not reset while a thread of its had not  *)
(* ended, that the controller's handle names the only thread that may      *)
(* still run and that this thread has made every store but those it has    *)
(* before it; and that a wait has joined the handles it has passed.  A     *)
(* worker that was reset so comes back to this when all its threads have   *)
(* ended and the stores of a later reset() are made.                       *)
(***************************************************************************)
EXTENDS POSIXThreadManagerProperties, TLAPS

Live(t) == thread[t].at \in {"enters", "leaves"}

(* A controller's handle is a thread of its worker, ended when joined.     *)
HandleTrue(w) ==
    handle[w] # NoThread =>
        /\ thread[handle[w]].at # "none" /\ thread[handle[w]].worker = w
        /\ w \in joined => thread[handle[w]].at = "ended"

(* It is the only one that may not have ended.                             *)
OnlyThread(w) ==
    \A t \in Threads : Live(t) /\ thread[t].worker = w => t = handle[w]

(* What a thread that leaves has stored.                                   *)
LeaveTrue(w) ==
    handle[w] # NoThread /\ thread[handle[w]].at = "leaves" =>
        /\ "status" \notin thread[handle[w]].stores => status[w] = handle[w]
        /\ "working" \notin thread[handle[w]].stores => ~working[w]

(* What one that has ended has, apart from what a reset has still to store.*)
Pending(w) ==
    IF main.at = "resets" /\ main.next = w THEN main.stores ELSE {}

EndTrue(w) ==
    handle[w] # NoThread /\ thread[handle[w]].at = "ended" =>
        /\ "working" \notin Pending(w) => ~working[w]
        /\ "status" \notin Pending(w) =>
             (hasWorked[w] => status[w] = handle[w])

Unraced(w) == OnlyThread(w) /\ LeaveTrue(w) /\ EndTrue(w)

WorkerInv(w) == HandleTrue(w) /\ (w \notin raced => Unraced(w))

(* Where the main thread is: a worker not raced whose reset has begun has  *)
(* no thread left, and the workers that a wait has passed are joined.      *)
Passed(w) == handle[w] # NoThread /\ w \in joined

MainInv ==
    /\ main.at = "resets" /\ main.stores # Stores /\ main.next \notin raced =>
         Running(main.next) = {}
    /\ main.at = "waits" => \A w \in Workers : w < main.next => Passed(w)
    /\ main.at = "waited" => \A w \in Workers : Passed(w)

IInv == TypeOK /\ MainInv /\ \A w \in Workers : WorkerInv(w)

USE ThreadAssumption
-----------------------------------------------------------------------------
LEMMA InitTypes == Init => TypeOK
  BY DEF Init, TypeOK, Workers, Threads, NoThread

(* The stores of a thread or of a reset keep the types of the flags.       *)
FlagTypes ==
    /\ working \in [Workers -> BOOLEAN] /\ hasWorked \in [Workers -> BOOLEAN]
    /\ status \in [Workers -> Threads \cup {NoThread}]

LEMMA StoredTypes ==
    ASSUME FlagTypes, NEW w \in Workers, NEW b \in BOOLEAN, NEW h \in BOOLEAN,
           NEW t \in Threads \cup {NoThread},
           StoreWorking(w, b) \/ StoreStatus(w, h, t)
    PROVE  FlagTypes'
  BY DEF FlagTypes, StoreWorking, StoreStatus

ThreadTypes ==
    thread \in [Threads -> [worker : Workers, stores : SUBSET Stores,
                            at : {"none", "enters", "leaves", "ended"}]]

MainTypes ==
    main \in [at : {"idle", "resetsAll", "starts", "resets", "waits",
                    "waited", "undefined"},
              next : Workers, stores : SUBSET Stores, all : BOOLEAN]

LEMMA Types ==
    TypeOK <=> /\ MainTypes /\ ThreadTypes /\ FlagTypes
               /\ handle \in [Workers -> Threads \cup {NoThread}]
               /\ joined \in SUBSET Workers /\ raced \in SUBSET Workers
  BY DEF TypeOK, MainTypes, ThreadTypes, FlagTypes

LEMMA TypesNext ==
    TypeOK' <=> /\ MainTypes' /\ ThreadTypes' /\ FlagTypes'
                /\ handle' \in [Workers -> Threads \cup {NoThread}]
                /\ joined' \in SUBSET Workers /\ raced' \in SUBSET Workers
  BY DEF TypeOK, MainTypes, ThreadTypes, FlagTypes

LEMMA Loops == 1 \in Workers /\ \A n \in Workers : n < NumWorkers => n + 1 \in Workers
  BY DEF Workers

LEMMA NextTypes == TypeOK /\ [Next]_vars => TypeOK'
<1> SUFFICES ASSUME TypeOK, [Next]_vars PROVE TypeOK'
  OBVIOUS
<1> USE Loops
<1>1. /\ MainTypes /\ ThreadTypes /\ FlagTypes
      /\ handle \in [Workers -> Threads \cup {NoThread}]
      /\ joined \in SUBSET Workers /\ raced \in SUBSET Workers
  BY Types
<1>2. main.next \in Workers /\ main.stores \in SUBSET Stores
  BY <1>1 DEF MainTypes
<1>3. ASSUME UNCHANGED flags PROVE FlagTypes'
  BY <1>1, <1>3 DEF FlagTypes, flags
<1>4. ASSUME UNCHANGED thread PROVE ThreadTypes'
  BY <1>1, <1>4 DEF ThreadTypes
<1>5. ASSUME NEW at \in {"idle", "waits", "waited", "undefined"},
             NEW n \in Workers, MainAt(at, n)
      PROVE  MainTypes'
  BY <1>5 DEF MainAt, MainTypes
<1>6. ASSUME NEW at \in {"resetsAll", "resets"}, NEW n \in Workers,
             MainResets(at, n)
      PROVE  MainTypes'
  BY <1>1, <1>6 DEF MainResets, MainTypes
<1>7. ASSUME NEW w \in Workers, Begins(w) PROVE raced' \in SUBSET Workers
  BY <1>1, <1>7 DEF Begins
<1>11. ASSUME NEW w \in Workers, StartWorker(w) PROVE TypeOK'
  <2>1. MainTypes'
    BY <1>11 DEF StartWorker, MainTypes
  <2> QED
    BY <1>1, <1>3, <1>4, <1>7, <1>11, <2>1, TypesNext DEF StartWorker
<1>12. CASE StartWorkers
  <2>1. MainTypes'
    BY <1>12 DEF StartWorkers, MainTypes
  <2> QED
    BY <1>1, <1>3, <1>4, <1>12, <2>1, TypesNext DEF StartWorkers
<1>13. ASSUME NEW s \in Stores, ResetStore(s) PROVE TypeOK'
  <2>1. MainTypes'
    BY <1>1, <1>13 DEF ResetStore, MainTypes
  <2>2. FlagTypes'
    BY <1>1, <1>2, <1>13, StoredTypes DEF ResetStore
  <2>3. raced' \in SUBSET Workers
    BY <1>1, <1>2, <1>13 DEF ResetStore
  <2> QED
    BY <1>1, <1>4, <1>13, <2>1, <2>2, <2>3, TypesNext DEF ResetStore
<1>14. CASE ResetNext
  <2>1. MainTypes'
    <3>1. CASE main.next < NumWorkers
      BY <1>2, <1>6, <1>14, <3>1 DEF ResetNext
    <3>2. CASE ~(main.next < NumWorkers)
      BY <1>1, <1>14, <3>2 DEF ResetNext, MainTypes
    <3> QED
      BY <3>1, <3>2
  <2> QED
    BY <1>1, <1>3, <1>4, <1>14, <2>1, TypesNext DEF ResetNext
<1>15. CASE StartNext
  <2>1. MainTypes' /\ raced' \in SUBSET Workers
    BY <1>1, <1>2, <1>5, <1>6, <1>7, <1>15 DEF StartNext
  <2> QED
    BY <1>1, <1>3, <1>4, <1>15, <2>1, TypesNext DEF StartNext
<1>16. CASE Create
  <2>1. MainTypes'
    <3>1. CASE main.all /\ main.next < NumWorkers
      <4>1. main' = [main EXCEPT !.at = "starts", !.next = main.next + 1]
        BY <1>16, <3>1 DEF Create
      <4>2. main.next + 1 \in Workers
        BY <1>2, <3>1
      <4> QED
        BY <1>1, <4>1, <4>2 DEF MainTypes
    <3>2. CASE ~(main.all /\ main.next < NumWorkers)
      BY <1>5, <1>16, <3>2 DEF Create
    <3> QED
      BY <3>1, <3>2
  <2>2. /\ ThreadTypes' /\ handle' \in [Workers -> Threads \cup {NoThread}]
        /\ joined' \in SUBSET Workers
    BY <1>1, <1>2, <1>16 DEF Create, ThreadTypes
  <2> QED
    BY <1>1, <1>3, <1>16, <2>1, <2>2, TypesNext DEF Create
<1>17. CASE CreateFails
  <2>1. MainTypes' /\ handle' \in [Workers -> Threads \cup {NoThread}]
    BY <1>1, <1>5, <1>17 DEF CreateFails
  <2> QED
    BY <1>1, <1>3, <1>4, <1>17, <2>1, TypesNext DEF CreateFails
<1>18. CASE WaitForWorkerExit \/ JoinsNothing \/ WaitReturns
  <2>1. MainTypes'
    BY <1>5, <1>18 DEF WaitForWorkerExit, JoinsNothing, WaitReturns
  <2> QED
    BY <1>1, <1>3, <1>4, <1>18, <2>1, TypesNext
       DEF WaitForWorkerExit, JoinsNothing, WaitReturns
<1>19. CASE Join
  <2>1. MainTypes'
    BY <1>2, <1>5, <1>19 DEF Join, Continues
  <2>2. joined' \in SUBSET Workers
    BY <1>1, <1>2, <1>19 DEF Join
  <2> QED
    BY <1>1, <1>3, <1>4, <1>19, <2>1, <2>2, TypesNext DEF Join
<1>20. ASSUME NEW t \in Threads, NEW s \in Stores, Store(t, s) PROVE TypeOK'
  <2>1. thread[t].worker \in Workers
    BY <1>1 DEF ThreadTypes
  <2>2. ThreadTypes'
    BY <1>1, <1>20 DEF Store, ThreadTypes
  <2>3. FlagTypes'
    <3>1. (thread[t].at = "enters") \in BOOLEAN /\ TRUE \in BOOLEAN
          /\ hasWorked[thread[t].worker] \in BOOLEAN
      BY <1>1, <2>1 DEF FlagTypes
    <3> QED
      BY <1>1, <1>20, <2>1, <3>1, StoredTypes DEF Store
  <2>4. MainTypes'
    BY <1>1, <1>20 DEF Store, MainTypes
  <2> QED
    BY <1>1, <1>20, <2>2, <2>3, <2>4, TypesNext DEF Store
<1>21. ASSUME NEW t \in Threads, Returns(t) \/ Ends(t) PROVE TypeOK'
  <2>1. ThreadTypes'
    BY <1>1, <1>21 DEF Returns, Ends, Goes, ThreadTypes
  <2>2. MainTypes'
    BY <1>1, <1>21 DEF Returns, Ends, Goes, MainTypes
  <2> QED
    BY <1>1, <1>3, <1>21, <2>1, <2>2, TypesNext DEF Returns, Ends, Goes
<1>22. CASE UNCHANGED vars
  BY <1>22 DEF TypeOK, vars, flags
<1> QED
  BY <1>11, <1>12, <1>13, <1>14, <1>15, <1>16, <1>17, <1>18, <1>19, <1>20,
     <1>21, <1>22 DEF Next, Main, Thread

(* TypeOK: every variable keeps its type.                                  *)
THEOREM TypeCorrect == Spec => []TypeOK
<1> QED
  BY InitTypes, NextTypes, PTL DEF Spec
-----------------------------------------------------------------------------
LEMMA HandleRange ==
    ASSUME TypeOK, NEW w \in Workers, handle[w] # NoThread
    PROVE  handle[w] \in Threads
  BY DEF TypeOK

LEMMA NotRunning ==
    ASSUME TypeOK, NEW w \in Workers
    PROVE  Running(w) = {} <=>
             \A t \in Threads : thread[t].worker = w => ~Live(t)
<1>1. \A t \in Threads : thread[t].at \in {"none", "enters", "leaves", "ended"}
  BY DEF TypeOK
<1> QED
  BY <1>1 DEF Running, Created, Live

(* Threads of a worker that have all ended: the handle's has as well.      *)
LEMMA AllEnded ==
    ASSUME TypeOK, NEW w \in Workers, HandleTrue(w), Running(w) = {},
           handle[w] # NoThread
    PROVE  thread[handle[w]].at = "ended"
<1>1. handle[w] \in Threads
  BY HandleRange
<1>2. thread[handle[w]].at # "none" /\ thread[handle[w]].worker = w
  BY DEF HandleTrue
<1>3. ~Live(handle[w])
  BY <1>1, <1>2, NotRunning
<1>4. thread[handle[w]].at \in {"none", "enters", "leaves", "ended"}
  BY <1>1 DEF TypeOK
<1> QED
  BY <1>2, <1>3, <1>4 DEF Live

(* A worker that a step does not touch, the main thread's place included.  *)
LEMMA Untouched ==
    ASSUME NEW w \in Workers, WorkerInv(w), raced' = raced,
           UNCHANGED <<thread, handle, flags>>, Pending(w)' = Pending(w),
           w \in joined' => w \in joined
    PROVE  WorkerInv(w)'
<1>1. HandleTrue(w)' /\ (OnlyThread(w) => OnlyThread(w)')
      /\ (LeaveTrue(w) => LeaveTrue(w)')
  BY DEF WorkerInv, HandleTrue, OnlyThread, LeaveTrue, Live, flags
<1>2. EndTrue(w) => EndTrue(w)'
  BY DEF EndTrue, flags
<1> QED
  BY <1>1, <1>2 DEF WorkerInv, Unraced

(* One whose threads have all ended as a reset of it begins.               *)
LEMMA BeginKeeps ==
    ASSUME TypeOK, NEW w \in Workers, WorkerInv(w), Begins(w),
           main'.at = "resets", main'.next = w, main'.stores = Stores,
           UNCHANGED <<thread, handle, joined, flags>>
    PROVE  WorkerInv(w)'
<1>1. HandleTrue(w) /\ HandleTrue(w)'
  BY DEF WorkerInv, HandleTrue
<1>2. Pending(w)' = Stores
  BY DEF Pending
<1>3. EndTrue(w)'
  BY <1>2 DEF EndTrue, Stores
<1>4. CASE Running(w) = {}
  <2>1. \A t \in Threads : thread[t].worker = w => ~Live(t)
    BY <1>4, NotRunning
  <2>2. OnlyThread(w)'
    BY <2>1 DEF OnlyThread, Live
  <2>3. handle[w] # NoThread => thread[handle[w]].at = "ended"
    BY <1>1, <1>4, AllEnded
  <2>4. LeaveTrue(w)'
    BY <2>3 DEF LeaveTrue
  <2> QED
    BY <1>1, <1>3, <2>2, <2>4 DEF WorkerInv, Unraced
<1>5. CASE Running(w) # {}
  <2>1. raced' = raced
    BY <1>5 DEF Begins
  <2>2. (OnlyThread(w) => OnlyThread(w)') /\ (LeaveTrue(w) => LeaveTrue(w)')
    BY DEF OnlyThread, LeaveTrue, Live, flags
  <2> QED
    BY <1>1, <1>3, <2>1, <2>2 DEF WorkerInv, Unraced
<1> QED
  BY <1>4, <1>5

(* The others: only what main is at changes.                               *)
LEMMA BeginsOther ==
    ASSUME NEW v \in Workers, NEW w \in Workers \ {v}, WorkerInv(w), Begins(v),
           main'.at = "resets", main'.next = v,
           ~(main.at = "resets" /\ main.next = w),
           UNCHANGED <<thread, handle, joined, flags>>
    PROVE  WorkerInv(w)'
<1>1. (w \in raced' <=> w \in raced) /\ Pending(w)' = Pending(w)
  BY DEF Begins, Pending
<1>2. HandleTrue(w)' /\ (OnlyThread(w) => OnlyThread(w)')
      /\ (LeaveTrue(w) => LeaveTrue(w)')
  BY DEF WorkerInv, HandleTrue, OnlyThread, LeaveTrue, Live, flags
<1>3. EndTrue(w) => EndTrue(w)'
  BY <1>1 DEF EndTrue, flags
<1> QED
  BY <1>1, <1>2, <1>3 DEF WorkerInv, Unraced

LEMMA BeginsKeeps ==
    ASSUME IInv, NEW v \in Workers, Begins(v), main.at \in {"idle", "starts"},
           main'.at = "resets", main'.next = v, main'.stores = Stores,
           UNCHANGED <<thread, handle, joined, flags>>
    PROVE  MainInv' /\ \A w \in Workers : WorkerInv(w)'
<1>1. TypeOK /\ \A w \in Workers : WorkerInv(w)
  BY DEF IInv
<1>2. WorkerInv(v)'
  BY <1>1, BeginKeeps
<1>3. \A w \in Workers \ {v} : WorkerInv(w)'
  BY <1>1, BeginsOther
<1> QED
  BY <1>2, <1>3 DEF MainInv

-----------------------------------------------------------------------------
(* One store of a reset: of a worker whose threads have all ended, or else *)
(* the worker is raced.                                                    *)
LEMMA ResetKeeps ==
    ASSUME IInv, NEW s \in Stores, ResetStore(s)
    PROVE  MainInv' /\ \A w \in Workers : WorkerInv(w)'
<1>0. PICK v \in Workers : v = main.next
  BY DEF IInv, TypeOK
<1>1. /\ TypeOK /\ MainInv /\ v \in Workers /\ main.stores \in SUBSET Stores
      /\ main \in [at : {"idle", "resetsAll", "starts", "resets", "waits",
                         "waited", "undefined"},
                   next : Workers, stores : SUBSET Stores, all : BOOLEAN]
      /\ \A w \in Workers : WorkerInv(w)
  BY <1>0 DEF IInv, TypeOK
<1>2. /\ main.at \in {"resetsAll", "resets"} /\ s \in main.stores
      /\ main' = [main EXCEPT !.stores = main.stores \ {s}]
      /\ UNCHANGED <<thread, handle, joined>>
      /\ raced' = IF Running(v) = {} THEN raced ELSE raced \cup {v}
  BY <1>0 DEF ResetStore
<1>3. /\ main'.at = main.at /\ main'.next = v
      /\ main'.stores = main.stores \ {s}
  BY <1>0, <1>1, <1>2
<1>4. Running(v)' = Running(v)
  BY <1>2 DEF Running, Created
<1>5. MainInv'
  BY <1>0, <1>2, <1>3, <1>4 DEF MainInv
<1>6. ASSUME NEW w \in Workers \ {v} PROVE WorkerInv(w)'
  <2>1. /\ WorkerInv(w) /\ (w \in raced' <=> w \in raced)
        /\ working'[w] = working[w] /\ hasWorked'[w] = hasWorked[w]
        /\ status'[w] = status[w]
    BY <1>0, <1>1, <1>2 DEF ResetStore, StoreWorking, StoreStatus, TypeOK
  <2>2. Pending(w)' = Pending(w)
    BY <1>0, <1>3 DEF Pending
  <2>3. HandleTrue(w)' /\ (OnlyThread(w) => OnlyThread(w)')
        /\ (LeaveTrue(w) => LeaveTrue(w)')
    BY <1>2, <2>1 DEF WorkerInv, HandleTrue, OnlyThread, LeaveTrue, Live
  <2>4. EndTrue(w) => EndTrue(w)'
    BY <1>2, <2>1, <2>2 DEF EndTrue
  <2> QED
    BY <2>1, <2>3, <2>4 DEF WorkerInv, Unraced
<1>7. WorkerInv(v)'
  <2>1. HandleTrue(v) /\ HandleTrue(v)'
    BY <1>1, <1>2 DEF WorkerInv, HandleTrue
  <2>2. CASE Running(v) # {}
    <3>1. v \in raced'
      BY <1>2, <2>2
    <3> QED
      BY <2>1, <3>1 DEF WorkerInv
  <2>3. CASE Running(v) = {}
    <3>1. handle[v] # NoThread => thread[handle[v]].at = "ended"
      BY <1>1, <2>1, <2>3, AllEnded
    <3>2. LeaveTrue(v)'
      BY <1>2, <3>1 DEF LeaveTrue
    <3>3. OnlyThread(v)'
      BY <1>1, <1>2, <2>3, NotRunning DEF OnlyThread, Live
    <3>4. Pending(v)' \subseteq Stores /\ Pending(v) \ {s} \subseteq Pending(v)'
      BY <1>0, <1>1, <1>3 DEF Pending
    <3>5. EndTrue(v) => EndTrue(v)'
      <4>1. CASE s = "working"
        <5>1. ~working'[v] /\ UNCHANGED <<hasWorked, status>>
          BY <1>0, <1>1, <4>1 DEF ResetStore, StoreWorking, TypeOK
        <5> QED
          BY <1>2, <3>4, <4>1, <5>1 DEF EndTrue
      <4>2. CASE s = "status"
        <5>1. ~hasWorked'[v] /\ UNCHANGED working
          BY <1>0, <1>1, <4>2 DEF ResetStore, StoreStatus, TypeOK
        <5> QED
          BY <1>2, <3>4, <4>2, <5>1 DEF EndTrue
      <4> QED
        BY <4>1, <4>2 DEF Stores
    <3>6. raced' = raced
      BY <1>2, <2>3
    <3>7. v \notin raced => EndTrue(v)
      BY <1>1 DEF WorkerInv, Unraced
    <3> QED
      BY <2>1, <3>2, <3>3, <3>5, <3>6, <3>7 DEF WorkerInv, Unraced
  <2> QED
    BY <2>2, <2>3
<1> QED
  BY <1>5, <1>6, <1>7

(* pthread_create(): the new thread becomes the handle.                    *)
LEMMA CreateKeeps ==
    ASSUME IInv, Create
    PROVE  MainInv' /\ \A w \in Workers : WorkerInv(w)'
<1>0. PICK v \in Workers : v = main.next
  BY DEF IInv, TypeOK
<1>1. /\ TypeOK /\ MainInv /\ v \in Workers
      /\ \A w \in Workers : WorkerInv(w)
  BY <1>0 DEF IInv, TypeOK
<1>2. PICK t \in Threads \ Created :
        /\ thread' = [thread EXCEPT ![t] =
                         [worker |-> v, at |-> "enters", stores |-> Stores]]
        /\ handle' = [handle EXCEPT ![v] = t]
  BY <1>0 DEF Create
<1>3. /\ main.at = "resets" /\ main.stores = {}
      /\ joined' = joined \ {v} /\ UNCHANGED <<flags, raced>>
      /\ main'.at \in {"starts", "idle", "waits"}
      /\ main'.at = "waits" => main'.next = 1
  <2>1. main.at = "resets" /\ main.stores = {}
        /\ joined' = joined \ {v} /\ UNCHANGED <<flags, raced>>
    BY <1>0 DEF Create
  <2>2. CASE main' = [main EXCEPT !.at = "starts", !.next = v + 1]
    BY <1>1, <2>1, <2>2 DEF TypeOK
  <2>3. CASE MainAt("idle", 1) \/ MainAt("waits", 1)
    BY <2>1, <2>3 DEF MainAt
  <2> QED
    BY <1>0, <2>1, <2>2, <2>3 DEF Create
<1>4. /\ thread[t].at = "none" /\ t # NoThread /\ t \in Threads
      /\ thread'[t] = [worker |-> v, at |-> "enters", stores |-> Stores]
      /\ \A u \in Threads \ {t} : thread'[u] = thread[u]
  BY <1>1, <1>2 DEF Created, TypeOK, Threads, NoThread
<1>5. MainInv'
  BY <1>3 DEF MainInv, Workers
<1>6. WorkerInv(v)'
  <2>1. handle'[v] = t /\ v \notin joined'
    BY <1>1, <1>2, <1>3 DEF TypeOK
  <2>2. HandleTrue(v)'
    BY <1>4, <2>1 DEF HandleTrue
  <2>3. LeaveTrue(v)' /\ EndTrue(v)'
    BY <1>4, <2>1 DEF LeaveTrue, EndTrue
  <2>4. v \notin raced => OnlyThread(v)'
    <3>1. v \notin raced => Running(v) = {}
      BY <1>0, <1>1, <1>3 DEF MainInv, Stores
    <3>2. v \notin raced =>
            \A u \in Threads : thread[u].worker = v => ~Live(u)
      BY <1>1, <3>1, NotRunning
    <3> QED
      BY <1>4, <2>1, <3>2 DEF OnlyThread, Live
  <2> QED
    BY <1>3, <2>2, <2>3, <2>4 DEF WorkerInv, Unraced
<1>7. ASSUME NEW w \in Workers \ {v} PROVE WorkerInv(w)'
  <2>1. /\ handle'[w] = handle[w] /\ WorkerInv(w)
        /\ (w \in joined' <=> w \in joined)
        /\ UNCHANGED <<working, hasWorked, status, raced>>
    BY <1>1, <1>2, <1>3 DEF TypeOK, flags
  <2>2. handle[w] # NoThread =>
          handle[w] \in Threads /\ thread'[handle[w]] = thread[handle[w]]
    BY <1>1, <1>4, <2>1, HandleRange DEF WorkerInv, HandleTrue
  <2>3. HandleTrue(w)'
    BY <2>1, <2>2 DEF WorkerInv, HandleTrue
  <2>4. OnlyThread(w) => OnlyThread(w)'
    BY <1>4, <2>1 DEF OnlyThread, Live
  <2>5. Pending(w) = {} /\ Pending(w)' = {}
    BY <1>0, <1>3 DEF Pending
  <2>6. (LeaveTrue(w) => LeaveTrue(w)') /\ (EndTrue(w) => EndTrue(w)')
    BY <2>1, <2>2, <2>5 DEF LeaveTrue, EndTrue
  <2> QED
    BY <2>1, <2>3, <2>4, <2>6 DEF WorkerInv, Unraced
<1> QED
  BY <1>5, <1>6, <1>7

(* It fails: the handle stays or has no meaning.                           *)
LEMMA FailKeeps ==
    ASSUME IInv, CreateFails
    PROVE  MainInv' /\ \A w \in Workers : WorkerInv(w)'
<1>0. PICK v \in Workers : v = main.next
  BY DEF IInv, TypeOK
<1>1. TypeOK /\ MainInv /\ \A w \in Workers : WorkerInv(w)
  BY DEF IInv
<1>2. /\ main.stores = {} /\ main'.at = "idle"
      /\ UNCHANGED <<thread, joined, working, hasWorked, status, raced>>
      /\ handle' = handle \/ handle' = [handle EXCEPT ![v] = NoThread]
  BY <1>0 DEF CreateFails, MainAt, flags
<1>3. MainInv'
  BY <1>2 DEF MainInv
<1>4. ASSUME NEW w \in Workers PROVE WorkerInv(w)'
  <2>1. WorkerInv(w) /\ handle'[w] \in {handle[w], NoThread}
    BY <1>1, <1>2 DEF TypeOK
  <2>2. Pending(w) = {} /\ Pending(w)' = {}
    BY <1>2 DEF Pending
  <2>3. HandleTrue(w)'
    BY <1>2, <2>1 DEF WorkerInv, HandleTrue
  <2>4. w \notin raced /\ OnlyThread(w) => OnlyThread(w)'
    <3>1. CASE handle'[w] = handle[w]
      BY <1>2, <3>1 DEF OnlyThread, Live
    <3>2. CASE handle'[w] = NoThread /\ handle'[w] # handle[w]
      <4>1. w = v
        BY <1>1, <1>2, <3>2 DEF TypeOK
      <4>2. w \notin raced => Running(w) = {}
        BY <1>0, <1>1, <1>2, <4>1 DEF MainInv, Stores, CreateFails
      <4>3. w \notin raced =>
              \A u \in Threads : thread[u].worker = w => ~Live(u)
        BY <1>1, <4>2, NotRunning
      <4> QED
        BY <1>2, <4>3 DEF OnlyThread, Live
    <3> QED
      BY <2>1, <3>1, <3>2
  <2>5. (LeaveTrue(w) => LeaveTrue(w)') /\ (EndTrue(w) => EndTrue(w)')
    BY <1>2, <2>1, <2>2 DEF LeaveTrue, EndTrue
  <2> QED
    BY <1>2, <2>1, <2>3, <2>4, <2>5 DEF WorkerInv, Unraced
<1> QED
  BY <1>3, <1>4

-----------------------------------------------------------------------------
(* _wait() joins one thread more, which has ended.                         *)
LEMMA JoinKeeps ==
    ASSUME IInv, Join
    PROVE  MainInv' /\ \A w \in Workers : WorkerInv(w)'
<1>0. PICK v \in Workers : v = main.next
  BY DEF IInv, TypeOK
<1>1. TypeOK /\ MainInv /\ \A w \in Workers : WorkerInv(w)
  BY DEF IInv
<1>2. /\ UNCHANGED <<thread, handle, working, hasWorked, status, raced>>
      /\ joined' = joined \cup {v}
      /\ handle[v] # NoThread /\ thread[handle[v]].at = "ended"
      /\ main.at = "waits"
  BY <1>0 DEF Join, flags, CanJoin, HasEnded
<1>3. \/ main'.at = "waits" /\ main'.next = v + 1
      \/ main'.at = "waited" /\ v = NumWorkers
  BY <1>0, <1>2 DEF Join, Continues, MainAt, Workers
<1>4. ASSUME NEW w \in Workers PROVE WorkerInv(w)'
  <2>1. WorkerInv(w) /\ (w \in joined' => w \in joined \/ w = v)
    BY <1>1, <1>2
  <2>2. HandleTrue(w)' /\ (OnlyThread(w) => OnlyThread(w)')
        /\ (LeaveTrue(w) => LeaveTrue(w)')
    BY <1>2, <2>1 DEF WorkerInv, HandleTrue, OnlyThread, LeaveTrue, Live
  <2>3. Pending(w) = {} /\ Pending(w)' = {}
    BY <1>2, <1>3 DEF Pending
  <2>4. EndTrue(w) => EndTrue(w)'
    BY <1>2, <2>3 DEF EndTrue
  <2> QED
    BY <1>2, <2>1, <2>2, <2>4 DEF WorkerInv, Unraced
<1>5. \A w \in Workers : w =< v => Passed(w)'
  <2>1. \A w \in Workers : w < v => Passed(w)
    BY <1>0, <1>1, <1>2 DEF MainInv
  <2> QED
    BY <1>2, <2>1 DEF Passed, Workers
<1>6. MainInv'
  BY <1>3, <1>5 DEF MainInv, Workers
<1> QED
  BY <1>4, <1>6

-----------------------------------------------------------------------------
(* A step of a thread: no thread starts to run, and the main thread rests. *)
LEMMA ThreadRests ==
    ASSUME TypeOK, MainInv, NEW t \in Threads, Live(t),
           NEW r, r.worker = thread[t].worker,
           thread' = [thread EXCEPT ![t] = r],
           UNCHANGED <<main, handle, joined, raced>>
    PROVE  MainInv'
<1>1. \A u \in Threads \ {t} : thread'[u] = thread[u]
  BY DEF TypeOK
<1>2. thread'[t] = r
  BY DEF TypeOK
<1>3. ASSUME NEW w \in Workers, Running(w) = {} PROVE Running(w)' = {}
  <2>1. thread[t].worker # w
    BY <1>3, NotRunning
  <2> QED
    BY <1>1, <1>2, <1>3, <2>1 DEF Running, Created
<1>4. PICK v \in Workers : v = main.next
  BY DEF TypeOK
<1>5. Running(v) = {} => Running(v)' = {}
  BY <1>3
<1> QED
  BY <1>4, <1>5 DEF MainInv, Passed

LEMMA StoreKeeps ==
    ASSUME IInv, NEW t \in Threads, NEW s \in Stores, Store(t, s)
    PROVE  MainInv' /\ \A w \in Workers : WorkerInv(w)'
<1>0. PICK v \in Workers : v = thread[t].worker
  BY DEF IInv, TypeOK
<1>1. TypeOK /\ MainInv /\ Live(t) /\ t # NoThread
      /\ \A w \in Workers : WorkerInv(w)
  BY DEF IInv, Store, Live, Threads, NoThread
<1>r. PICK r : r = [thread[t] EXCEPT !.stores = @ \ {s}]
  OBVIOUS
<1>2. /\ thread' = [thread EXCEPT ![t] = r]
      /\ r.worker = v /\ r.at = thread[t].at /\ r.stores = thread[t].stores \ {s}
      /\ UNCHANGED <<main, handle, joined, raced>>
  BY <1>0, <1>1, <1>r DEF Store, TypeOK
<1>3. MainInv'
  BY <1>0, <1>1, <1>2, ThreadRests
<1>4. \A u \in Threads : /\ thread'[u].at = thread[u].at
                         /\ thread'[u].worker = thread[u].worker
                         /\ u # t => thread'[u] = thread[u]
  BY <1>0, <1>1, <1>2 DEF TypeOK
<1>5. ASSUME NEW w \in Workers
      PROVE  HandleTrue(w)' /\ (OnlyThread(w) => OnlyThread(w)')
  <2>1. HandleTrue(w)
    BY <1>1 DEF WorkerInv
  <2>2. HandleTrue(w)'
    BY <1>1, <1>2, <1>4, <2>1, HandleRange DEF HandleTrue
  <2> QED
    BY <1>2, <1>4, <2>2 DEF OnlyThread, Live
<1>6. ASSUME NEW w \in Workers \ {v}, Unraced(w), HandleTrue(w) PROVE Unraced(w)'
  <2>1. /\ working'[w] = working[w] /\ hasWorked'[w] = hasWorked[w]
        /\ status'[w] = status[w]
    BY <1>0, <1>1, <1>6 DEF TypeOK, Store, StoreWorking, StoreStatus
  <2>2. handle[w] # NoThread => handle[w] \in Threads /\ handle[w] # t
    BY <1>0, <1>1, <1>6, HandleRange DEF HandleTrue
  <2>3. Pending(w)' = Pending(w)
    BY <1>2 DEF Pending
  <2>4. (LeaveTrue(w) => LeaveTrue(w)') /\ (EndTrue(w) => EndTrue(w)')
    BY <1>2, <1>4, <2>1, <2>2, <2>3 DEF LeaveTrue, EndTrue
  <2> QED
    BY <1>5, <1>6, <2>4 DEF Unraced
<1>7. ASSUME Unraced(v) PROVE Unraced(v)'
  <2>1. handle[v] = t /\ handle' = handle /\ thread'[t] = r
    BY <1>0, <1>1, <1>2, <1>7 DEF Unraced, OnlyThread, TypeOK
  <2>2. EndTrue(v)'
    BY <1>1, <1>2, <2>1 DEF EndTrue, Live
  <2>3. ASSUME thread[t].at = "leaves" PROVE LeaveTrue(v)'
    <3>1. /\ "status" \notin thread[t].stores => status[v] = t
          /\ "working" \notin thread[t].stores => ~working[v]
      BY <1>1, <1>7, <2>1, <2>3 DEF Unraced, LeaveTrue
    <3>2. CASE s = "status"
      <4>1. status'[v] = t /\ UNCHANGED working
        BY <1>0, <1>1, <2>3, <3>2 DEF Store, StoreStatus, TypeOK
      <4> QED
        BY <1>2, <2>1, <3>1, <3>2, <4>1 DEF LeaveTrue
    <3>3. CASE s = "working"
      <4>1. ~working'[v] /\ UNCHANGED status
        BY <1>0, <1>1, <2>3, <3>3 DEF Store, StoreWorking, TypeOK
      <4> QED
        BY <1>2, <2>1, <3>1, <3>3, <4>1 DEF LeaveTrue
    <3> QED
      BY <3>2, <3>3 DEF Stores
  <2>4. LeaveTrue(v)'
    BY <1>2, <2>1, <2>3 DEF LeaveTrue
  <2> QED
    BY <1>5, <1>7, <2>2, <2>4 DEF Unraced
<1>8. ASSUME NEW w \in Workers PROVE WorkerInv(w)'
  <2>1. HandleTrue(w) /\ (w \notin raced => Unraced(w)) /\ raced' = raced
    BY <1>1, <1>2 DEF WorkerInv
  <2> QED
    BY <1>5, <1>6, <1>7, <2>1 DEF WorkerInv
<1> QED
  BY <1>3, <1>8

LEMMA GoesKeeps ==
    ASSUME IInv, NEW t \in Threads, Returns(t) \/ Ends(t)
    PROVE  MainInv' /\ \A w \in Workers : WorkerInv(w)'
<1>0. PICK v \in Workers : v = thread[t].worker
  BY DEF IInv, TypeOK
<1>1. PICK to \in {"leaves", "ended"}, st \in {{}, Stores} :
        /\ thread' = [thread EXCEPT ![t].at = to, ![t].stores = st]
        /\ to = "leaves" => st = Stores
        /\ to = "ended" => thread[t].at = "leaves" /\ thread[t].stores = {}
        /\ Live(t)
        /\ UNCHANGED <<main, handle, joined, working, hasWorked, status, raced>>
  BY DEF Returns, Ends, Goes, Live, flags
<1>2. TypeOK /\ MainInv /\ t # NoThread /\ \A w \in Workers : WorkerInv(w)
  BY DEF IInv, Threads, NoThread
<1>r. PICK r : r = [thread[t] EXCEPT !.at = to, !.stores = st]
  OBVIOUS
<1>3. /\ thread' = [thread EXCEPT ![t] = r]
      /\ r.worker = v /\ r.at = to /\ r.stores = st /\ thread'[t] = r
      /\ \A u \in Threads \ {t} : thread'[u] = thread[u]
  BY <1>0, <1>1, <1>2, <1>r DEF TypeOK
<1>4. MainInv'
  <2>1. Live(t) /\ UNCHANGED <<main, handle, joined, raced>>
    BY <1>1
  <2>2. thread' = [thread EXCEPT ![t] = r] /\ r.worker = thread[t].worker
    BY <1>0, <1>3
  <2> QED
    BY <1>2, <2>1, <2>2, ThreadRests
<1>5. \A u \in Threads : /\ thread'[u].worker = thread[u].worker
                         /\ thread'[u].at # "none" <=> thread[u].at # "none"
                         /\ thread[u].at = "ended" => thread'[u].at = "ended"
                         /\ Live(u)' => Live(u)
  BY <1>0, <1>1, <1>3 DEF Live
<1>6. ASSUME NEW w \in Workers
      PROVE  HandleTrue(w)' /\ (OnlyThread(w) => OnlyThread(w)')
  <2>1. HandleTrue(w) /\ UNCHANGED <<handle, joined>>
    BY <1>1, <1>2 DEF WorkerInv
  <2>2. HandleTrue(w)'
    BY <1>2, <1>5, <2>1, HandleRange DEF HandleTrue
  <2> QED
    BY <1>5, <2>1, <2>2 DEF OnlyThread
<1>7. ASSUME NEW w \in Workers, Unraced(w), HandleTrue(w)
      PROVE  LeaveTrue(w)' /\ EndTrue(w)'
  <2>1. CASE handle[w] # t
    <3>1. handle[w] # NoThread =>
            handle[w] \in Threads /\ thread'[handle[w]] = thread[handle[w]]
      BY <1>2, <1>3, <2>1, HandleRange
    <3>2. Pending(w)' = Pending(w)
      BY <1>1 DEF Pending
    <3> QED
      BY <1>1, <1>7, <3>1, <3>2 DEF Unraced, LeaveTrue, EndTrue
  <2>2. CASE handle[w] = t
    <3>1. handle'[w] = t /\ thread'[t] = r
      BY <1>1, <1>3, <2>2
    <3>2. r.at = "ended" => ~working[w] /\ status[w] = t
      BY <1>1, <1>2, <1>3, <1>7, <2>2 DEF Unraced, LeaveTrue
    <3> QED
      BY <1>1, <1>3, <3>1, <3>2 DEF LeaveTrue, EndTrue, Stores
  <2> QED
    BY <2>1, <2>2
<1>8. ASSUME NEW w \in Workers PROVE WorkerInv(w)'
  <2>1. HandleTrue(w) /\ (w \notin raced => Unraced(w)) /\ raced' = raced
    BY <1>1, <1>2 DEF WorkerInv
  <2> QED
    BY <1>6, <1>7, <2>1 DEF WorkerInv, Unraced
<1> QED
  BY <1>4, <1>8

-----------------------------------------------------------------------------
LEMMA NextInv == IInv /\ [Next]_vars => IInv'
<1> SUFFICES ASSUME IInv, [Next]_vars PROVE IInv'
  OBVIOUS
<1> DEFINE Kept == MainInv' /\ \A w \in Workers : WorkerInv(w)'
<1>1. TypeOK'
  BY NextTypes DEF IInv
<1>2. ASSUME UNCHANGED <<thread, handle, joined, flags, raced>>,
             main.at # "resets",
             \/ main'.at \in {"idle", "undefined", "resetsAll", "starts"}
             \/ main'.at = "waits" /\ main'.next = 1
      PROVE  Kept
  <2>1. MainInv'
    BY <1>2 DEF MainInv, Workers
  <2>2. ASSUME NEW w \in Workers PROVE WorkerInv(w)'
    <3>1. Pending(w)' = Pending(w) /\ WorkerInv(w)
      BY <1>2 DEF Pending, IInv
    <3> QED
      BY <1>2, <3>1, Untouched
  <2> QED
    BY <2>1, <2>2
<1>3. ASSUME UNCHANGED vars PROVE Kept
  <2>1. MainInv'
    BY <1>3 DEF vars, IInv, MainInv, Running, Created, Passed
  <2>2. ASSUME NEW w \in Workers PROVE WorkerInv(w)'
    <3>1. Pending(w)' = Pending(w) /\ WorkerInv(w)
      BY <1>3 DEF Pending, IInv, vars
    <3> QED
      BY <1>3, <3>1, Untouched DEF vars
  <2> QED
    BY <2>1, <2>2
<1> HIDE DEF Kept
<1>4. ASSUME WaitForWorkerExit \/ JoinsNothing \/ WaitReturns PROVE Kept
  BY <1>2, <1>4 DEF WaitForWorkerExit, JoinsNothing, WaitReturns, MainAt, Idle
<1>5. ASSUME StartWorkers PROVE Kept
  BY <1>2, <1>5 DEF StartWorkers, Idle
<1>6. ASSUME NEW v \in Workers, StartWorker(v) PROVE Kept
  BY <1>6, BeginsKeeps DEF StartWorker, Idle, Kept
<1>7. ASSUME ResetNext PROVE Kept
  <2>1. main'.at \in {"resetsAll", "starts"}
    BY <1>7 DEF ResetNext, MainResets, IInv, TypeOK
  <2> QED
    BY <1>2, <1>7, <2>1 DEF ResetNext
<1>8. ASSUME StartNext PROVE Kept
  <2>1. CASE MainAt("idle", 1) /\ UNCHANGED raced
    BY <1>2, <1>8, <2>1 DEF StartNext, MainAt
  <2>2. CASE MainResets("resets", main.next) /\ Begins(main.next)
    <3>1. PICK v \in Workers : v = main.next
      BY DEF IInv, TypeOK
    <3>2. main'.at = "resets" /\ main'.next = v /\ main'.stores = Stores
      BY <2>2, <3>1 DEF MainResets, IInv, TypeOK
    <3> QED
      BY <1>8, <2>2, <3>1, <3>2, BeginsKeeps DEF StartNext, Kept
  <2> QED
    BY <1>8, <2>1, <2>2 DEF StartNext
<1>9. Kept
  BY <1>3, <1>4, <1>5, <1>6, <1>7, <1>8, ResetKeeps, CreateKeeps, FailKeeps,
     JoinKeeps, StoreKeeps, GoesKeeps DEF Kept, Next, Main, Thread
<1> QED
  BY <1>1, <1>9 DEF IInv, Kept

LEMMA InitInv == Init => IInv
<1> SUFFICES ASSUME Init PROVE IInv
  OBVIOUS
<1> QED
  BY InitTypes DEF Init, IInv, MainInv, WorkerInv, HandleTrue, Unraced,
                   OnlyThread, Live, LeaveTrue, EndTrue, NoThread

(* What the handles and the flags say of the threads is an invariant,      *)
(* whenever the workers are started: of those not reset while a thread of  *)
(* theirs had not ended.                                                   *)
THEOREM HandlesCorrect == Spec => []IInv
<1>1. IInv /\ [Next]_vars => IInv'
  BY NextInv
<1> QED
  BY <1>1, InitInv, PTL DEF Spec

(* WaitMeansFinished: after a wait no thread of a worker is left, and its  *)
(* status is that of its last thread, if no reset of it raced with one.    *)
THEOREM WaitCorrect == Spec => []WaitMeansFinished
<1>1. IInv => WaitMeansFinished
  <2> SUFFICES ASSUME IInv, main.at = "waited", NEW w \in Workers \ raced
               PROVE  /\ Running(w) = {} /\ ~IsWorking(w)
                      /\ hasWorked[w] => status[w] = handle[w]
    BY DEF WaitMeansFinished
  <2>1. /\ TypeOK /\ HandleTrue(w) /\ Unraced(w) /\ Passed(w)
    BY DEF IInv, MainInv, WorkerInv
  <2>2. handle[w] # NoThread /\ thread[handle[w]].at = "ended"
    BY <2>1 DEF Passed, HandleTrue
  <2>3. Running(w) = {}
    BY <2>1, <2>2, NotRunning DEF Unraced, OnlyThread, Live
  <2>4. Pending(w) = {}
    BY DEF Pending
  <2> QED
    BY <2>1, <2>2, <2>3, <2>4 DEF Unraced, EndTrue, IsWorking
<1> QED
  BY <1>1, HandlesCorrect, PTL
=============================================================================
