-------------------- MODULE POSIXThreadManagerProperties --------------------
(***************************************************************************)
(* What callers of Process::POSIXThreadManager rely on.                    *)
(***************************************************************************)
EXTENDS POSIXThreadManager

\* Every variable keeps its type: a thread has stores to make only before
\* and after workerMain().
TypeOK ==
    /\ main \in [at : {"idle", "resetsAll", "starts", "resets", "waits",
                       "waited", "undefined"},
                 next : Workers, stores : SUBSET Stores, all : BOOLEAN]
    /\ thread \in
         [Threads -> [worker : Workers, stores : SUBSET Stores,
                      at : {"none", "enters", "leaves", "ended"}]]
    /\ handle \in [Workers -> Threads \cup {NoThread}]
    /\ working \in [Workers -> BOOLEAN] /\ hasWorked \in [Workers -> BOOLEAN]
    /\ status \in [Workers -> Threads \cup {NoThread}]
    /\ joined \in SUBSET Workers /\ raced \in SUBSET Workers

\* "Block until all Workers have exited" (be_process_manager.h, 145): when a
\* wait returns no thread of a worker is left, the worker does not say it
\* works, and its exit status is that of its last thread; whatever was started
\* before, and in whatever order the flags were stored.  It fails only of the
\* workers that were started again, or reset by startWorkers(), while a thread
\* of theirs had not ended.
WaitMeansFinished ==
    main.at = "waited" =>
        \A w \in Workers \ raced :
            /\ Running(w) = {}
            /\ ~IsWorking(w)
            /\ hasWorked[w] => status[w] = handle[w]
=============================================================================
