\* Two workers started, stopped and waited for in any order, whether or not
\* their threads have come to run or to an end.  The program stops where it
\* joins a thread that does not exist.
SPECIFICATION Spec
CONSTANTS
    NumWorkers = 2
    MaxThreads = 3
CHECK_DEADLOCK FALSE
INVARIANTS
    TypeOK
    WaitMeansFinished
