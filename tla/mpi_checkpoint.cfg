\* A job that is interrupted, killed and resumed, up to three jobs in all.
\* A job whose restore fails never ends, so deadlock is not checked here.
SPECIFICATION Spec
CONSTANTS
    Receivers = {r1, r2}
    NumRecords = 3
    ChunkSize = 1
    Unreadable = {}
    CheckpointEnable = TRUE
    Workers = 1
    Signals = {"Exit"}
    MaxSignals = 2
    MaxJobs = 3
    Faults = {"Crash", "Terminate", "Logsheet"}
SYMMETRY ReceiverSymmetry
CHECK_DEADLOCK FALSE
INVARIANTS
    RecordsProcessedOnce
    CheckpointPastHandedOut
    RemainingMatchesCursor

    
