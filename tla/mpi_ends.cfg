\* Every job ends: signals, failing starts, lost workers, TerminateJob.
SPECIFICATION FairSpec
CONSTANTS
    Receivers = {r1, r2}
    NumRecords = 2
    ChunkSize = 1
    Unreadable = {}
    CheckpointEnable = FALSE
    Workers = 1
    Signals = {"Exit", "QuickExit", "TermExit"}
    MaxSignals = 1
    MaxJobs = 1
    Faults = {"Start", "WorkerStops", "Terminate"}
PROPERTY
    JobEnds
