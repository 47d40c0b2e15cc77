\* One job, two receivers: signals, failing starts and worker losses.
SPECIFICATION Spec
CONSTANTS
    Receivers = {r1, r2}
    NumRecords = 3
    ChunkSize = 2
    Unreadable = {2}
    CheckpointEnable = FALSE
    Workers = 2
    Signals = {"Exit", "QuickExit", "TermExit"}
    MaxSignals = 2
    MaxJobs = 1
    Faults = {"Start", "WorkerStops"}
SYMMETRY ReceiverSymmetry
INVARIANTS
    TypeOK
    Conversation
    RepliesPaired
    ShutdownHearsActiveOnly
    NoPackageToLeaver
    CleanExitKeepsPackages
    CompletedJobHandedAll
