\* SIGQUIT lands between the test of the exit conditions and the next package.
SPECIFICATION Spec
CONSTANTS
    Receivers = {r1}
    NumRecords = 3
    ChunkSize = 1
    Unreadable = {}
    CheckpointEnable = TRUE
    Workers = 1
    Signals = {"Exit"}
    MaxSignals = 1
    MaxJobs = 1
    Faults = {}
CHECK_DEADLOCK FALSE
INVARIANT
    CheckpointedWasSent
