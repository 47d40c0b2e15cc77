\* The checkpoint file of a job that was killed holds only a PID.
SPECIFICATION FairSpec
CONSTANTS
    Receivers = {r1}
    NumRecords = 2
    ChunkSize = 1
    Unreadable = {}
    CheckpointEnable = TRUE
    Workers = 1
    Signals = {"Exit"}
    MaxSignals = 1
    MaxJobs = 2
    Faults = {"Crash"}
CHECK_DEADLOCK FALSE
PROPERTY
    JobEnds
