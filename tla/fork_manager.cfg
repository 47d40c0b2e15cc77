\* Two managers of one process, with two workers and with a long-lived one.
SPECIFICATION FairSpec
CONSTANTS
    w1 = w1
    w2 = w2
    w3 = w3
    m1 = m1
    m2 = m2
    Workers = {w1, w2, w3}
    Managers = {m1, m2}
    ManagerOf <- TwoAndOne
    LongLived = {w3}
    WaitModes = {TRUE, FALSE}
    ForkFails = TRUE
    MaxForks = 3
INVARIANTS
    TypeOK
    NotWorkingIsGone
    OneProcessPerWorker
    ExitStatusOfLastRun
PROPERTY
    WaitReturns
