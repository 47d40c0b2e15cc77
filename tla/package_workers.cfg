SPECIFICATION FairSpec
CONSTANTS
    NumWorkers = 2
    MaxPackages = 2
    Commands <- AllCommands
    Signals <- AllSignals
    Outcomes <- AllOutcomes
INVARIANTS
    TypeOK
    PartsMatch
    OneRequestAtATime
    StopCostsNoPackage
PROPERTIES
    DeliveryEnds
    AllEnd
