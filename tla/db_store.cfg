\* Every operation, with one that Berkeley DB fails part of the way.
SPECIFICATION Spec
CONSTANTS
    Keys = {1, 2, 3, 4}
    Records <- MCRecords
    MaxSegments = 2
    UIntValues = 256
    MaxFailures = 1
INVARIANTS
    TypeOK
    RecordsIntact
    SequencesOnce
PROPERTIES
    PromiseKept
