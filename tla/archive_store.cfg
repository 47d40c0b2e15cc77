\* Every operation, closing, killing, also in a save, and opening again, for a
\* client that inserts only at the end of the archive, and may set the cursor
\* before it has begun to sequence.
SPECIFICATION Spec
CONSTANTS
    Keys = {a, b}
    MaxLines = 4
    MaxCells = 3
    MaxKills = 1
    UIntValues = 256
    ReadsThenInserts = FALSE
    AimsAtStart = TRUE
SYMMETRY KeySymmetry
INVARIANTS
    TypeOK
    RecordsIntact
    CountIsRecords
PROPERTY
    PromiseKept
