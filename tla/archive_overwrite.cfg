\* A client that inserts after it has read another record.
SPECIFICATION Spec
CONSTANTS
    Keys = {a, b}
    MaxLines = 4
    MaxCells = 3
    MaxKills = 1
    UIntValues = 256
    ReadsThenInserts = TRUE
    AimsAtStart = FALSE
INVARIANT
    RecordsIntact
