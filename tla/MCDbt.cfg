SPECIFICATION Spec
CONSTANTS
    base = base
    child = child
    twin = twin
    NoCount = NoCount
    NoDir = NoDir
    NoFile = NoFile
    NoValue = NoValue
    Heights <- MCHeights
    Hashes <- MCHashes
    HashesAt <- MCHashesAt
    Size <- MCSize
    Prev <- MCPrev
    Tx <- MCTx
    Windows <- MCWindows
    OperatorDeletes = FALSE
    ParquetDeleted = FALSE
CONSTRAINT BuiltFirst
INVARIANTS
    GreenMeansWholeBlocks
    TestsAgreeWithGate
CHECK_DEADLOCK FALSE
