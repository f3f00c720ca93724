SPECIFICATION Spec
CONSTANTS
    b0 = b0
    child = child
    stray = stray
    other = other
    l1 = l1
    l2 = l2
    NoCount = NoCount
    NoDir = NoDir
    NoFile = NoFile
    NoValue = NoValue
    Heights <- MCHeights
    Hashes <- MCHashes
    HashesAt <- MCHashesAt
    Size <- MCSize
    Prev <- MCPrev
    Tx <- MCTx
    Windows <- MCWindows
    Loaders <- TwoLoaders
    OperatorDeletes = FALSE
    ParquetDeleted = FALSE
SYMMETRY Symmetry
INVARIANTS
    TypeOK
    KeysUnique
    ExitZeroMeansLoaded
PROPERTIES
    ImplementsWarehouse
    StepsRunOut
\* Every load ends.
CHECK_DEADLOCK FALSE
