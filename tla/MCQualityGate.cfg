SPECIFICATION Spec
CONSTANTS
    base = base
    child = child
    stray = stray
    forged = forged
    other = other
    v1 = v1
    NoCount = NoCount
    NoDir = NoDir
    NoFile = NoFile
    NoValue = NoValue
    Heights <- MCHeights
    Hashes <- MCHashes
    HashesAt <- MCHashesAt
    Size <- MCSize
    Prev <- MCPrev
    Tx <- MCTx
    Forged <- MCForged
    Validators <- MCValidators
    Windows <- MCWindows
    OperatorDeletes = FALSE
    ParquetDeleted = FALSE
CONSTRAINT BaseIsCounted
INVARIANTS
    TypeOK
    PassHoldsOfTheData
    PassMeansChain
    PassFiguresHold
    SpendsAddUp
    BoundaryNeverFails
    VerdictIgnoresTheRest
PROPERTIES
    ImplementsGate
\* The invocation ends.
CHECK_DEADLOCK FALSE
