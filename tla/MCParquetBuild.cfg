SPECIFICATION SafeSpec
CONSTANTS
    b1 = b1
    b2 = b2
    p1 = p1
    p2 = p2
    NoCount = NoCount
    NoDir = NoDir
    NoFile = NoFile
    Heights <- OneHeight
    Hashes <- MCHashes
    HashesAt <- OneBlockEach
    Size <- MCSize
    Builders <- TwoBuilders
    BuildJobs <- OneHeightJobs
    OperatorDeletes = FALSE
    ParquetDeleted = FALSE
SYMMETRY Symmetry
INVARIANTS
    PartitionsFresh
    BuiltFromWhole
    SettledMeansBuilt
    ExitZeroMeansBuilt
PROPERTIES
    ImplementsDerivedStore
\* Every builder ends.
CHECK_DEADLOCK FALSE
