SPECIFICATION SafeSpec
CONSTANTS
    b1 = b1
    b2 = b2
    p1 = p1
    p2 = p2
    NoCount = NoCount
    NoDir = NoDir
    NoFile = NoFile
    Heights <- OneHeight
    Hashes <- MCHashes
    HashesAt <- OneBlockEach
    Size <- MCSize
    Builders <- TwoBuilders
    BuildJobs <- OneHeightJobs
    OperatorDeletes = FALSE
    ParquetDeleted = FALSE
INVARIANTS
    NoTempFilesLeft
CHECK_DEADLOCK FALSE
