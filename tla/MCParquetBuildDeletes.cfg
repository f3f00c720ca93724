SPECIFICATION Spec
CONSTANTS
    b1 = b1
    b2 = b2
    p1 = p1
    p2 = p2
    NoCount = NoCount
    NoDir = NoDir
    NoFile = NoFile
    Heights <- OneHeight
    Hashes <- MCHashes
    HashesAt <- OneBlockEach
    Size <- MCSize
    Builders <- OneBuilder
    BuildJobs <- OneHeightJobs
    OperatorDeletes = TRUE
    ParquetDeleted = TRUE
PROPERTIES
    AbandonsOnlyRows
    StepsRunOut
    BuildEnds
\* Every builder ends.
CHECK_DEADLOCK FALSE
