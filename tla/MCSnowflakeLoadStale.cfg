SPECIFICATION Spec
CONSTANTS
    b0 = b0
    child = child
    stray = stray
    other = other
    l1 = l1
    l2 = l2
    NoCount = NoCount
    NoDir = NoDir
    NoFile = NoFile
    NoValue = NoValue
    Heights <- RangeHeights
    Hashes <- RangeHashes
    HashesAt <- RangeHashesAt
    Size <- RangeSize
    Prev <- RangePrev
    Tx <- RangeTx
    Windows <- RangeWindows
    Loaders <- OneLoader
    OperatorDeletes = TRUE
    ParquetDeleted = FALSE
CONSTRAINTS
    FetchedWell
    LoadedAfterwards
INVARIANTS
    OnlyClearedIsLoaded
CHECK_DEADLOCK FALSE
