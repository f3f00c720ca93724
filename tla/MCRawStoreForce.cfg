SPECIFICATION SafeSpec
CONSTANTS
    b1 = b1
    b2 = b2
    b3 = b3
    p1 = p1
    p2 = p2
    NoCount = NoCount
    NoDir = NoDir
    NoFetch = NoFetch
    Unset = Unset
    DefaultCount = 2
    DefaultBehindTip = 2
    Commands <- MCCommands
    Tips <- MCTips
    Heights <- MCHeights
    Hashes <- MCHashes
    HashesAt <- OneBlockEach
    Size <- MCSize
    Procs <- MCProcs
    Jobs <- AllJobs
    OperatorDeletes = FALSE
INVARIANTS
    ForceFetchesAgain
CHECK_DEADLOCK FALSE
