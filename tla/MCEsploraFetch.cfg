SPECIFICATION Spec
CONSTANTS
    b1 = b1
    b2 = b2
    b3 = b3
    NoCount = NoCount
    NoDir = NoDir
    NoHash = NoHash
    Heights <- MCHeights
    Hashes <- MCHashes
    HashesAt <- MCHashesAt
    Size <- MCSize
    Height = 0
    PageSize = 2
    MaxRetries = 3
INVARIANTS
    MergedInOrder
    ShortFetchIsVisible
    OnlyNotFoundTruncates
    PageCount
PROPERTIES
    RequestsRunOut
    FetchEnds
    ImplementsContract
\* A fetch is over when it has returned or raised.
CHECK_DEADLOCK FALSE
