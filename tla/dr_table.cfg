SPECIFICATION FairSpec
CONSTANTS
    Bits = 3
    K = 2
    Ids = {4, 5, 6}
    Owns = {0, 7}
    MAX_FAIL_COUNT = 1
    MaxMoves = 1
INVARIANT InRightBucket
PROPERTIES
    DuplicatesExplained
    GoodNodesStay
    PingsEnd
CHECK_DEADLOCK FALSE
