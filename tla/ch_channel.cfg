SPECIFICATION FairSpec
CONSTANTS
    Sends <- MCSends
    Cap = 3
    MaxEvents = 1
INVARIANTS
    InOrder
    LossOnlyAtStart
    OpensUnlessRaced
PROPERTIES
    HandshakeEnds
    Arrives
CHECK_DEADLOCK FALSE
