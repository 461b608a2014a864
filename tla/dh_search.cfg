SPECIFICATION FairSpec
CONSTANTS
    N = 3
    Table = {2, 3}
    K = 2
    Alpha = 1
    MaxSearchNodes = 3
    MaxNodeStates = 2
    WithToken = {1, 3}
    MaxAnswer = 1
    MaxCalls = 2
    None = None
INVARIANTS
    
    
    AnnounceReaches
PROPERTY CallbackCalled
CHECK_DEADLOCK FALSE
