CONSTANTS
    Workers = {w1, w2}
    Connectors = {}
    Owner = owner
    Io = io
    Mgmt = mgmt
    NoThread = none
    MaxStarts = 1
SPECIFICATION FairSpec
INVARIANTS
    TypeOK
    StoppedMeansAllJoined
    EveryThreadHasOneOwner
 
CHECK_DEADLOCK FALSE
