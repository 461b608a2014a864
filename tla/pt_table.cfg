CONSTANTS
    PeerIds = {p1, p2}
    Conns = {c1, c2}
    Fds = {f1, f2}
    Users = {u1}
    None = None
    MaxPeers = 1
    ReconnectEnabled = TRUE
    ReuseFds = FALSE
SPECIFICATION FairSpec
INVARIANTS
    TypeOK
    CountIsCompleted
    IndexesPointToRecords
    
    
PROPERTY HandshakeSettles
CHECK_DEADLOCK FALSE
