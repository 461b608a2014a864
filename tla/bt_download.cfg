CONSTANTS
    Peers = {p1, p2}
    Sizes <- MCSizes
    MaxPending = 2
    MaxDownloading = 1
    HighMark = 2
    LowMark = 0
    Fields <- MCFields
    MaxEvents = 1
    None = None
SPECIFICATION Spec
SYMMETRY PeerSymmetry
INVARIANTS
    
    HaveIsGood
    NeverStalls
CHECK_DEADLOCK FALSE
