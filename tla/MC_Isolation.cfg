SPECIFICATION FairSpec
CONSTANTS
    Conn = {c1, c2}
    NoConn = NoConn
    Vfs = "verix"
    InitPages = 2
    MaxPage = 3
    MaxVal = 2
    MaxCommits = 2
    Nonce = {1}
    FreshNonce = FALSE
    Overlap = FALSE
    FaultKinds = {}
    MaxFaults = 0
INVARIANTS
    CacheCurrent
PROPERTIES
    Serializable
    ReadUnderLock
    LockReleased
