SPECIFICATION Spec
SYMMETRY ConnSymmetry
CONSTANTS
    Conn = {c1, c2}
    NoConn = NoConn
    Vfs = "verix"
    InitPages = 2
    MaxPage = 3
    MaxVal = 1
    MaxCommits = 1
    Nonce = {1}
    FreshNonce = FALSE
    Overlap = TRUE
    FaultKinds = {"crash", "write", "read", "delete", "unlock"}
    MaxFaults = 2
INVARIANTS
    StateMatchesLock
    ReservedIsOwned
    TypeOK
PROPERTIES
    WriteUnderLock
    LockProtocol
