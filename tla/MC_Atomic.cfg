SPECIFICATION Spec
CONSTANTS
    Conn = {c1}
    NoConn = NoConn
    Vfs = "verix"
    InitPages = 2
    MaxPage = 3
    MaxVal = 2
    MaxCommits = 2
    Nonce = {1, 2, 3, 4}
    FreshNonce = TRUE
    Overlap = FALSE
    FaultKinds = {"crash", "write", "delete", "unlock"}
    MaxFaults = 3
PROPERTIES
    OnlyOwnRecords
    ChangesOnlyAtCommit
