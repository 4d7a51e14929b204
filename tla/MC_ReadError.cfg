SPECIFICATION Spec
CONSTANTS
    Conn = {c1}
    NoConn = NoConn
    Vfs = "verix"
    InitPages = 2
    MaxPage = 3
    MaxVal = 1
    MaxCommits = 1
    Nonce = {1}
    FreshNonce = FALSE
    Overlap = FALSE
    FaultKinds = {"read", "write"}
    MaxFaults = 2
PROPERTIES
    ChangesOnlyAtCommit
