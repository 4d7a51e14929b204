SPECIFICATION Spec
CONSTANTS
    Conn = {c1}
    NoConn = NoConn
    Vfs = "os_verix"
    InitPages = 2
    MaxPage = 3
    MaxVal = 2
    MaxCommits = 2
    Nonce = {1}
    FreshNonce = FALSE
    Overlap = FALSE
    FaultKinds = {"crash", "write", "delete"}
    MaxFaults = 3
INVARIANTS
    LeftJournalRolledBack
PROPERTIES
    Serializable
