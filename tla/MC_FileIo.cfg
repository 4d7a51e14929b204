SPECIFICATION FileFairSpec
CONSTANTS
    File = {f1, f2}
    Name = {db}
    NULL = NULL
    Junk = Junk
    Byte = {0, 1}
    MaxLen = 2
    MaxAmt = 2
    MaxTick = 1
    Ports = {"verix", "os_verix"}
    OpenKinds = {"db", "hot", "temp"}
    FaultKinds = {"open", "close", "read", "write", "remove", "size"}
    MaxFaults = 1
INVARIANTS
    FileTypeOK
    WriteExact
    ReadExact
PROPERTIES
    WriteReturns
    TempRemoved
