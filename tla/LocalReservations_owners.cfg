SPECIFICATION FairSpec
CONSTANTS
    Proc = {p1, p2}
    Port = {1}
    Project = {a, b}
    Owner = {b}
    HostId = {h1, h2}
    Legacy = legacy
    UuidOf <- MCUuidOf
    InitialIdentity = h1
    InitialFile <- MCNoFile
    MaxId = 3
    NoHost = NoHost
    NoProc = NoProc
    NoProject = NoProject
    Nobody = Nobody
INVARIANT PortReservedOnce
PROPERTY CommandsFinish
CONSTANTS p1 = p1 p2 = p2 a = a b = b h1 = h1 h2 = h2
