SPECIFICATION DocumentsSpec
CONSTANTS
    File = {".env", "compose.yaml", "k8s.yaml"}
    KindOf <- MCKindOf
    BackupName <- MCBackupName
    Manifest <- MCManifest
    Reply <- MCReply
    Listing <- MCListing
    Tree <- MCTree
    HostId = {"id1", "id2"}
    EnvKey = {"PORT", "DB"}
    Protocol = {"tcp", "udp"}
    WorkloadKind = {"Deployment", "StatefulSet"}
    NodePortRange = {30000, 30001}
    MaxPort = 65535
    MaxPorts = 20
    MaxFiles = 10
    MaxMapped = 50
    Service = {"app", "web"}
    Absent = Absent
    NoPort = NoPort
    NoTarget = NoTarget
    NoNamespace = NoNamespace
    NoList = NoList
    NoAnchor = NoAnchor
INVARIANT MappedPlacesDelivered
INVARIANT NothingElseChanges
INVARIANT PlanIsIdempotent
INVARIANT RollbackRestores
CHECK_DEADLOCK FALSE
