SPECIFICATION WorkflowSpec
CONSTANTS
    f1 = f1
    f2 = f2
    r1 = r1
    r2 = r2
    File = {f1, f2}
    Creatable = {f1}
    BackupName <- MCBackupName
    Mutation = {1, 2}
    Alloc = {r1, r2}
    WithConfig = {r1, r2}
    Proc = {p1}
    MaxEdits = 1
    MaxAborts = 1
    EditAnytime = FALSE
    NoAlloc = NoAlloc
    NoMutation = NoMutation
    Absent = Absent
INVARIANTS
    AppliedIsTrue
    EditsKept
    OriginalsKept
PROPERTIES
    CompensationOwns
    RollbackIsExact
    ApplyAllOrNothing
CHECK_DEADLOCK FALSE
SYMMETRY Symmetry
