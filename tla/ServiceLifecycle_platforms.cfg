SPECIFICATION Spec
CONSTANTS
    e1 = e1
    e2 = e2
    NoDef = NoDef
    Env <- MCEnv
    OS <- MCOS
    MaxCrashes = 2
INVARIANT InstalledInForce
INVARIANT RemovedStaysDown
INVARIANT StopHolds
PROPERTY WantedRuns
PROPERTY UpgradeTakesOver
