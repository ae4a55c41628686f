SPECIFICATION FairSpec
CONSTANTS
    UpgradeId = {1, 2}
    Version = {1}
    RequestId = {}
    Admin = {a1, a2}
    Slot = {s1}
    NoId = NoId
    NoUpgrade = NoUpgrade
PROPERTY PendingIsPickedUp
CHECK_DEADLOCK FALSE
INVARIANT ProgressIsReal
