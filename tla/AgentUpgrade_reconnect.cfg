SPECIFICATION FairSpec
CONSTANTS
    UpgradeId = {1}
    Version = {1, 2}
    RequestId = {}
    Admin = {a1}
    Slot = {s1}
    NoId = NoId
    NoUpgrade = NoUpgrade
PROPERTY ReconnectSucceeds
CHECK_DEADLOCK FALSE
