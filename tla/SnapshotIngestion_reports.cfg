SPECIFICATION Spec
CONSTANTS
    Sender = {daemon, sync}
    Early = {sync}
    Binding = {1}
    Usage <- MCUsage
    MaxBatch = 2
    MaxScans = 3
    MaxChanges = 1
    MaxRepeats = 1
INVARIANT TypeOK
INVARIANT CurrentIsNewest
INVARIANT HistoryExplainsCurrent
INVARIANT HistoryIsOrdered
PROPERTY OnlyFreePortsDisappear
CHECK_DEADLOCK FALSE
CONSTANTS daemon = daemon sync = sync
