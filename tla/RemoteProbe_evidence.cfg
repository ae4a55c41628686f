SPECIFICATION Spec
CONSTANTS
    h1 = h1
    Host = {h1}
    Port = {1, 2}
    Contended = {1}
    ProbeId = {1, 2}
    Session = {s1, s2}
    HostOf <- MCHostOf
    Tx = {t1, t2}
    TTL = 1
    StaleAfter = 0
    MaxPending = 2
    MaxDelivered = 1
    ProbeSkips = 1
    NoPort = NoPort
    NoProbe = NoProbe
INVARIANTS VerifiedFreeIsHonest QueueStaysBounded
SYMMETRY SessionSymmetry
CHECK_DEADLOCK FALSE
