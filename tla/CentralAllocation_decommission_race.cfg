SPECIFICATION Spec
CONSTANTS
    Tx = {t1, t2, t3}
    Host = {h1}
    Port = {1, 2}
    RequestId = {r1}
    ItemName <- MCItemName
    Bundle <- MCBundle
    Addr = {a1}
    LocalId = {l1}
    ReleaseLimit = 6
    ProbeSkips = 1
    NoTx = NoTx
    NoId = NoId
    NoAddr = NoAddr
    NoLocal = NoLocal
    NoPort = NoPort
SYMMETRY Symmetry
INVARIANTS DecommissionedHoldsNothing
