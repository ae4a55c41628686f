SPECIFICATION Spec
CONSTANTS
    Host = {h1}
    Machine = {m1}
    IdentityOf <- MCIdentityOf
    Token = {t1, t2}
    Cred = {1, 2}
    Command = {k1, k2}
    Admin = {a1}
    NoCred = NoCred
    NoToken = NoToken
    NoHost = NoHost
    NoMachine = NoMachine
INVARIANT OneActiveCredential
INVARIANT CredentialsHaveHosts
INVARIANT TokenReplayRefused
INVARIANT TombstoneHoldsNoCredential
INVARIANT NewestCredentialLoaded
PROPERTY DecommissionStands
CONSTANTS h1 = h1 m1 = m1 k1 = k1 k2 = k2 a1 = a1 t1 = t1 t2 = t2
SYMMETRY MCSymmetry
CHECK_DEADLOCK FALSE
