--------------------------- MODULE MCRemoteProbe ---------------------------
(***************************************************************************)
(* Small instances of RemoteProbe: every session acts for the one host.    *)
(***************************************************************************)
EXTENDS RemoteProbe, TLC

CONSTANT h1

MCHostOf == [s \in Session |-> h1]
SessionSymmetry == Permutations(Session) \cup Permutations(Tx)
=============================================================================
