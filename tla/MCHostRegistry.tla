--------------------------- MODULE MCHostRegistry ---------------------------
EXTENDS HostRegistry, TLC

CONSTANTS h1, m1, k1, k2, a1, t1, t2

(* One installation, whose commands may overlap.                           *)
MCIdentityOf == m1 :> h1

MCSymmetry == Permutations({t1, t2}) \cup Permutations({k1, k2})
=============================================================================
