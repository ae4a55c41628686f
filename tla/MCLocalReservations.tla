------------------------- MODULE MCLocalReservations -------------------------
EXTENDS LocalReservations, TLC

CONSTANTS p1, p2, a, b, h1, h2

MCUuidOf == (p1 :> h1) @@ (p2 :> h2)

MCNoFile == {}

(* Phase 4 wrote the hostname into the rows.                               *)
MCLegacyFile == {[id |-> 1, host |-> Legacy, port |-> 1, project |-> a]}

=============================================================================
