------------------------- MODULE MCCentralAllocation -------------------------
(* Finite values of CentralAllocation's constants for TLC.                 *)
EXTENDS CentralAllocation, TLC

OneItem == <<[name |-> "web", preferred |-> NoPort, range |-> Port]>>
TwoItems == <<[name |-> "web", preferred |-> Max(Port), range |-> Port],
              [name |-> "db", preferred |-> NoPort, range |-> Port]>>

MCItemName == {"web", "db"}
MCBundle == {OneItem, TwoItems}

Symmetry == Permutations(Tx)
=============================================================================
