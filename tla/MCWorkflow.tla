----------------------------- MODULE MCWorkflow -----------------------------
EXTENDS Workflow, TLC

CONSTANTS f1, f2, r1, r2

Symmetry == Permutations({r1, r2})

MCBackupName == (f1 :> ".env") @@ (f2 :> "compose.yaml")

=============================================================================
