--------------------------- MODULE MCAgentUpgrade ---------------------------
(***************************************************************************)
(* Small instances of AgentUpgrade.  Its runs check liveness, so there is  *)
(* no symmetry.                                                            *)
(***************************************************************************)
EXTENDS AgentUpgrade
=============================================================================
