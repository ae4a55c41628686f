------------------------- MODULE MCServiceLifecycle -------------------------
(* The service commands on the three platforms, with two installations to  *)
(* install from.                                                           *)
EXTENDS ServiceLifecycle

CONSTANTS e1, e2
MCEnv == {e1, e2}
MCOS == {"windows", "macos", "linux"}
=============================================================================
