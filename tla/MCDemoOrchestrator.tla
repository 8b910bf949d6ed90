------------------------- MODULE MCDemoOrchestrator -------------------------
(* Values for the constants of DemoOrchestrator. *)
EXTENDS DemoOrchestrator

(* Which stages get_alerts happens to be asked in. *)
CalmToWatch == {Observed(2)}
=============================================================================
