----------------------------- MODULE MCEventBus -----------------------------
(* EventBus as it is; the configurations choose the bounds. *)
EXTENDS EventBus
=============================================================================
