----------------------------- MODULE MCUserStore -----------------------------
(* UserStore as it is; the configurations choose the bounds. *)
EXTENDS UserStore
=============================================================================
