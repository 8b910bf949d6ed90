-------------------------- MODULE MCForecastTrigger --------------------------
(* ForecastTrigger as it is; the configurations choose ticks and bounds. *)
EXTENDS ForecastTrigger
=============================================================================
