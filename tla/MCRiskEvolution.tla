--------------------------- MODULE MCRiskEvolution ---------------------------
(* A surge and a recession; a run's second snapshot is no material change. *)
EXTENDS RiskEvolution

SurgeAndRecession == {[area |-> 5200, prob |-> 92], [area |-> 3500, prob |-> 60]}
=============================================================================
