---------------------------- MODULE MCAlertEngine ----------------------------
(* Values for the constants of AlertEngine. *)
EXTENDS AlertEngine, TLC

(***************************************************************************)
(* get_alerts (main.py:541-553) in LIVE mode, with healthy and with        *)
(* degraded telemetry, and in three stages of the demo.                    *)
(***************************************************************************)
LiveHealthy == [rain |-> 285, rain24 |-> 1420, stage |-> 2685, prob |-> 88,
                area |-> 1650, degraded |-> FALSE]
LiveDegraded == [LiveHealthy EXCEPT !.degraded = TRUE]
DemoT2 == [rain |-> 385, rain24 |-> 740, stage |-> 2260, prob |-> 15,
           area |-> 42, degraded |-> FALSE]
DemoT5 == [rain |-> 320, rain24 |-> 1950, stage |-> 2555, prob |-> 65,
           area |-> 784, degraded |-> FALSE]
DemoT7 == [rain |-> 185, rain24 |-> 2250, stage |-> 2650, prob |-> 92,
           area |-> 1582, degraded |-> FALSE]

MixedConditions == {LiveHealthy, LiveDegraded, DemoT2, DemoT5, DemoT7}

ThreadSymmetry == Permutations(Threads)
=============================================================================
