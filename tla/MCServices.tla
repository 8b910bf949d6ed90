----------------------------- MODULE MCServices ------------------------------
(* Parts of the program that share no state, each explored by itself: the   *)
(* initial state chooses one, and only that one moves.                      *)
EXTENDS RateLimiter, ForecastCache, AnomalyDetection, SourceOutage,
        NotificationPolicy, BasinTwin, TLC

CONSTANTS c1, c2, w1, w2, q1, q2, runA, runB, u1, u2, u3

VARIABLE focus

MCSurfaces == <<"P10", "P50">>

(* Two variables of one station, a stage that is tested for a frozen sensor *)
(* and a rainfall that is not, and a second station.                        *)
MCBounds == [v \in {"stage", "rain"} |-> IF v = "stage" THEN <<0, 60>> ELSE <<0, 300>>]
MCJumpRate == [v \in {"stage", "rain"} |-> IF v = "stage" THEN 5 ELSE 180]

Reading(station, variable, value, previous, deviation, signals, agree) ==
    [sensor |-> <<station, variable>>, value |-> value, previous |-> previous,
     deviation |-> deviation, signals |-> signals, agree |-> agree]
Steady  == Reading("A", "stage", 25, Missing, 0, 0, 0)
Surge   == Reading("A", "stage", 35, 25, 65, 2, 1)
Dropout == Reading("A", "stage", Missing, Missing, 0, 0, 0)
Absurd  == Reading("A", "stage", 99, Missing, 100, 0, 0)
Lonely  == Reading("A", "rain", 45, Missing, 50, 1, 0)
Mild    == Reading("A", "rain", 45, Missing, 35, 0, 0)
Other   == Reading("B", "stage", 25, Missing, 65, 0, 0)
MCPayloads == {<<Steady>>, <<Steady, Lonely>>, <<Surge, Mild>>, <<Dropout, Other>>}
MCInjected == {Absurd, Steady}

(* Two citizens of one locality, one with a verified phone, through an alert *)
(* that rises and falls                                                      *)
OneLocality == <<"CUTTACK", "CUTTACK">>
EveryArea == SUBSET Subs \ {{}}
Ev(severity, status) == [alert |-> "A", severity |-> severity, status |-> status]
OneAlert == {Ev("GREEN", "WATCH"), Ev("YELLOW", "WATCH"), Ev("ORANGE", "CANDIDATE"),
             Ev("RED", "PENDING_HUMAN_REVIEW"), Ev("RED", "ACKNOWLEDGED"),
             Ev("RED", "EXPIRED")}

MCAdapters == <<GAUGES, RADAR, CWC>>

services == <<limiterVars, cacheVars, anomalyVars, outageVars, vars, twinVars>>

ServicesInit ==
    /\ focus \in {"limiter", "cache", "anomalies", "outages", "policy", "twin"}
    /\ LimiterInit /\ CacheInit /\ AnomalyInit /\ OutageInit
    /\ Init /\ TwinInit

ServicesNext ==
    /\ focus' = focus
    /\ \/ /\ focus = "limiter" /\ LimiterNext
          /\ UNCHANGED <<cacheVars, anomalyVars, outageVars,
                        vars, twinVars>>
       \/ /\ focus = "cache" /\ CacheNext
          /\ UNCHANGED <<limiterVars, anomalyVars, outageVars,
                        vars, twinVars>>
       \/ /\ focus = "anomalies" /\ AnomalyNext
          /\ UNCHANGED <<limiterVars, cacheVars, outageVars,
                        vars, twinVars>>
       \/ /\ focus = "outages" /\ OutageNext
          /\ UNCHANGED <<limiterVars, cacheVars, anomalyVars,
                        vars, twinVars>>
       \/ /\ focus = "policy" /\ Next
          /\ UNCHANGED <<limiterVars, cacheVars, anomalyVars,
                        outageVars, twinVars>>
       \/ /\ focus = "twin" /\ TwinNext
          /\ UNCHANGED <<limiterVars, cacheVars, anomalyVars,
                        outageVars, vars>>

ServicesSpec == ServicesInit /\ [][ServicesNext]_<<focus, services>>
=============================================================================
