--------------------------- MODULE AnomalyDetection --------------------------
(***************************************************************************)
(* The anomaly service (services/anomaly): every reading of an event is    *)
(* classified by the detector's cascade of layers, remembered by the       *)
(* baseline tracker, stored, counted for its station and announced on the  *)
(* bus. A handler awaits nothing that suspends it, so no event comes       *)
(* between the readings of another; what can end it half way is a publish  *)
(* that raises, as the event store's write may.                            *)
(*                                                                         *)
(* Values and scores are whole numbers, scores in percent. The layers that *)
(* compare a value with its statistics (robust z-score, EWMA band, rolling *)
(* percentiles) are one score from Deviations; whether a neighbour, the    *)
(* satellite or the forecast agrees with a value is free.                  *)
(***************************************************************************)
EXTENDS Integers, Sequences, FiniteSets

CONSTANTS
    Stations,
    Variables,
    Bounds,        \* PHYSICAL_BOUNDS: variable -> <<least, greatest>>
    JumpRate,      \* MAX_JUMP_RATES_1H: variable -> the largest jump
    Watched,       \* the variables tested for a frozen sensor
    FlatlineLimit, \* 5 readings alike
    Payloads,      \* events: sequences of readings of one station
    Injected,      \* readings that the test endpoint injects
    MaxRecords     \* bound: records since the start

ASSUME AnomalyAssumption ==
    /\ Bounds \in [Variables -> Int \X Int]
    /\ JumpRate \in [Variables -> Nat \ {0}]
    /\ Watched \subseteq Variables
    /\ FlatlineLimit \in Nat \ {0} /\ MaxRecords \in Nat

VARIABLES
    arriving,   \* the readings left of the event under way
    flat,       \* _flatline_tracker: sensor -> its last value and how often
    streak,     \* _consecutive_anomalies: station -> count
    records,    \* what the store was given since the start
    announced   \* the records that were announced, with their priority

anomalyVars == <<arriving, flat, streak, records, announced>>

Missing == -1000000     \* None or NaN
Sensors == Stations \X Variables
States == {"NORMAL", "WATCH", "ANOMALOUS", "LIKELY_SENSOR_ERROR"}
Bad == {"ANOMALOUS", "LIKELY_SENSOR_ERROR"}
Record == [sensor : Sensors, value : Int, frozen : BOOLEAN, state : States]
Readings == [sensor : Sensors, value : Int, previous : Int, deviation : Nat,
             signals : Nat, agree : Nat]
ASSUME ReadingsAssumption == Payloads \subseteq Seq(Readings) /\ Injected \subseteq Readings

AnomalyTypeOK ==
    /\ arriving \in Seq(Readings)
    /\ flat \in [Sensors -> [last : Int, count : Nat]]
    /\ streak \in [Stations -> Nat]
    /\ records \in Seq(Record)
    /\ announced \subseteq (1 .. MaxRecords) \X {"CRITICAL", "HIGH", "NORMAL"}

AnomalyInit ==
    /\ arriving = <<>>
    /\ flat = [x \in Sensors |-> [last |-> Missing, count |-> 0]]
    /\ streak = [s \in Stations |-> 0]
    /\ records = <<>>
    /\ announced = {}
-----------------------------------------------------------------------------
Larger(a, b) == IF a >= b THEN a ELSE b
Apart(a, b) == IF a >= b THEN a - b ELSE b - a

Physical(r) ==
    LET bound == Bounds[r.sensor[2]]
    IN  r.value >= bound[1] /\ r.value <= bound[2]

Jumps(r) ==
    r.previous # Missing /\ Apart(r.value, r.previous) > JumpRate[r.sensor[2]]

JumpScore(r) ==
    LET score == 60 + (20 * Apart(r.value, r.previous)) \div JumpRate[r.sensor[2]]
    IN  IF score > 100 THEN 100 ELSE score

(* The value read is not looked at: only those recorded before it are       *)
Frozen(f, r) ==
    r.sensor[2] \in Watched /\ f[r.sensor].count >= FlatlineLimit

(* evaluate_spatial_consistency: how many signals there are, and how many   *)
(* agree                                                                    *)
Spatial(r) ==
    IF r.signals = 0 THEN "INSUFFICIENT_CONTEXT"
    ELSE IF r.value >= 30 /\ 10 * r.agree >= 4 * r.signals THEN "VALID_EXTREME"
    ELSE IF r.value >= 40 /\ r.agree = 0 THEN "LIKELY_SENSOR_ERROR"
    ELSE IF 2 * r.agree < r.signals THEN "POSSIBLE_ANOMALY"
    ELSE IF r.value > 0 THEN "VALID_EXTREME" ELSE "INSUFFICIENT_CONTEXT"

RawScore(f, r) ==
    Larger(r.deviation,
           Larger(IF Jumps(r) THEN JumpScore(r) ELSE 0,
                  IF Frozen(f, r) THEN 85 ELSE 0))

(* evaluate_observation: the first layer that decides                       *)
StateOfReading(f, r) ==
    LET raw == RawScore(f, r)
    IN  CASE r.value = Missing -> "ANOMALOUS"
          [] r.value # Missing /\ ~Physical(r) -> "LIKELY_SENSOR_ERROR"
          [] OTHER ->
             IF Spatial(r) = "VALID_EXTREME"
             THEN IF raw > 50 THEN "WATCH" ELSE "NORMAL"
             ELSE IF \/ Frozen(f, r)
                     \/ /\ Spatial(r) = "LIKELY_SENSOR_ERROR"
                        /\ Jumps(r) \/ raw >= 50
             THEN "LIKELY_SENSOR_ERROR"
             ELSE IF Jumps(r) \/ raw >= 60 THEN "ANOMALOUS"
             ELSE IF raw >= 30 THEN "WATCH" ELSE "NORMAL"

(* Mutant: a dropout is taken for a change of the reading. *)
TrackedDropout(f, r) ==
    IF r.value # Missing /\ ~Physical(r) THEN f
    ELSE [f EXCEPT ![r.sensor] =
              [last |-> r.value, count |-> IF @.last = r.value THEN @.count + 1 ELSE 1]]

(* record_observation, of every reading that is physically possible, also   *)
(* one that was classified as an error                                      *)
Tracked(f, r) ==
    IF r.value = Missing \/ ~Physical(r) THEN f
    ELSE [f EXCEPT ![r.sensor] =
              [last |-> r.value, count |-> IF @.last = r.value THEN @.count + 1 ELSE 1]]

(* Mutant: a reading worth watching does not end the streak. *)
CountedOn(n, state) ==
    IF state \in Bad THEN n + 1 ELSE IF state = "WATCH" THEN n ELSE 0

(* _process_anomaly_record up to the publish                                *)
Counted(n, state) == IF state \in Bad THEN n + 1 ELSE 0

PriorityOfState(state) ==
    CASE state = "NORMAL" -> "NORMAL"
      [] state = "LIKELY_SENSOR_ERROR" -> "CRITICAL"
      [] OTHER -> "HIGH"

Arrive(readings) ==
    /\ arriving = <<>> /\ Len(records) + Len(readings) <= MaxRecords
    /\ arriving' = readings
    /\ UNCHANGED <<flat, streak, records, announced>>

(* _on_source_data_received                                                 *)
StreamEvent(readings) == Arrive(readings)
(* inject_test_anomaly: nothing sets the injected reading apart             *)
InjectTest(r) == Arrive(<<r>>)

(* Classified by what was recorded before it, then recorded itself: the     *)
(* next reading of the event, whose publish may raise and end the event.    *)
ProcessReading ==
    LET r == Head(arriving)
        state == StateOfReading(flat, r)
        station == r.sensor[1]
    IN  /\ arriving # <<>>
        /\ flat' = Tracked(flat, r)
        /\ streak' = [streak EXCEPT ![station] = Counted(@, state)]
        /\ records' = Append(records,
               [sensor |-> r.sensor, value |-> r.value, state |-> state,
                frozen |-> r.value # Missing /\ Frozen(flat, r)])
        /\ \/ /\ announced' = announced \cup {<<Len(records) + 1, PriorityOfState(state)>>}
              /\ arriving' = Tail(arriving)
           \/ announced' = announced /\ arriving' = <<>>

(* Nothing is read back from the daily files                                *)
AnomalyRestart ==
    /\ records # <<>>
    /\ flat' = [x \in Sensors |-> [last |-> Missing, count |-> 0]]
    /\ streak' = [s \in Stations |-> 0]
    /\ arriving' = <<>> /\ records' = <<>> /\ announced' = {}

AnomalyNext ==
    \/ \E readings \in Payloads : StreamEvent(readings)
    \/ \E r \in Injected : InjectTest(r)
    \/ ProcessReading
    \/ AnomalyRestart

AnomalySpec == AnomalyInit /\ [][AnomalyNext]_anomalyVars
-----------------------------------------------------------------------------
Plausible(rec) ==
    LET bound == Bounds[rec.sensor[2]]
    IN  rec.value # Missing /\ rec.value >= bound[1] /\ rec.value <= bound[2]

(* The positions of a sensor's plausible readings before the i-th record    *)
Before(i) ==
    {j \in 1 .. i - 1 : records[j].sensor = records[i].sensor /\ Plausible(records[j])}

(* The latest FlatlineLimit of them                                         *)
Latest(i) == {j \in Before(i) : Cardinality({k \in Before(i) : k > j}) < FlatlineLimit}

(* The reading is that of the sensor's latest plausible record before it    *)
Repeats(i) ==
    \E j \in Before(i) :
        (\A k \in Before(i) : k <= j) /\ records[j].value = records[i].value

(* A record of a reading that repeats the one before says that the sensor   *)
(* is frozen exactly if it and its last FlatlineLimit plausible readings    *)
(* are alike, whatever dropouts, impossible values, other variables, other  *)
(* stations and broken-off events came between them. Of a reading that      *)
(* differs nothing is said: the detector does not look at it and may call   *)
(* frozen a sensor that has just moved.                                     *)
FrozenTellsReadings ==
    \A i \in DOMAIN records :
        Repeats(i) =>
            (records[i].frozen <=>
                /\ records[i].sensor[2] \in Watched
                /\ Cardinality(Latest(i)) = FlatlineLimit
                /\ \A j \in Latest(i) : records[j].value = records[i].value)

(* A station's count is the number of its latest records in a row that were *)
(* anomalous, over all of its variables, also when the event that brought   *)
(* them broke off.                                                          *)
StreakTellsRecords ==
    \A s \in Stations :
        LET own == {i \in DOMAIN records : records[i].sensor[1] = s}
        IN  /\ streak[s] <= Cardinality(own)
            /\ \A i \in own :
                   (records[i].state \in Bad /\ Cardinality({j \in own : j > i}) < streak[s])
                   \/ Cardinality({j \in own : j > i}) >= streak[s]
            /\ streak[s] < Cardinality(own) =>
                   \E i \in own : /\ Cardinality({j \in own : j > i}) = streak[s]
                                  /\ records[i].state \notin Bad
=============================================================================
