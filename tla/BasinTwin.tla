----------------------------- MODULE BasinTwin ------------------------------
(***************************************************************************)
(* services/basin_state: the digital twin of the basin, one object that    *)
(* request threads advance without a lock, attribute by attribute, and the *)
(* store that keeps its states.                                            *)
(*                                                                         *)
(* A quantity is known by the requests it has counted: what matters is not *)
(* how much an update adds but whether it is there.                        *)
(***************************************************************************)
EXTENDS Naturals, FiniteSets

CONSTANTS
    Updates,     \* POST /basin/state/update requests
    MaxAtOnce,   \* bound: requests under way at once (the thread pool has 40)
    MaxHistory   \* max_history (500)

Default == "default"   \* a value no request wrote: initial, or a parameter's own
ASSUME TwinAssumption ==
    /\ IsFiniteSet(Updates) /\ Default \notin Updates
    /\ MaxAtOnce \in Nat /\ MaxHistory \in Nat \ {0}

VARIABLES
    twin,      \* _current_state
    pastStates,  \* how many times the store's deque holds that same object
    update,    \* what a request under way has read, by request
    alone,     \* history: the requests no other has overlapped
    latest     \* history: the request that ended last

twinVars == <<twin, pastStates, update, alone, latest>>

Counting == SUBSET Updates
By == Updates \cup {Default}
RiskIndex(soil, storage, tide) == [soil |-> soil, storage |-> storage, tide |-> tide]
Places == {"waiting", "soil", "infiltrated", "effective", "tide", "channel",
           "routed", "risk", "counted", "time", "index", "record", "ended"}

NothingRead(at) == [at |-> at, soil |-> {}, storage |-> {}, version |-> 0]

TwinTypeOK ==
    /\ twin \in [soil : Counting, effective : By, tide : By, storage : Counting,
                 backwater : By, version : Nat, timestamp : By,
                 risk : [soil : Counting, storage : Counting, tide : By]]
    /\ pastStates \in 0 .. MaxHistory
    /\ update \in [Updates -> [at : Places, soil : Counting, storage : Counting,
                               version : Nat]]
    /\ alone \in Counting
    /\ latest \in By

TwinInit ==
    /\ twin = [soil |-> {}, effective |-> Default, tide |-> Default, storage |-> {},
               backwater |-> Default, version |-> 1, timestamp |-> Default,
               risk |-> RiskIndex({}, {}, Default)]
    /\ pastStates = 0
    /\ update = [r \in Updates |-> NothingRead("waiting")]
    /\ alone = Updates
    /\ latest = Default

UnderWay == {r \in Updates : update[r].at \notin {"waiting", "ended"}}
-----------------------------------------------------------------------------
Enter(r) ==
    /\ update[r].at = "waiting" /\ Cardinality(UnderWay) < MaxAtOnce
    /\ update' = [update EXCEPT ![r].at = "soil"]
    /\ alone' = IF UnderWay = {} THEN alone ELSE alone \ (UnderWay \cup {r})
    /\ UNCHANGED <<twin, pastStates, latest>>

(* r goes from one place to the next, keeping or replacing what it has read. *)
Goes(r, from, read) ==
    /\ update[r].at = from
    /\ update' = [update EXCEPT ![r] = read]
    /\ UNCHANGED <<pastStates, alone, latest>>
Passes(r, from, to) == Goes(r, from, [update[r] EXCEPT !.at = to])

(* update_soil_moisture: reads the soil, then writes it and the rain left. *)
ReadSoil(r) ==
    /\ Goes(r, "soil", [update[r] EXCEPT !.at = "infiltrated",
                                         !.soil = twin.soil \cup {r}])
    /\ UNCHANGED twin
WriteSoil(r) ==
    /\ Passes(r, "infiltrated", "effective")
    /\ twin' = [twin EXCEPT !.soil = update[r].soil]
WriteEffectiveRain(r) ==
    /\ Passes(r, "effective", "tide")
    /\ twin' = [twin EXCEPT !.effective = r]

UpdateTidalBoundary(r) ==
    /\ Passes(r, "tide", "channel")
    /\ twin' = [twin EXCEPT !.tide = r]

(* update_channel_storage, under the level of the request's own tide. *)
ReadChannel(r) ==
    /\ Goes(r, "channel", [update[r] EXCEPT !.at = "routed",
                                            !.storage = twin.storage \cup {r}])
    /\ UNCHANGED twin
(* Mutant: the level is not handed on, and the parameter's default counts. *)
WriteChannelDefault(r) ==
    /\ Passes(r, "routed", "risk")
    /\ twin' = [twin EXCEPT !.storage = update[r].storage, !.backwater = Default]
WriteChannel(r) ==
    /\ Passes(r, "routed", "risk")
    /\ twin' = [twin EXCEPT !.storage = update[r].storage, !.backwater = r]

(* compute_full_digital_twin_step, once the three parts are written. *)
ReadVersion(r) ==
    /\ Goes(r, "risk", [update[r] EXCEPT !.at = "counted", !.version = twin.version])
    /\ UNCHANGED twin
WriteVersion(r) ==
    /\ Goes(r, "counted", [update[r] EXCEPT !.at = "time", !.version = 0])
    /\ twin' = [twin EXCEPT !.version = update[r].version + 1]
WriteTimestamp(r) ==
    /\ Passes(r, "time", "index")
    /\ twin' = [twin EXCEPT !.timestamp = r]
WriteRiskIndex(r) ==
    /\ Passes(r, "index", "record")
    /\ twin' = [twin EXCEPT !.risk = RiskIndex(update[r].soil, update[r].storage, r)]

(* record_state keeps the object itself: every entry is the state as it is now. *)
RecordState(r) ==
    /\ update[r].at = "record"
    /\ pastStates' = IF pastStates < MaxHistory THEN pastStates + 1 ELSE MaxHistory
    /\ update' = [update EXCEPT ![r] = NothingRead("ended")]
    /\ latest' = r
    /\ UNCHANGED <<twin, alone>>

TwinStep(r) ==
    \/ Enter(r) \/ ReadSoil(r) \/ WriteSoil(r) \/ WriteEffectiveRain(r)
    \/ UpdateTidalBoundary(r) \/ ReadChannel(r) \/ WriteChannel(r)
    \/ ReadVersion(r) \/ WriteVersion(r) \/ WriteTimestamp(r)
    \/ WriteRiskIndex(r) \/ RecordState(r)

TwinNext == \E r \in Updates : TwinStep(r)
TwinSpec == TwinInit /\ [][TwinNext]_twinVars

(* get_history: newest first, or the state now when there is none. *)
History == [i \in 1 .. (IF pastStates = 0 THEN 1 ELSE pastStates) |-> twin]
-----------------------------------------------------------------------------
Ended == {r \in Updates : update[r].at = "ended"}

(***************************************************************************)
(* Safety. Without a lock, requests that overlap may lose each other's     *)
(* rain, inflow and version (compute_full_digital_twin_step reads and      *)
(* writes in turn). One that overlapped no other loses nothing, whatever   *)
(* others did before it and do after it: its rain and inflow stay counted, *)
(* it has a version of its own, and while it is the last the parts of the  *)
(* twin fit together: the risk is that of the soil, channel and tide       *)
(* stored, and the backwater stands under the tide stored.                 *)
(***************************************************************************)
LoneUpdateKept ==
    LET lone == Ended \cap alone IN
    /\ lone \subseteq twin.soil \cap twin.storage
    /\ twin.version - 1 \in Cardinality(lone) .. Cardinality(Updates)
    /\ latest \in alone /\ UnderWay = {} =>
           /\ twin.risk = RiskIndex(twin.soil, twin.storage, twin.tide)
           /\ twin.backwater = twin.tide
           /\ {twin.effective, twin.tide, twin.timestamp} = {latest}
=============================================================================
