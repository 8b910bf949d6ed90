---------------------------- MODULE RiskEvolution ----------------------------
(***************************************************************************)
(* The cascade from a forecast run to the basin's risk: the runner, the    *)
(* services for inundation evolution and for risk with their stores, and   *)
(* the state version that numbers what they publish.                       *)
(*                                                                         *)
(* All of it runs on the event loop and suspends nowhere, so the loop has  *)
(* one program under way: the steps it has yet to do. What it publishes    *)
(* starts the subscribers' programs, in order, when it is done. The server *)
(* may die before any step, and a publication raises when the event log    *)
(* cannot be written, which ends the program; tables of steps stand for    *)
(* the code between two writes. Areas are in 0.1 km2, stages in cm,        *)
(* probabilities in percent.                                               *)
(***************************************************************************)
EXTENDS Integers, Sequences

CONSTANTS
    Injected,      \* [area, prob] posted to the inject-test endpoint
    MaxRequests,   \* bound: forecast runs and injections
    MaxRestarts    \* bound: restarts of the server

ASSUME InjectedAssumption ==
    \A s \in Injected : DOMAIN s = {"area", "prob"} /\ s.area \in Nat /\ s.prob \in 0 .. 100
ASSUME BoundsAssumption == MaxRequests \in Nat /\ MaxRestarts \in Nat

VARIABLES
    version,    \* current_state_manager._state_version
    saved,      \* the version in current_state_snapshot.json, or Torn
    snapshots,  \* evolution_store._snapshots, reloaded from its files
    risks,      \* risk_store._history, reloaded from its files
    tasks,      \* handlers created and not run, in order
    program,    \* steps the loop has yet to do, <<>> when it is free
    work,       \* what they are about
    requests,   \* forecast runs and injections begun
    restarts,   \* restarts
    rewound,    \* history: a restart found the version's file torn or behind
    unannounced \* history: positions of snapshots whose publication raised

vars == <<version, saved, snapshots, risks, tasks, program, work, requests, restarts,
          rewound, unannounced>>
histories == <<rewound, unannounced>>

Torn == -1
FirstVersion == 1000
Versions == {n \in Nat : n >= FirstVersion}

(* A run's 0 is the service's own: the baseline it stores at startup. *)
Run == 0 .. MaxRequests
Flood == [run : Run, area : Nat, prob : 0 .. 100]
Snapshot == [flood : Flood, material : BOOLEAN]
Risk == [version : Nat, flood : Flood]
Baseline == [flood |-> [run |-> 0, area |-> 3800, prob |-> 72], material |-> FALSE]
Nothing == Baseline.flood

Evolution == <<"store", "bump", "save", "announce">>
Assessment == <<"bump", "save", "assess">>
Pipeline == <<"bump", "save", "hydrology",
              "store", "bump", "save", "announce",
              "bump", "save", "assess">>
Steps == {"bump", "save", "hydrology", "store", "announce", "assess"}

TypeOK ==
    /\ version \in Versions
    /\ saved \in Versions \cup {Torn}
    /\ snapshots \in Seq(Snapshot) /\ snapshots # <<>>
    /\ risks \in Seq(Risk)
    /\ tasks \in Seq([program : {Evolution, Assessment}, work : Flood])
    /\ program \in Seq(Steps)
    /\ work \in Flood
    /\ requests \in Run /\ restarts \in 0 .. MaxRestarts
    /\ rewound \in BOOLEAN /\ unannounced \subseteq 1 .. Len(snapshots)

Init ==
    /\ version = FirstVersion /\ saved = FirstVersion
    /\ snapshots = <<Baseline>> /\ risks = <<>>
    /\ tasks = <<>> /\ program = <<>> /\ work = Nothing
    /\ requests = 0 /\ restarts = 0 /\ rewound = FALSE /\ unannounced = {}

Free == program = <<>>
Step(s) == program # <<>> /\ Head(program) = s /\ program' = Tail(program)
-----------------------------------------------------------------------------
Begin(p, w) == Free /\ program' = p /\ work' = w

(* run_forecast_pipeline, whose hydrology and extent are constants. *)
RunStage == 2685
Request(p, area, prob) ==
    /\ requests < MaxRequests
    /\ requests' = requests + 1
    /\ Begin(p, [run |-> requests', area |-> area, prob |-> prob])
    /\ UNCHANGED <<version, saved, snapshots, risks, tasks, restarts, histories>>
RunForecast == Request(Pipeline, 4188, 88)
Inject(s) == Request(Evolution, s.area, s.prob)

(* Mutant: the loop runs the handler that was created last. *)
StartLatest ==
    /\ tasks # <<>>
    /\ Begin(tasks[Len(tasks)].program, tasks[Len(tasks)].work)
    /\ tasks' = SubSeq(tasks, 1, Len(tasks) - 1)
    /\ UNCHANGED <<version, saved, snapshots, risks, requests, restarts, histories>>
(* The loop runs the handler that was created first. *)
StartHandler ==
    /\ tasks # <<>>
    /\ Begin(Head(tasks).program, Head(tasks).work)
    /\ tasks' = Tail(tasks)
    /\ UNCHANGED <<version, saved, snapshots, risks, requests, restarts, histories>>

(* increment_state_version: the number first, then the file. *)
BumpVersion ==
    /\ Step("bump")
    /\ version' = version + 1
    /\ UNCHANGED <<saved, snapshots, risks, tasks, work, requests, restarts, histories>>

(* A failure is logged and the version counts all the same: before the file *)
(* is opened it leaves the old one, after that one emptied by mode "w".     *)
SaveSnapshot ==
    /\ Step("save")
    /\ saved' \in {version, saved, Torn}
    /\ UNCHANGED <<version, snapshots, risks, tasks, work, requests, restarts, histories>>

(* The extent _on_hydrology_updated computes from the stage it is told. *)
AtStage(run, stage) ==
    [run |-> run, area |-> 3800 + ((stage - 2600) * 45 + 5) \div 10,
     prob |-> IF 70 + ((stage - 2600) * 20) \div 100 < 95
              THEN 70 + ((stage - 2600) * 20) \div 100 ELSE 95]
PublishHydrology ==
    /\ Step("hydrology")
    /\ tasks' = Append(tasks, [program |-> Evolution, work |-> AtStage(work.run, RunStage)])
    /\ UNCHANGED <<version, saved, snapshots, risks, work, requests, restarts, histories>>

Current == snapshots[Len(snapshots)]
Distance(a, b) == IF a < b THEN b - a ELSE a - b
Material(new, old) == Distance(new.area, old.area) >= 20 \/ Distance(new.prob, old.prob) >= 3

(* process_new_inundation: the snapshot and its change against the latest. *)
StoreSnapshot ==
    /\ Step("store")
    /\ snapshots' = Append(snapshots, [flood |-> work,
                                       material |-> Material(work, Current.flood)])
    /\ UNCHANGED <<version, saved, risks, tasks, work, requests, restarts, histories>>

(* ... and the events of a material change, of which IMPACT_UPDATED has a   *)
(* subscriber, the risk service.                                            *)
AssessmentOf(flood) == [program |-> Assessment, work |-> flood]
Announce ==
    /\ Step("announce")
    /\ tasks' = IF Current.material THEN Append(tasks, AssessmentOf(work)) ELSE tasks
    /\ UNCHANGED <<version, saved, snapshots, risks, work, requests, restarts, histories>>

(* A publication that raises ends the program: one of the run's events up   *)
(* to HYDROLOGY_UPDATED, or one of a change's, up to IMPACT_UPDATED or      *)
(* after it. What a program publishes last has nothing left to end.         *)
PublicationFails ==
    /\ program # <<>> /\ program' = <<>>
    /\ \/ Head(program) = "hydrology" /\ UNCHANGED <<tasks, unannounced>>
       \/ /\ Head(program) = "announce" /\ Current.material
          /\ \/ unannounced' = unannounced \cup {Len(snapshots)} /\ UNCHANGED tasks
             \/ tasks' = Append(tasks, AssessmentOf(work)) /\ UNCHANGED unannounced
    /\ UNCHANGED <<version, saved, snapshots, risks, work, requests, restarts, rewound>>

(* Mutant: a risk that is what it was is not stored. *)
AssessChanges ==
    /\ Step("assess")
    /\ risks' = IF risks # <<>> /\ risks[Len(risks)].flood.area = work.area THEN risks
                ELSE Append(risks, [version |-> version, flood |-> work])
    /\ UNCHANGED <<version, saved, snapshots, tasks, work, requests, restarts, histories>>
(* evaluate_and_publish_risk: of the flood, population and assets count,    *)
(* which follow from its area.                                              *)
Assess ==
    /\ Step("assess")
    /\ risks' = Append(risks, [version |-> version, flood |-> work])
    /\ UNCHANGED <<version, saved, snapshots, tasks, work, requests, restarts, histories>>

(* Mutant: a file that cannot be read leaves the version 0. *)
RestoredFromZero == IF saved = Torn THEN 0 ELSE saved
(* Mutant: the file is written and never read. *)
RestoredAnew == FirstVersion
(* A file that cannot be read is logged, and counting starts anew. *)
Restored == IF saved = Torn THEN FirstVersion ELSE saved

(* The file is torn, or lacks a number that is not on its way to it. *)
Saving == program # <<>> /\ Head(program) = "save"
Behind == saved # version /\ ~(Saving /\ saved = version - 1)

(* The server dies, at any step, and starts again: the stores are reloaded  *)
(* and the evolution service stores its baseline on top.                    *)
Restart ==
    /\ restarts < MaxRestarts
    /\ restarts' = restarts + 1
    /\ version' = Restored
    /\ rewound' = (rewound \/ Behind)
    /\ snapshots' = Append(snapshots, Baseline)
    /\ program' = <<>> /\ work' = Nothing /\ tasks' = <<>>
    /\ UNCHANGED <<saved, risks, requests, unannounced>>

LoopStep ==
    \/ BumpVersion \/ SaveSnapshot \/ PublishHydrology \/ StoreSnapshot
    \/ Announce \/ PublicationFails \/ Assess \/ StartHandler

Next ==
    \/ RunForecast
    \/ \E s \in Injected : Inject(s)
    \/ LoopStep
    \/ Restart

(* The loop goes on with its program and then with its tasks. *)
Spec == Init /\ [][Next]_vars /\ WF_vars(LoopStep)
-----------------------------------------------------------------------------
(***************************************************************************)
(* Properties.                                                             *)
(***************************************************************************)

(* The versions of the risk history increase, through crashes between a     *)
(* version and what it numbers, as long as no restart finds the file of the *)
(* version torn or behind.                                                  *)
RiskVersionsIncrease ==
    ~rewound => \A i, j \in DOMAIN risks : i < j => risks[i].version < risks[j].version

(* A stale risk does not survive: once the loop is idle, the current risk   *)
(* is that of the last material change of the inundation or of what came    *)
(* after it, in whatever order runs, injections and handlers got there and  *)
(* whichever of them broke off, unless that change itself did not get out.  *)
SinceRestart(i) == \A k \in i .. Len(snapshots) : snapshots[k].flood.run # 0
LastMaterial(i) ==
    /\ snapshots[i].material /\ SinceRestart(i)
    /\ \A k \in i + 1 .. Len(snapshots) : ~snapshots[k].material
NoStaleRisk ==
    Free /\ tasks = <<>> =>
        \A i \in DOMAIN snapshots \ unannounced : LastMaterial(i) =>
            /\ risks # <<>>
            /\ \E k \in i .. Len(snapshots) : risks[Len(risks)].flood = snapshots[k].flood

Settled(i) ==
    \/ \E n \in DOMAIN risks : risks[n].flood = snapshots[i].flood
    \/ ~SinceRestart(i) \/ i \in unannounced

(* Every material change is assessed in the end, a recession as well as a   *)
(* surge, and whether or not it is still the latest: what is settled stays  *)
(* so, and again and again all are. Only a restart, or a publication of its *)
(* own that raises, keeps a change from its assessment.                     *)
ChangesAssessed ==
    []<>(\A i \in DOMAIN snapshots : snapshots[i].material => Settled(i))
=============================================================================
