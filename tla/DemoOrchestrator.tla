-------------------------- MODULE DemoOrchestrator --------------------------
(***************************************************************************)
(* services/demo: the 14 stage scenario, which writes the demo incident    *)
(* straight into the catalog of the alert engine while request threads     *)
(* evaluate the stage's observations and operators review incidents.       *)
(*                                                                         *)
(* The demo's operations hold its lock from start to end, so at most one   *)
(* is under way; the alert engine and the readers do not take that lock.   *)
(* An operation on a stage above GREEN writes the incident's status and    *)
(* then, as a second step, its severity ("writing" is the severity due).   *)
(***************************************************************************)
EXTENDS AlertEngine

CONSTANT DemoId
ASSUME DemoIdAssumption == DemoIds = {DemoId}

VARIABLES
    demo,      \* DemoState
    writing,   \* the severity the operation under way has yet to write
    sent,      \* history: the latest notification and what stood behind it
    signed     \* history: the operator acknowledged since the stage was entered

demoVars == <<demo, writing, sent, signed>>
allVars == <<vars, demo, writing, sent, signed>>

(* DEMO_SCENARIO_STAGES: rain, acc_6h, river stage, area, severity; the     *)
(* rise up to the first stage under review, and the flood.                  *)
RisingStages ==
    <<<<20, 85, 2120, 0, "GREEN">>,       <<125, 280, 2180, 0, "GREEN">>,
      <<385, 740, 2260, 42, "YELLOW">>,   <<480, 1260, 2345, 185, "YELLOW">>,
      <<420, 1680, 2460, 420, "ORANGE">>, <<320, 1950, 2555, 784, "ORANGE">>,
      <<260, 2120, 2615, 1120, "ORANGE">>>>
FloodStages ==
    <<<<185, 2250, 2650, 1582, "RED">>,   <<140, 2320, 2670, 1920, "RED">>,
      <<80, 2380, 2685, 2154, "RED">>,    <<45, 2400, 2680, 2140, "RED">>,
      <<20, 2405, 2665, 2080, "RED">>,    <<8, 2410, 2630, 1950, "ORANGE">>,
      <<0, 2410, 2480, 840, "YELLOW">>>>
Scenario == RisingStages \o FloodStages
Steps == 0 .. Len(Scenario) - 1

StageSeverity(s) == Scenario[s + 1][5]
ReviewRequired(s) == s \in 6 .. 10
NotificationDispatched(s) == s \in {11, 12}

(* What get_alerts evaluates while the demo is active. *)
Observed(s) ==
    LET stage == Scenario[s + 1] IN
    [rain |-> stage[1], rain24 |-> stage[2], stage |-> stage[3],
     area |-> stage[4], degraded |-> FALSE,
     prob |-> CASE stage[3] >= DangerStage -> 92
                [] stage[3] < DangerStage /\ stage[3] >= WarningStage -> 65
                [] OTHER -> 15]

NothingSent == [step |-> 0, signed |-> FALSE]

AtT0 == [active |-> FALSE, playing |-> FALSE, step |-> 0, acked |-> FALSE,
         notified |-> FALSE]

DemoInit ==
    /\ Init
    /\ demo = AtT0
    /\ writing = "none"
    /\ sent = NothingSent
    /\ signed = FALSE

Unlocked == writing = "none"
-----------------------------------------------------------------------------
(* The status _dispatch_stage_events moves the incident to. *)
(* Mutant: the gate looks at the stage's review flag only. *)
StageStatusByFlag(s, acked) ==
    CASE StageSeverity(s) = "YELLOW" -> "WATCH"
      [] StageSeverity(s) = "ORANGE" -> "CANDIDATE"
      [] StageSeverity(s) = "RED" -> IF acked \/ ~ReviewRequired(s)
                                     THEN "ACKNOWLEDGED"
                                     ELSE "PENDING_HUMAN_REVIEW"
StageStatus(s, acked) ==
    CASE StageSeverity(s) = "YELLOW" -> "WATCH"
      [] StageSeverity(s) = "ORANGE" -> "CANDIDATE"
      [] StageSeverity(s) = "RED" -> IF acked THEN "ACKNOWLEDGED"
                                     ELSE "PENDING_HUMAN_REVIEW"

(***************************************************************************)
(* transition_state: no validation; an incident not on file is filed RED.  *)
(***************************************************************************)
TransitionState(status) ==
    IF Found(DemoId)
    THEN /\ catalog' = [catalog EXCEPT
               ![DemoId].status = status,
               ![DemoId].review = IF status = "ACKNOWLEDGED" THEN FALSE ELSE @]
         /\ acknowledged' = acknowledged \cup
               (IF status = "ACKNOWLEDGED" THEN {DemoId} ELSE {})
         /\ UNCHANGED nextKey
    ELSE /\ nextKey < MaxIncidents
         /\ catalog' = [catalog EXCEPT ![DemoId] =
               NewIncident(nextKey, [SyntheticDraft EXCEPT !.status = status])]
         /\ nextKey' = nextKey + 1
         /\ UNCHANGED acknowledged

(* The alert part of a stage, up to the severity. *)
EnterStage(s, acked) ==
    /\ \/ /\ StageSeverity(s) = "GREEN"
          /\ catalog' = [catalog EXCEPT ![DemoId] = NoIncident]
          /\ writing' = "none"
          /\ UNCHANGED <<acknowledged, nextKey>>
       \/ /\ StageSeverity(s) # "GREEN"
          /\ TransitionState(StageStatus(s, acked))
          /\ writing' = StageSeverity(s)
    /\ signed' = FALSE
    /\ UNCHANGED <<fingerprints, op, reviews, decided, sent>>

StartDemo ==
    /\ Unlocked
    /\ demo' = [AtT0 EXCEPT !.active = TRUE, !.playing = TRUE]
    /\ EnterStage(0, FALSE)

(* A stage that requires review drops the acknowledgement on entry. *)
AckOnEntry(s) == demo.acked /\ ~ReviewRequired(s)

StepTo(s) ==
    /\ demo' = [demo EXCEPT !.step = s, !.acked = AckOnEntry(s)]
    /\ EnterStage(s, AckOnEntry(s))

(* Both steps run whether or not the demo was started. *)
StepForward == Unlocked /\ demo.step + 1 \in Steps /\ StepTo(demo.step + 1)

(* Mutant: stepping back keeps the acknowledgement. *)
StepBackwardKeepsAck ==
    /\ Unlocked /\ demo.step > 0
    /\ demo' = [demo EXCEPT !.step = @ - 1]
    /\ EnterStage(demo.step - 1, demo.acked)
StepBackward == Unlocked /\ demo.step > 0 /\ StepTo(demo.step - 1)

Dispatches(s) == /\ ReviewRequired(s) => demo.acked
                 /\ ReviewRequired(s) \/ NotificationDispatched(s)

Dispatch(s, isSigned) == [step |-> s, signed |-> isSigned]

(* The rest of the stage: the severity, then the notifications. *)
FinishStage ==
    /\ ~Unlocked
    /\ catalog' = [catalog EXCEPT ![DemoId].severity = writing]
    /\ IF Dispatches(demo.step)
       THEN /\ sent' = Dispatch(demo.step, signed)
            /\ demo' = [demo EXCEPT !.notified = TRUE]
       ELSE UNCHANGED <<sent, demo>>
    /\ writing' = "none"
    /\ UNCHANGED <<fingerprints, acknowledged, op, nextKey, reviews, decided,
                   signed>>

(* acknowledge_operator_gate notifies at any stage and leaves the incident. *)
AcknowledgeOperatorGate ==
    /\ Unlocked
    /\ demo' = [demo EXCEPT !.acked = TRUE, !.notified = TRUE]
    /\ sent' = Dispatch(demo.step, TRUE)
    /\ signed' = TRUE
    /\ decided' = decided \cup
          (IF Found(DemoId) THEN {catalog[DemoId].key} ELSE {})
    /\ UNCHANGED <<catalog, fingerprints, acknowledged, op, nextKey, reviews,
                   writing>>

ResetDemo ==
    /\ Unlocked
    /\ demo' = AtT0
    /\ catalog' = [catalog EXCEPT ![DemoId] = NoIncident]
    /\ signed' = FALSE
    /\ UNCHANGED <<fingerprints, acknowledged, op, nextKey, reviews, decided,
                   writing, sent>>

(* pause_demo and resume_demo: a flag; nothing advances the clock by itself. *)
SetPlaying(b) ==
    /\ Unlocked
    /\ demo.playing # b
    /\ demo' = [demo EXCEPT !.playing = b]
    /\ UNCHANGED <<vars, writing, sent, signed>>
-----------------------------------------------------------------------------
(* get_alerts evaluates the stage's observation while the demo is active. *)
EvaluateStage(t) ==
    /\ demo.active
    /\ Observed(demo.step) \in Conditions
    /\ Evaluate(t, Observed(demo.step))
    /\ UNCHANGED demoVars

StoreEvaluated(t) ==
    /\ StoreIncident(t)
    /\ UNCHANGED demoVars

(* The review endpoints, as in AlertEngine. *)
ReviewStep(t) ==
    /\ \/ \E id \in AlertIds, action \in OperatorAction :
             StartReview(t, id, "OPERATOR", action)
       \/ \E id \in AlertIds : RejectAcknowledge(t, id)
       \/ AcknowledgeAlert(t)
       \/ ApplyReview(t)
       \/ RecordReview(t)
    /\ UNCHANGED demoVars

DemoNext ==
    \/ StartDemo
    \/ StepForward
    \/ StepBackward
    \/ FinishStage
    \/ AcknowledgeOperatorGate
    \/ ResetDemo
    \/ \E b \in BOOLEAN : SetPlaying(b)
    \/ \E t \in Threads : EvaluateStage(t) \/ StoreEvaluated(t) \/ ReviewStep(t)

DemoSpec == DemoInit /\ [][DemoNext]_allVars
-----------------------------------------------------------------------------
(***************************************************************************)
(* Properties.                                                             *)
(***************************************************************************)

(* A stage that requires operator review is notified only on a signature   *)
(* given at that stage, in that visit: stepping back and forth past it     *)
(* never lets an acknowledgement of another stage release it.              *)
ReviewedStageSigned == ReviewRequired(sent.step) => sent.signed

(* The demo's incident is ACKNOWLEDGED or ESCALATED while RED only if its  *)
(* operator or a review decided on that incident, whatever reviews overlap *)
(* the stages' writes and whichever way the stages are walked.             *)
RedSignaturesReal ==
    Found(DemoId) /\ catalog[DemoId].severity = "RED"
                  /\ catalog[DemoId].status \in {"ACKNOWLEDGED", "ESCALATED"}
        => catalog[DemoId].key \in decided
=============================================================================
