----------------------------- MODULE AlertEngine -----------------------------
(***************************************************************************)
(* services/alerts/alert_engine.py under the HTTP handlers that call it.   *)
(*                                                                         *)
(* The handlers are plain functions run by a pool of threads and the       *)
(* engine takes no lock, so a call is split where another thread may come  *)
(* between a read of the catalog and the write that relies on it:          *)
(*   evaluate_alert        look up the fingerprint | store the incident    *)
(*   execute_review_action read and validate | write status | append audit *)
(*   acknowledge endpoint  failed review     | acknowledge_alert           *)
(* An incident is named by a key of its own, because a stored incident can *)
(* be replaced under the same alert id while a call still holds the old    *)
(* object. What a call writes to a replaced object is lost with it.        *)
(***************************************************************************)
EXTENDS AlertLifecycle, Sequences

CONSTANTS
    Threads,       \* request threads of the server
    Conditions,    \* inputs that get_alerts passes to evaluate_alert
    DemoIds,       \* ids beginning ALT-DEMO, which no evaluation produces
    MaxIncidents,  \* bound: incidents ever created
    MaxReviews,    \* bound: review calls ever made
    NoIncident

ASSUME ConditionsAssumption == Conditions \subseteq Condition
ASSUME IdsAssumption == DemoIds \cap Severity = {}
ASSUME BoundsAssumption == MaxIncidents \in Nat /\ MaxReviews \in Nat

VARIABLES
    catalog,       \* _incidents: alert id -> incident
    fingerprints,  \* _active_fingerprints; each maps to its severity's id
    acknowledged,  \* ids in acknowledged_alerts
    op,            \* thread -> the call it is in the middle of
    nextKey,       \* the next incident's key
    reviews,       \* the number of review calls so far
    decided        \* history: keys acknowledged or escalated by an operator

vars == <<catalog, fingerprints, acknowledged, op, nextKey, reviews, decided>>

AlertIds == Severity \cup DemoIds
SynthFp == <<"SYNTH", 0>>
Fingerprints == (Severity \X Nat) \cup {SynthFp}
AuditRecord == [prev : LifecycleState, new : LifecycleState]

(* An incident without its key: what evaluate_alert has computed. *)
Draft == [severity : Severity, status : LifecycleState, review : BOOLEAN,
          fp : Fingerprints]

Incident == [key : Nat, severity : Severity, status : LifecycleState,
             review : BOOLEAN, fp : Fingerprints,
             fv : {"NOT_REQUESTED", "REQUIRED", "RECEIVED"},
             audit : Seq(AuditRecord)]

ASSUME NoIncidentAssumption == NoIncident \notin Incident

Idle == [phase |-> "idle"]
Creating == [phase : {"create"}, draft : Draft]
Reviewing == [phase : {"apply", "record"}, id : AlertIds, key : Nat,
              action : OperatorAction, prev : LifecycleState]
FallingBack == [phase : {"fallback"}, id : AlertIds]

TypeOK ==
    /\ catalog \in [AlertIds -> Incident \cup {NoIncident}]
    /\ fingerprints \subseteq Fingerprints
    /\ acknowledged \subseteq AlertIds
    /\ op \in [Threads -> {Idle} \cup Creating \cup Reviewing \cup FallingBack]
    /\ nextKey \in Nat
    /\ reviews \in Nat
    /\ decided \subseteq Nat

Init ==
    /\ catalog = [id \in AlertIds |-> NoIncident]
    /\ fingerprints = {}
    /\ acknowledged = {}
    /\ op = [t \in Threads |-> Idle]
    /\ nextKey = 0
    /\ reviews = 0
    /\ decided = {}

Found(id) == catalog[id] # NoIncident
NewIncident(key, d) ==
    [key |-> key, severity |-> d.severity, status |-> d.status,
     review |-> d.review, fp |-> d.fp, fv |-> "NOT_REQUESTED", audit |-> <<>>]

(* Mutant: a past acknowledgement is looked up before the review flag. *)
InitStatusAckFirst(c) ==
    CASE AlertId(c) \in acknowledged -> "ACKNOWLEDGED"
      [] AlertId(c) \notin acknowledged /\ RequiresReview(c)
             -> "PENDING_HUMAN_REVIEW"
      [] OTHER -> "WATCH"
InitStatus(c) ==
    CASE RequiresReview(c)          -> "PENDING_HUMAN_REVIEW"
      [] ~RequiresReview(c) /\ AlertId(c) \in acknowledged -> "ACKNOWLEDGED"
      [] OTHER                      -> "WATCH"
-----------------------------------------------------------------------------
Known(c) == Fingerprint(c) \in fingerprints /\ Found(AlertId(c))

(***************************************************************************)
(* evaluate_alert. A known fingerprint whose alert is on file refreshes    *)
(* scores and times only, which no property tells apart: only the miss is  *)
(* a step. _severity_history is written and never read: it is left out.    *)
(***************************************************************************)
Evaluate(t, c) ==
    /\ op[t] = Idle
    /\ ~Known(c)
    /\ op' = [op EXCEPT ![t] =
                 [phase |-> "create",
                  draft |-> [severity |-> RawSeverity(c),
                             status |-> InitStatus(c),
                             review |-> RequiresReview(c),
                             fp |-> Fingerprint(c)]]]
    /\ UNCHANGED <<catalog, fingerprints, acknowledged, nextKey, reviews, decided>>

(* The draft is stored under its severity's id, replacing what was there. *)
StoreIncident(t) ==
    /\ op[t].phase = "create"
    /\ nextKey < MaxIncidents
    /\ LET d == op[t].draft IN
       /\ catalog' = [catalog EXCEPT ![d.severity] = NewIncident(nextKey, d)]
       /\ fingerprints' = fingerprints \cup {d.fp}
    /\ nextKey' = nextKey + 1
    /\ op' = [op EXCEPT ![t] = Idle]
    /\ UNCHANGED <<acknowledged, reviews, decided>>
-----------------------------------------------------------------------------
Review(phase, id, inc, action) ==
    [phase |-> phase, id |-> id, key |-> inc.key, action |-> action,
     prev |-> inc.status]

(* An incident nobody raised: a review of an unknown id files a RED one. *)
SyntheticDraft ==
    [severity |-> "RED", status |-> "PENDING_HUMAN_REVIEW", review |-> FALSE,
     fp |-> SynthFp]

(* The permission check, the lookup and the validation of a review. *)
StartReview(t, id, role, action) ==
    /\ op[t] = Idle
    /\ action \in ALLOWED_PERMISSIONS[role]
    /\ reviews < MaxReviews
    /\ reviews' = reviews + 1
    /\ LET inc == IF Found(id) THEN catalog[id]
                  ELSE NewIncident(nextKey, SyntheticDraft)
       IN  /\ ReviewAllowed(action, inc.status)
           /\ catalog' = [catalog EXCEPT ![id] =
                 [inc EXCEPT !.fv = FieldVerification(action, inc.fv)]]
           /\ op' = [op EXCEPT ![t] = Review("apply", id, inc, action)]
    /\ \/ Found(id) /\ UNCHANGED nextKey
       \/ ~Found(id) /\ nextKey < MaxIncidents /\ nextKey' = nextKey + 1
    /\ UNCHANGED <<fingerprints, acknowledged, decided>>

(***************************************************************************)
(* A review that fails validation raises. Every endpoint but one reports   *)
(* the error and changes nothing; the acknowledge endpoint goes on to      *)
(* acknowledge_alert, which validates nothing.                             *)
(***************************************************************************)
RejectAcknowledge(t, id) ==
    /\ op[t] = Idle
    /\ reviews < MaxReviews
    /\ reviews' = reviews + 1
    /\ Found(id)
    /\ ~ReviewAllowed("ACKNOWLEDGE", catalog[id].status)
    /\ op' = [op EXCEPT ![t] = [phase |-> "fallback", id |-> id]]
    /\ UNCHANGED <<catalog, fingerprints, acknowledged, nextKey, decided>>

AcknowledgeAlert(t) ==
    /\ op[t].phase = "fallback"
    /\ LET id == op[t].id IN
       /\ acknowledged' = acknowledged \cup {id}
       /\ \/ /\ Found(id)
             /\ catalog' = [catalog EXCEPT ![id].status = "ACKNOWLEDGED",
                                           ![id].review = FALSE]
             /\ decided' = decided \cup {catalog[id].key}
          \/ ~Found(id) /\ UNCHANGED <<catalog, decided>>
    /\ op' = [op EXCEPT ![t] = Idle]
    /\ UNCHANGED <<fingerprints, nextKey, reviews>>

(* The object a call holds is still the one on file. *)
OnFile(o) == Found(o.id) /\ catalog[o.id].key = o.key

Applied(inc, o) ==
    [inc EXCEPT !.status = TargetState(o.action, o.prev),
                !.review = IF o.action = "ACKNOWLEDGE" THEN FALSE ELSE @,
                !.severity = IF o.action = "DOWNGRADE"
                             THEN DowngradedSeverity(@) ELSE @]

ApplyReview(t) ==
    /\ op[t].phase = "apply"
    /\ LET o == op[t] IN
       /\ \/ OnFile(o) /\ catalog' = [catalog EXCEPT ![o.id] = Applied(@, o)]
          \/ ~OnFile(o) /\ UNCHANGED catalog
       /\ acknowledged' = acknowledged \cup
             (IF o.action = "ACKNOWLEDGE" THEN {o.id} ELSE {})
       /\ decided' = decided \cup
             (IF o.action \in {"ACKNOWLEDGE", "ESCALATE"} THEN {o.key} ELSE {})
       /\ op' = [op EXCEPT ![t] = [o EXCEPT !.phase = "record"]]
    /\ UNCHANGED <<fingerprints, nextKey, reviews>>

(* Mutant: the two states of the record are swapped. *)
AuditOfSwapped(o) == [prev |-> TargetState(o.action, o.prev), new |-> o.prev]
AuditOf(o) == [prev |-> o.prev, new |-> TargetState(o.action, o.prev)]

RecordReview(t) ==
    /\ op[t].phase = "record"
    /\ LET o == op[t] IN
       \/ /\ OnFile(o)
          /\ catalog' = [catalog EXCEPT ![o.id].audit = Append(@, AuditOf(o))]
       \/ ~OnFile(o) /\ UNCHANGED catalog
    /\ op' = [op EXCEPT ![t] = Idle]
    /\ UNCHANGED <<fingerprints, acknowledged, nextKey, reviews, decided>>

(***************************************************************************)
(* clear_incidents("ALT-DEMO"), which the demo calls at reset and in calm  *)
(* stages: the incidents go, fingerprints and acknowledgements stay.       *)
(***************************************************************************)
ClearIncidents ==
    /\ \E id \in DemoIds : Found(id)
    /\ catalog' = [id \in AlertIds |-> IF id \in DemoIds THEN NoIncident
                                      ELSE catalog[id]]
    /\ UNCHANGED <<fingerprints, acknowledged, op, nextKey, reviews, decided>>

Next ==
    \/ ClearIncidents
    \/ \E t \in Threads :
          \/ \E c \in Conditions : Evaluate(t, c)
          \/ StoreIncident(t)
          \/ \E id \in AlertIds, role \in UserRole, action \in OperatorAction :
                StartReview(t, id, role, action)
          \/ \E id \in AlertIds : RejectAcknowledge(t, id)
          \/ AcknowledgeAlert(t)
          \/ ApplyReview(t)
          \/ RecordReview(t)

Spec == Init /\ [][Next]_vars
-----------------------------------------------------------------------------
(***************************************************************************)
(* Properties.                                                             *)
(***************************************************************************)

(* The human review gate of get_public_alerts_current: a RED incident is   *)
(* on the public feed only if an operator acknowledged or escalated that   *)
(* very incident, not an earlier one under the same alert id.              *)
ReviewGate ==
    \A id \in AlertIds :
        Found(id) /\ catalog[id].severity = "RED" /\ ShownToPublic(catalog[id])
            => catalog[id].key \in decided

(* A state only an operator can choose is in the incident's audit history, *)
(* or the call that chose it is about to append it: threads that overtake  *)
(* each other never leave an escalation or a dismissal without a record.   *)
ClosedIsAudited ==
    \A id \in AlertIds : LET inc == catalog[id] IN
        Found(id) /\ inc.status \in {"ESCALATED", "DOWNGRADED", "DISMISSED",
                                     "SUPPRESSED"}
            => \/ \E i \in DOMAIN inc.audit : inc.audit[i].new = inc.status
               \/ \E t \in Threads : /\ op[t].phase = "record"
                                     /\ op[t].id = id
                                     /\ op[t].key = inc.key
                                     /\ AuditOf(op[t]).new = inc.status

(* The engine under its handlers implements the gate: in no interleaving   *)
(* does a lookup, a stale review or a replaced incident put a RED alert on *)
(* the feed that HumanReviewGate would not show, or unmake a decision.     *)
ShownRed ==
    {catalog[id].key : id \in {i \in AlertIds :
        /\ Found(i)
        /\ catalog[i].severity = "RED"
        /\ ShownToPublic(catalog[i])}}
Gate == INSTANCE HumanReviewGate WITH shown <- ShownRed
ImplementsGate == Gate!Spec
=============================================================================
