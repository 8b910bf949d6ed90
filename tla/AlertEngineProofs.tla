-------------------------- MODULE AlertEngineProofs --------------------------
(***************************************************************************)
(* The alert engine, for any threads, conditions and ids and any number of *)
(* incidents and reviews: its types, its human review gate, the refinement *)
(* of HumanReviewGate and the audit of what operators choose. Then the     *)
(* same engine under the demo, which writes its incident past the gate.    *)
(***************************************************************************)
EXTENDS DemoOrchestrator, SequenceTheorems, TLAPS

(***************************************************************************)
(* ReviewGate is not inductive. It also takes that a draft of RED waits    *)
(* for review, that keys are used once, and that a status which a field    *)
(* verification read, and will write back, was not public for want of a    *)
(* decision.                                                               *)
(***************************************************************************)
KeysUsedOnce ==
    /\ \A id \in AlertIds : Found(id) => catalog[id].key < nextKey
    /\ \A t \in Threads : op[t].phase \in {"apply", "record"}
                              => op[t].key < nextKey

RedDraftsWait ==
    \A t \in Threads :
        op[t].phase = "create" /\ op[t].draft.severity = "RED"
            => op[t].draft.status = "PENDING_HUMAN_REVIEW"

RedShownDecided ==
    \A id \in AlertIds :
        /\ Found(id)
        /\ catalog[id].severity = "RED"
        /\ catalog[id].status \in PublicStates
        => catalog[id].key \in decided

StaleReadsDecided ==
    \A t \in Threads :
        /\ op[t].phase = "apply"
        /\ OnFile(op[t])
        /\ catalog[op[t].id].severity = "RED"
        /\ op[t].prev \in PublicStates
        => op[t].key \in decided

IInv == TypeOK /\ KeysUsedOnce /\ RedDraftsWait /\ RedShownDecided
               /\ StaleReadsDecided
-----------------------------------------------------------------------------
(* What the severity rules and the transition table return. *)
LEMMA ConditionTypes ==
    ASSUME NEW c \in Conditions
    PROVE  /\ RawSeverity(c) \in Severity
           /\ RequiresReview(c) \in BOOLEAN
           /\ Fingerprint(c) \in Fingerprints
           /\ InitStatus(c) \in LifecycleState
<1>1. c \in Condition
  BY ConditionsAssumption
<1>2. RawSeverity(c) \in Severity
  BY DEF RawSeverity, Severity
<1>3. RequiresReview(c) \in BOOLEAN
  BY <1>1 DEF RequiresReview, Extreme, Condition
<1>4. c.stage \div 10 \in Nat
  BY <1>1 DEF Condition
<1>5. Fingerprint(c) \in Fingerprints
  BY <1>2, <1>4 DEF Fingerprint, Fingerprints
<1>6. InitStatus(c) \in LifecycleState
  BY <1>3 DEF InitStatus, LifecycleState
<1>. QED
  BY <1>2, <1>3, <1>5, <1>6

(* An evaluation that comes out RED always asks for human review. *)
LEMMA RedRequiresReview ==
    ASSUME NEW c \in Conditions, RawSeverity(c) = "RED"
    PROVE  InitStatus(c) = "PENDING_HUMAN_REVIEW"
<1>1. Extreme(c)
  BY DEF RawSeverity
<1>. QED
  BY <1>1 DEF InitStatus, RequiresReview

LEMMA TargetTypes ==
    ASSUME NEW a \in OperatorAction, NEW p \in LifecycleState
    PROVE  TargetState(a, p) \in LifecycleState
BY DEF TargetState, OperatorAction, LifecycleState

(* A review leads to a public state by a decision or by writing one back. *)
LEMMA PublicTargets ==
    ASSUME NEW a \in OperatorAction, NEW p \in LifecycleState,
           TargetState(a, p) \in PublicStates
    PROVE  a \in {"ACKNOWLEDGE", "ESCALATE"} \/ p \in PublicStates
BY DEF TargetState, OperatorAction, PublicStates

(* The severity of an incident never becomes RED by a review. *)
LEMMA AppliedFields ==
    ASSUME NEW inc \in Incident, NEW o \in Reviewing
    PROVE  /\ Applied(inc, o) \in Incident
           /\ Applied(inc, o).key = inc.key
           /\ Applied(inc, o).status = TargetState(o.action, o.prev)
           /\ Applied(inc, o).severity = "RED" => inc.severity = "RED"
<1>1. TargetState(o.action, o.prev) \in LifecycleState
  BY TargetTypes DEF Reviewing
<1>. QED
  BY <1>1 DEF Applied, Incident, DowngradedSeverity, Severity

LEMMA NewIncidentFields ==
    ASSUME NEW k \in Nat, NEW d \in Draft
    PROVE  /\ NewIncident(k, d) \in Incident
           /\ NewIncident(k, d).key = k
           /\ NewIncident(k, d).severity = d.severity
           /\ NewIncident(k, d).status = d.status
BY DEF NewIncident, Incident, Draft

LEMMA SyntheticIsDraft == SyntheticDraft \in Draft
BY DEF SyntheticDraft, Draft, Severity, LifecycleState, Fingerprints
-----------------------------------------------------------------------------
LEMMA InitInv == Init => IInv
BY DEF Init, IInv, TypeOK, KeysUsedOnce, RedDraftsWait, RedShownDecided,
       StaleReadsDecided, Found, Idle

(***************************************************************************)
(* One lemma per action: it preserves the inductive invariant.             *)
(***************************************************************************)
LEMMA EvaluateInv ==
    ASSUME IInv, NEW t \in Threads, NEW c \in Conditions, Evaluate(t, c)
    PROVE  IInv'
<1>. DEFINE d == [severity |-> RawSeverity(c), status |-> InitStatus(c),
                  review |-> RequiresReview(c), fp |-> Fingerprint(c)]
<1>1. d \in Draft
  BY ConditionTypes DEF Draft
<1>2. /\ op' = [op EXCEPT ![t] = [phase |-> "create", draft |-> d]]
      /\ UNCHANGED <<catalog, fingerprints, acknowledged, nextKey, reviews, decided>>
  BY DEF Evaluate
<1>3. d.severity = "RED" => d.status = "PENDING_HUMAN_REVIEW"
  BY RedRequiresReview
<1>. HIDE DEF d
<1>4. TypeOK'
  BY <1>1, <1>2 DEF IInv, TypeOK, Creating
<1>5. KeysUsedOnce'
  BY <1>2 DEF IInv, TypeOK, KeysUsedOnce, Found
<1>6. RedDraftsWait'
  BY <1>2, <1>3 DEF IInv, TypeOK, RedDraftsWait
<1>7. RedShownDecided'
  BY <1>2 DEF IInv, RedShownDecided, Found
<1>8. StaleReadsDecided'
  BY <1>2 DEF IInv, TypeOK, StaleReadsDecided, OnFile, Found
<1>. QED
  BY <1>4, <1>5, <1>6, <1>7, <1>8 DEF IInv

LEMMA StoreIncidentInv ==
    ASSUME IInv, NEW t \in Threads, StoreIncident(t)
    PROVE  IInv'
<1>. DEFINE d == op[t].draft
            inc == NewIncident(nextKey, d)
<1>1. d \in Draft /\ nextKey \in Nat
  BY DEF IInv, TypeOK, StoreIncident, Idle, Creating, Reviewing, FallingBack
<1>2. /\ inc \in Incident
      /\ inc.key = nextKey
      /\ inc.severity = "RED" => inc.status = "PENDING_HUMAN_REVIEW"
      /\ d.severity \in AlertIds
      /\ d.fp \in Fingerprints
  BY <1>1, NewIncidentFields DEF IInv, RedDraftsWait, StoreIncident, Draft, AlertIds
<1>3. /\ catalog' = [catalog EXCEPT ![d.severity] = inc]
      /\ fingerprints' = fingerprints \cup {d.fp}
      /\ nextKey' = nextKey + 1
      /\ op' = [op EXCEPT ![t] = Idle]
      /\ UNCHANGED <<acknowledged, reviews, decided>>
  BY DEF StoreIncident
<1>. HIDE DEF d, inc
<1>4. TypeOK'
  BY <1>1, <1>2, <1>3 DEF IInv, TypeOK
<1>5. KeysUsedOnce'
  BY <1>1, <1>2, <1>3
     DEF IInv, TypeOK, KeysUsedOnce, Found, Idle, Reviewing, Creating, FallingBack, Incident
<1>6. RedDraftsWait'
  BY <1>3 DEF IInv, TypeOK, RedDraftsWait, Idle
<1>7. RedShownDecided'
  BY <1>2, <1>3 DEF IInv, TypeOK, RedShownDecided, Found, PublicStates
<1>8. StaleReadsDecided'
  BY <1>1, <1>2, <1>3
     DEF IInv, TypeOK, KeysUsedOnce, StaleReadsDecided, OnFile, Found, Idle
<1>. QED
  BY <1>4, <1>5, <1>6, <1>7, <1>8 DEF IInv

LEMMA StartReviewInv ==
    ASSUME IInv, NEW t \in Threads, NEW id \in AlertIds, NEW role \in UserRole,
           NEW a \in OperatorAction, StartReview(t, id, role, a)
    PROVE  IInv'
<1>. DEFINE inc == IF Found(id) THEN catalog[id]
                   ELSE NewIncident(nextKey, SyntheticDraft)
            new == [inc EXCEPT !.fv = FieldVerification(a, inc.fv)]
            o == Review("apply", id, inc, a)
<1>1. /\ inc \in Incident
      /\ Found(id) => inc = catalog[id]
      /\ ~Found(id) => inc.key = nextKey /\ inc.status = "PENDING_HUMAN_REVIEW"
  BY NewIncidentFields, SyntheticIsDraft DEF IInv, TypeOK, Found, SyntheticDraft
<1>2. /\ catalog' = [catalog EXCEPT ![id] = new]
      /\ op' = [op EXCEPT ![t] = o]
      /\ \/ Found(id) /\ nextKey' = nextKey
         \/ ~Found(id) /\ nextKey' = nextKey + 1
      /\ reviews' = reviews + 1
      /\ UNCHANGED <<fingerprints, acknowledged, decided>>
  BY DEF StartReview
<1>. HIDE DEF inc
<1>3. FieldVerification(a, inc.fv) \in {"NOT_REQUESTED", "REQUIRED", "RECEIVED"}
  BY <1>1 DEF FieldVerification, Incident
<1>4. /\ new \in Incident
      /\ new.key = inc.key /\ new.severity = inc.severity
      /\ new.status = inc.status
  BY <1>1, <1>3 DEF Incident
<1>5. /\ o \in Reviewing /\ o.phase = "apply" /\ o.id = id /\ o.key = inc.key
      /\ o.prev = inc.status
  BY <1>1 DEF Review, Reviewing, Incident
<1>. HIDE DEF new, o
<1>6. TypeOK'
  BY <1>2, <1>4, <1>5 DEF IInv, TypeOK
<1>7. inc.key < nextKey' /\ nextKey \in Nat /\ nextKey <= nextKey'
  BY <1>1, <1>2 DEF IInv, TypeOK, KeysUsedOnce
<1>8. KeysUsedOnce'
  <2>1. ASSUME NEW i \in AlertIds, Found(i)'
        PROVE  catalog'[i].key < nextKey'
    <3>1. CASE i = id
      BY <3>1, <1>2, <1>4, <1>7 DEF IInv, TypeOK
    <3>2. CASE i # id
      BY <3>2, <2>1, <1>2, <1>7 DEF IInv, TypeOK, KeysUsedOnce, Found, Incident
    <3>. QED BY <3>1, <3>2
  <2>2. ASSUME NEW u \in Threads, op'[u].phase \in {"apply", "record"}
        PROVE  op'[u].key < nextKey'
    <3>1. CASE u = t
      BY <3>1, <1>2, <1>5, <1>7 DEF IInv, TypeOK
    <3>2. CASE u # t
      BY <3>2, <2>2, <1>2, <1>7
         DEF IInv, TypeOK, KeysUsedOnce, Idle, Creating, FallingBack, Reviewing
    <3>. QED BY <3>1, <3>2
  <2>. QED BY <2>1, <2>2 DEF KeysUsedOnce
<1>9. RedDraftsWait'
  BY <1>2, <1>5 DEF IInv, TypeOK, RedDraftsWait
<1>10. RedShownDecided'
  BY <1>1, <1>2, <1>4 DEF IInv, TypeOK, RedShownDecided, Found, PublicStates
<1>11. StaleReadsDecided'
  <2>. SUFFICES ASSUME NEW u \in Threads,
                       op'[u].phase = "apply", OnFile(op[u])',
                       catalog'[op'[u].id].severity = "RED",
                       op'[u].prev \in PublicStates
                PROVE  op'[u].key \in decided
    BY <1>2 DEF StaleReadsDecided
  <2>1. CASE u = t
    BY <2>1, <1>1, <1>2, <1>4, <1>5
       DEF IInv, TypeOK, RedShownDecided, OnFile, Found, PublicStates
  <2>2. CASE u # t
    <3>1. op'[u] = op[u] /\ op[u] \in Reviewing
      BY <2>2, <1>2 DEF IInv, TypeOK, Idle, Creating, FallingBack, Reviewing
    <3>2. CASE op[u].id = id
      <4>1. catalog'[id].key = op[u].key /\ op[u].key < nextKey
        BY <3>1, <3>2 DEF IInv, KeysUsedOnce, OnFile
      <4>2. Found(id)
        BY <4>1, <1>1, <1>2, <1>4 DEF IInv, TypeOK
      <4>. QED
        BY <3>1, <3>2, <4>1, <4>2, <1>1, <1>2, <1>4
           DEF IInv, TypeOK, StaleReadsDecided, OnFile, Found
    <3>3. CASE op[u].id # id
      BY <3>1, <3>3, <1>2 DEF IInv, TypeOK, StaleReadsDecided, OnFile, Found, Reviewing
    <3>. QED BY <3>2, <3>3
  <2>. QED BY <2>1, <2>2
<1>. QED
  BY <1>6, <1>8, <1>9, <1>10, <1>11 DEF IInv

LEMMA RejectAcknowledgeInv ==
    ASSUME IInv, NEW t \in Threads, NEW id \in AlertIds, RejectAcknowledge(t, id)
    PROVE  IInv'
<1>. DEFINE o == [phase |-> "fallback", id |-> id]
<1>1. /\ op' = [op EXCEPT ![t] = o]
      /\ reviews' = reviews + 1
      /\ UNCHANGED <<catalog, fingerprints, acknowledged, nextKey, decided>>
  BY DEF RejectAcknowledge
<1>2. o \in FallingBack /\ o.phase = "fallback"
  BY DEF FallingBack
<1>. HIDE DEF o
<1>3. TypeOK'
  BY <1>1, <1>2 DEF IInv, TypeOK
<1>4. KeysUsedOnce' /\ RedDraftsWait' /\ RedShownDecided' /\ StaleReadsDecided'
  BY <1>1, <1>2
     DEF IInv, TypeOK, KeysUsedOnce, RedDraftsWait, RedShownDecided,
         StaleReadsDecided, OnFile, Found
<1>. QED
  BY <1>3, <1>4 DEF IInv

(* What a call still holds stays covered when no incident becomes RED. *)
LEMMA StaleReadsStep ==
    ASSUME IInv, NEW t \in Threads,
           \A u \in Threads : u # t => op'[u] = op[u],
           op'[t].phase # "apply",
           decided \subseteq decided',
           \A i \in AlertIds : Found(i)' /\ catalog'[i].severity = "RED"
               => /\ Found(i)
                  /\ catalog[i].key = catalog'[i].key
                  /\ catalog[i].severity = "RED"
    PROVE  StaleReadsDecided'
<1>. SUFFICES ASSUME NEW u \in Threads, op'[u].phase = "apply", OnFile(op[u])',
                     catalog'[op'[u].id].severity = "RED",
                     op'[u].prev \in PublicStates
              PROVE  op'[u].key \in decided'
  BY DEF StaleReadsDecided
<1>1. op'[u] = op[u] /\ op[u] \in Reviewing /\ op[u].id \in AlertIds
  BY DEF IInv, TypeOK, Idle, Creating, Reviewing, FallingBack
<1>2. Found(op[u].id)' /\ catalog'[op[u].id].key = op[u].key
  BY <1>1 DEF OnFile, Found
<1>3. OnFile(op[u]) /\ catalog[op[u].id].severity = "RED"
  BY <1>1, <1>2 DEF OnFile
<1>. QED
  BY <1>1, <1>3 DEF IInv, StaleReadsDecided

LEMMA AcknowledgeAlertInv ==
    ASSUME IInv, NEW t \in Threads, AcknowledgeAlert(t)
    PROVE  IInv'
<1>. DEFINE id == op[t].id
            new == [catalog[id] EXCEPT !.status = "ACKNOWLEDGED", !.review = FALSE]
<1>1. id \in AlertIds
  BY DEF IInv, TypeOK, AcknowledgeAlert, Idle, Creating, Reviewing, FallingBack
<1>2. /\ acknowledged' = acknowledged \cup {id}
      /\ \/ /\ Found(id)
            /\ catalog' = [catalog EXCEPT ![id] = new]
            /\ decided' = decided \cup {catalog[id].key}
         \/ UNCHANGED <<catalog, decided>>
      /\ op' = [op EXCEPT ![t] = Idle]
      /\ UNCHANGED <<fingerprints, nextKey, reviews>>
  BY <1>1 DEF AcknowledgeAlert, IInv, TypeOK
<1>3. Found(id) => /\ catalog[id] \in Incident
                   /\ new \in Incident
                   /\ new.key = catalog[id].key
                   /\ new.severity = catalog[id].severity
  BY <1>1 DEF IInv, TypeOK, Found, Incident, LifecycleState
<1>. HIDE DEF new, id
<1>4. TypeOK'
  BY <1>1, <1>2, <1>3 DEF IInv, TypeOK, Incident
<1>5. KeysUsedOnce'
  BY <1>1, <1>2, <1>3 DEF IInv, TypeOK, KeysUsedOnce, Found, Idle
<1>6. RedDraftsWait'
  BY <1>2 DEF IInv, TypeOK, RedDraftsWait, Idle
<1>7. RedShownDecided'
  BY <1>1, <1>2, <1>3 DEF IInv, TypeOK, RedShownDecided, Found
<1>8. \A i \in AlertIds : Found(i)' /\ catalog'[i].severity = "RED"
          => /\ Found(i)
             /\ catalog[i].key = catalog'[i].key
             /\ catalog[i].severity = "RED"
  BY <1>1, <1>2, <1>3 DEF IInv, TypeOK, Found
<1>9. StaleReadsDecided'
  BY <1>2, <1>8, StaleReadsStep DEF IInv, TypeOK, Idle
<1>. QED
  BY <1>4, <1>5, <1>6, <1>7, <1>9 DEF IInv

(***************************************************************************)
(* The step that matters: a review writes a status computed from an old    *)
(* read. If that puts a RED incident on the feed, either the action is a   *)
(* decision, recorded in the same step, or the status read was public.     *)
(***************************************************************************)
LEMMA ApplyReviewInv ==
    ASSUME IInv, NEW t \in Threads, ApplyReview(t)
    PROVE  IInv'
<1>. DEFINE o == op[t]
            done == [o EXCEPT !.phase = "record"]
            new == Applied(catalog[o.id], o)
<1>1. o \in Reviewing /\ o.phase = "apply" /\ o.id \in AlertIds
  BY DEF IInv, TypeOK, ApplyReview, Idle, Creating, Reviewing, FallingBack
<1>2. /\ \/ OnFile(o) /\ catalog' = [catalog EXCEPT ![o.id] = new]
         \/ ~OnFile(o) /\ catalog' = catalog
      /\ acknowledged \subseteq acknowledged'
      /\ acknowledged' \subseteq acknowledged \cup {o.id}
      /\ decided \subseteq decided' /\ decided' \subseteq decided \cup {o.key}
      /\ o.action \in {"ACKNOWLEDGE", "ESCALATE"} => o.key \in decided'
      /\ op' = [op EXCEPT ![t] = done]
      /\ UNCHANGED <<fingerprints, nextKey, reviews>>
  BY DEF ApplyReview
<1>3. done \in Reviewing /\ done.phase = "record" /\ done.key = o.key
  BY <1>1 DEF Reviewing
<1>4. OnFile(o) => /\ catalog[o.id] \in Incident
                   /\ catalog[o.id].key = o.key
                   /\ new \in Incident
                   /\ new.key = o.key
                   /\ new.status = TargetState(o.action, o.prev)
                   /\ new.severity = "RED" => catalog[o.id].severity = "RED"
  BY <1>1, AppliedFields DEF IInv, TypeOK, OnFile, Found
<1>. HIDE DEF new, done
<1>5. TypeOK'
  BY <1>1, <1>2, <1>3, <1>4 DEF IInv, TypeOK, Reviewing
<1>6. KeysUsedOnce'
  BY <1>1, <1>2, <1>3, <1>4 DEF IInv, TypeOK, KeysUsedOnce, OnFile, Found
<1>7. RedDraftsWait'
  BY <1>2, <1>3 DEF IInv, TypeOK, RedDraftsWait
<1>8. RedShownDecided'
  <2>. SUFFICES ASSUME NEW i \in AlertIds, Found(i)',
                       catalog'[i].severity = "RED",
                       catalog'[i].status \in PublicStates
                PROVE  catalog'[i].key \in decided'
    BY DEF RedShownDecided
  <2>1. CASE i = o.id /\ OnFile(o)
    <3>1. TargetState(o.action, o.prev) \in PublicStates
      BY <2>1, <1>2, <1>4 DEF IInv, TypeOK
    <3>2. o.action \in {"ACKNOWLEDGE", "ESCALATE"} \/ o.prev \in PublicStates
      BY <3>1, <1>1, PublicTargets DEF Reviewing
    <3>3. catalog'[i].key = o.key /\ catalog[o.id].severity = "RED"
      BY <2>1, <1>2, <1>4 DEF IInv, TypeOK
    <3>. QED
      BY <3>2, <3>3, <2>1, <1>1, <1>2 DEF IInv, StaleReadsDecided
  <2>2. CASE ~(i = o.id /\ OnFile(o))
    BY <2>2, <1>1, <1>2 DEF IInv, TypeOK, RedShownDecided, Found
  <2>. QED BY <2>1, <2>2
<1>9. \A i \in AlertIds : Found(i)' /\ catalog'[i].severity = "RED"
          => /\ Found(i)
             /\ catalog[i].key = catalog'[i].key
             /\ catalog[i].severity = "RED"
  BY <1>1, <1>2, <1>4 DEF IInv, TypeOK, Found, OnFile
<1>10. StaleReadsDecided'
  BY <1>2, <1>3, <1>9, StaleReadsStep DEF IInv, TypeOK
<1>. QED
  BY <1>5, <1>6, <1>7, <1>8, <1>10 DEF IInv

LEMMA RecordReviewInv ==
    ASSUME IInv, NEW t \in Threads, RecordReview(t)
    PROVE  IInv'
<1>. DEFINE o == op[t]
            inc == catalog[o.id]
            new == [inc EXCEPT !.audit = Append(inc.audit, AuditOf(o))]
<1>1. o \in Reviewing /\ o.id \in AlertIds
  BY DEF IInv, TypeOK, RecordReview, Idle, Creating, Reviewing, FallingBack
<1>2. /\ \/ OnFile(o) /\ catalog' = [catalog EXCEPT ![o.id] = new]
         \/ ~OnFile(o) /\ catalog' = catalog
      /\ op' = [op EXCEPT ![t] = Idle]
      /\ UNCHANGED <<fingerprints, acknowledged, nextKey, reviews, decided>>
  BY <1>1 DEF RecordReview, IInv, TypeOK
<1>3. AuditOf(o) \in AuditRecord
  BY <1>1, TargetTypes DEF AuditOf, AuditRecord, Reviewing
<1>4. OnFile(o) => /\ inc \in Incident
                   /\ new \in Incident
                   /\ new.key = inc.key
                   /\ new.severity = inc.severity
                   /\ new.status = inc.status
  <2>. SUFFICES ASSUME inc \in Incident
                PROVE  /\ new \in Incident
                       /\ new.key = inc.key
                       /\ new.severity = inc.severity
                       /\ new.status = inc.status
    BY <1>1 DEF IInv, TypeOK, OnFile, Found
  <2>1. Append(inc.audit, AuditOf(o)) \in Seq(AuditRecord)
    BY <1>3, AppendProperties DEF Incident
  <2>. QED
    BY <2>1 DEF Incident
<1>. HIDE DEF new
<1>5. TypeOK'
  BY <1>1, <1>2, <1>4 DEF IInv, TypeOK
<1>6. KeysUsedOnce'
  BY <1>1, <1>2, <1>4 DEF IInv, TypeOK, KeysUsedOnce, OnFile, Found, Idle
<1>7. RedDraftsWait'
  BY <1>2 DEF IInv, TypeOK, RedDraftsWait, Idle
<1>8. RedShownDecided'
  BY <1>1, <1>2, <1>4 DEF IInv, TypeOK, RedShownDecided, OnFile, Found
<1>9. \A i \in AlertIds : Found(i)' /\ catalog'[i].severity = "RED"
          => /\ Found(i)
             /\ catalog[i].key = catalog'[i].key
             /\ catalog[i].severity = "RED"
  BY <1>1, <1>2, <1>4 DEF IInv, TypeOK, Found, OnFile
<1>10. StaleReadsDecided'
  BY <1>2, <1>9, StaleReadsStep DEF IInv, TypeOK, Idle
<1>. QED
  BY <1>5, <1>6, <1>7, <1>8, <1>10 DEF IInv

LEMMA ClearIncidentsInv ==
    ASSUME IInv, ClearIncidents
    PROVE  IInv'
<1>1. /\ catalog' = [id \in AlertIds |-> IF id \in DemoIds THEN NoIncident
                                         ELSE catalog[id]]
      /\ UNCHANGED <<fingerprints, acknowledged, op, nextKey, reviews, decided>>
  BY DEF ClearIncidents
<1>2. \A id \in AlertIds : Found(id)' => Found(id) /\ catalog'[id] = catalog[id]
  BY <1>1 DEF Found
<1>3. TypeOK'
  BY <1>1 DEF IInv, TypeOK
<1>4. KeysUsedOnce' /\ RedDraftsWait' /\ RedShownDecided'
  BY <1>1, <1>2 DEF IInv, KeysUsedOnce, RedDraftsWait, RedShownDecided
<1>5. StaleReadsDecided'
  <2>. SUFFICES ASSUME NEW u \in Threads, op[u].phase = "apply", OnFile(op[u])',
                       catalog'[op[u].id].severity = "RED",
                       op[u].prev \in PublicStates
                PROVE  op[u].key \in decided
    BY <1>1 DEF StaleReadsDecided
  <2>1. op[u].id \in AlertIds
    BY DEF IInv, TypeOK, Idle, Creating, Reviewing, FallingBack
  <2>. QED
    BY <2>1, <1>1, <1>2 DEF IInv, StaleReadsDecided, OnFile
<1>. QED
  BY <1>3, <1>4, <1>5 DEF IInv

LEMMA NextInv == IInv /\ [Next]_vars => IInv'
<1>. SUFFICES ASSUME IInv, [Next]_vars PROVE IInv'
  OBVIOUS
<1>1. CASE Next
  BY <1>1, EvaluateInv, StoreIncidentInv, StartReviewInv, RejectAcknowledgeInv,
     AcknowledgeAlertInv, ApplyReviewInv, RecordReviewInv, ClearIncidentsInv
     DEF Next
<1>2. CASE UNCHANGED vars
  BY <1>2 DEF vars, IInv, TypeOK, KeysUsedOnce, RedDraftsWait, RedShownDecided,
              StaleReadsDecided, OnFile, Found
<1>. QED
  BY <1>1, <1>2

LEMMA InvHolds == Spec => []IInv
BY InitInv, NextInv, PTL DEF Spec
-----------------------------------------------------------------------------
(* Every reachable state of the alert engine has the declared types.       *)
THEOREM TypeCorrect == Spec => []TypeOK
<1>1. IInv => TypeOK
  BY DEF IInv
<1>. QED
  BY <1>1, InvHolds, PTL

(* No interleaving of evaluations, reviews and acknowledgements shows the  *)
(* public a RED incident on which no operator has decided.                 *)
THEOREM GateHolds == Spec => []ReviewGate
<1>1. IInv => ReviewGate
  BY DEF IInv, RedShownDecided, ReviewGate, ShownToPublic
<1>. QED
  BY <1>1, InvHolds, PTL
-----------------------------------------------------------------------------
LEMMA GateInit == Init => Gate!Init
BY DEF Init, Gate!Init, ShownRed, Found

(* Decisions are taken one at a time and are never unmade. *)
LEMMA DecisionsGrow ==
    ASSUME IInv, [Next]_vars
    PROVE  decided' = decided \/ \E k \in decided' : decided' = decided \cup {k}
<1>1. CASE UNCHANGED vars
  BY <1>1 DEF vars
<1>2. CASE ClearIncidents
  BY <1>2 DEF ClearIncidents
<1>3. ASSUME NEW t \in Threads, AcknowledgeAlert(t)
      PROVE  decided' = decided \/ \E k \in decided' : decided' = decided \cup {k}
  BY <1>3 DEF AcknowledgeAlert
<1>4. ASSUME NEW t \in Threads, ApplyReview(t)
      PROVE  decided' = decided \/ \E k \in decided' : decided' = decided \cup {k}
  BY <1>4 DEF ApplyReview
<1>5. ASSUME NEW t \in Threads,
             \/ \E c \in Conditions : Evaluate(t, c)
             \/ StoreIncident(t)
             \/ \E id \in AlertIds, role \in UserRole, action \in OperatorAction :
                   StartReview(t, id, role, action)
             \/ \E id \in AlertIds : RejectAcknowledge(t, id)
             \/ RecordReview(t)
      PROVE  decided' = decided
  BY <1>5 DEF Evaluate, StoreIncident, StartReview, RejectAcknowledge, RecordReview
<1>. QED
  BY <1>1, <1>2, <1>3, <1>4, <1>5 DEF Next

LEMMA GateShown == IInv => ShownRed \subseteq decided
BY DEF IInv, RedShownDecided, ShownRed, ShownToPublic

(* The alert engine implements HumanReviewGate. *)
THEOREM GateImplemented == Spec => ImplementsGate
<1>1. IInv /\ IInv' /\ [Next]_vars => [Gate!Next]_<<ShownRed, decided>>
  <2>. SUFFICES ASSUME IInv, IInv', [Next]_vars PROVE Gate!Next
    OBVIOUS
  <2>1. ShownRed' \subseteq decided'
    BY GateShown DEF IInv, TypeOK, KeysUsedOnce, RedDraftsWait,
       RedShownDecided, StaleReadsDecided, ShownRed, ShownToPublic, Found
  <2>. QED
    BY <2>1, DecisionsGrow DEF Gate!Next, Gate!Decide, Gate!Publish
<1>. QED
  BY <1>1, GateInit, InvHolds, PTL DEF Spec, Gate!Spec, ImplementsGate
-----------------------------------------------------------------------------

(* The states that only an operator's action leads to. *)
Chosen == {"ESCALATED", "DOWNGRADED", "DISMISSED", "SUPPRESSED"}

Recorded(id, s) == \E i \in DOMAIN catalog[id].audit : catalog[id].audit[i].new = s

BeingRecorded(id, s) ==
    \E t \in Threads : /\ op[t].phase = "record"
                       /\ op[t].id = id
                       /\ op[t].key = catalog[id].key
                       /\ AuditOf(op[t]).new = s

Audited(id, s) == Recorded(id, s) \/ BeingRecorded(id, s)

(***************************************************************************)
(* ClosedIsAudited is not inductive: a field verification writes back the  *)
(* status that it read, after others have changed it, so what a call holds *)
(* must be audited too; and no evaluation may begin in a chosen state.     *)
(***************************************************************************)
StatusAudited ==
    \A id \in AlertIds :
        Found(id) /\ catalog[id].status \in Chosen => Audited(id, catalog[id].status)

ReadsAudited ==
    \A t \in Threads :
        op[t].phase = "apply" /\ OnFile(op[t]) /\ op[t].prev \in Chosen
            => Audited(op[t].id, op[t].prev)

DraftsUnchosen ==
    \A t \in Threads : op[t].phase = "create" => op[t].draft.status \notin Chosen

AInv == StatusAudited /\ ReadsAudited /\ DraftsUnchosen
-----------------------------------------------------------------------------
LEMMA OpTypes ==
    ASSUME IInv, NEW t \in Threads
    PROVE  /\ op[t].phase \in {"apply", "record"} => op[t] \in Reviewing
           /\ op[t].phase = "create" => op[t].draft \in Draft
           /\ op[t].phase = "fallback" => op[t].id \in AlertIds
BY DEF IInv, TypeOK, Idle, Creating, Reviewing, FallingBack

(* An incident of the catalog is the one it was, with its audit records. *)
SameIncident(id) ==
    /\ Found(id)
    /\ catalog'[id].key = catalog[id].key
    /\ catalog'[id].audit = catalog[id].audit

LEMMA AuditedKept ==
    ASSUME NEW id \in AlertIds, NEW s, SameIncident(id), Audited(id, s),
           \A u \in Threads : op'[u] = op[u] \/ op[u].phase # "record"
    PROVE  Audited(id, s)'
<1>1. CASE Recorded(id, s)
  BY <1>1 DEF Recorded, Audited, SameIncident
<1>2. CASE BeingRecorded(id, s)
  <2>1. PICK t \in Threads : /\ op[t].phase = "record"
                             /\ op[t].id = id
                             /\ op[t].key = catalog[id].key
                             /\ AuditOf(op[t]).new = s
    BY <1>2 DEF BeingRecorded
  <2>2. op'[t] = op[t]
    BY <2>1
  <2>3. /\ op'[t].phase = "record" /\ op'[t].id = id
        /\ op'[t].key = catalog'[id].key
        /\ AuditOf(op'[t]).new = s
    BY <2>1, <2>2 DEF SameIncident
  <2>. QED
    BY <2>3 DEF BeingRecorded, Audited, AuditOf
<1>. QED
  BY <1>1, <1>2 DEF Audited

(***************************************************************************)
(* A step that chooses nothing and records nothing: an incident is the one *)
(* it was and its status too, unless it became an unchosen one, or it is a *)
(* new one; a call that begins to apply has just read the status.          *)
(***************************************************************************)
LEMMA UnchosenStep ==
    ASSUME IInv, AInv,
           \A i \in AlertIds : Found(i)' =>
               \/ SameIncident(i) /\ catalog'[i].status \in {catalog[i].status} \cup
                                       (LifecycleState \ Chosen)
               \/ catalog'[i].key = nextKey /\ catalog'[i].status \notin Chosen,
           \A u \in Threads :
               \/ op'[u] = op[u]
               \/ /\ op[u].phase # "record"
                  /\ op'[u].phase = "apply" =>
                        \/ op'[u].prev \notin Chosen
                        \/ /\ op'[u].id \in AlertIds
                           /\ SameIncident(op'[u].id)
                           /\ op'[u].prev = catalog[op'[u].id].status
                  /\ op'[u].phase = "create" => op'[u].draft.status \notin Chosen
    PROVE  AInv'
<1>1. \A u \in Threads : op'[u] = op[u] \/ op[u].phase # "record"
  OBVIOUS
<1>2. ASSUME NEW id \in AlertIds, NEW s, SameIncident(id), Audited(id, s)
      PROVE  Audited(id, s)'
  BY <1>1, <1>2, AuditedKept
<1>3. StatusAudited'
  <2>. SUFFICES ASSUME NEW id \in AlertIds, NEW s, Found(id)', s = catalog'[id].status,
                       s \in Chosen
                PROVE  Audited(id, s)'
    BY DEF StatusAudited, Audited, Recorded, BeingRecorded
  <2>1. SameIncident(id) /\ catalog[id].status = s
    OBVIOUS
  <2>2. Audited(id, s)
    BY <2>1 DEF SameIncident, AInv, StatusAudited
  <2>. QED
    BY <2>1, <2>2, <1>2
<1>4. ReadsAudited'
  <2>. SUFFICES ASSUME NEW u \in Threads, NEW o, NEW id, NEW s,
                       o = op'[u], id = o.id, s = o.prev,
                       o.phase = "apply", OnFile(o)', s \in Chosen
                PROVE  Audited(id, s)'
    BY DEF ReadsAudited, OnFile, Found, Audited, Recorded, BeingRecorded
  <2>1. CASE o = op[u]
    <3>1. o \in Reviewing /\ id \in AlertIds /\ o.key < nextKey
      BY <2>1, OpTypes DEF IInv, KeysUsedOnce, Reviewing
    <3>2. Found(id)' /\ catalog'[id].key = o.key
      BY DEF OnFile, Found
    <3>3. SameIncident(id)
      <4>1. o.key # nextKey
        BY <3>1 DEF IInv, TypeOK, Reviewing
      <4>. QED
        BY <3>1, <3>2, <4>1
    <3>4. Audited(id, s)
      BY <2>1, <3>2, <3>3 DEF AInv, ReadsAudited, OnFile, SameIncident
    <3>. QED
      BY <3>1, <3>3, <3>4, <1>2
  <2>2. CASE o # op[u]
    <3>1. id \in AlertIds /\ SameIncident(id) /\ s = catalog[id].status
      BY <2>2
    <3>2. Audited(id, s)
      BY <3>1 DEF SameIncident, AInv, StatusAudited
    <3>. QED
      BY <3>1, <3>2, <1>2
  <2>. QED
    BY <2>1, <2>2
<1>5. DraftsUnchosen'
  BY DEF AInv, DraftsUnchosen
<1>. QED
  BY <1>3, <1>4, <1>5 DEF AInv
-----------------------------------------------------------------------------
(* The steps that choose nothing. *)
LEMMA EvaluateAudit ==
    ASSUME IInv, AInv, NEW t \in Threads, NEW c \in Conditions, Evaluate(t, c)
    PROVE  AInv'
<1>1. InitStatus(c) \notin Chosen
  BY DEF InitStatus, RequiresReview, Chosen
<1>2. UNCHANGED catalog
  BY DEF Evaluate
<1>3. \A u \in Threads :
         \/ op'[u] = op[u]
         \/ /\ op[u].phase # "record" /\ op'[u].phase # "apply"
            /\ op'[u].phase = "create" => op'[u].draft.status \notin Chosen
  BY <1>1 DEF Evaluate, Idle, IInv, TypeOK
<1>. QED
  BY <1>2, <1>3, UnchosenStep DEF SameIncident, Found

LEMMA StoreIncidentAudit ==
    ASSUME IInv, AInv, NEW t \in Threads, StoreIncident(t)
    PROVE  AInv'
<1>. DEFINE d == op[t].draft
            inc == NewIncident(nextKey, d)
<1>1. d \in Draft /\ d.status \notin Chosen /\ nextKey \in Nat
  BY OpTypes DEF StoreIncident, AInv, DraftsUnchosen, IInv, TypeOK
<1>2. inc.key = nextKey /\ inc.status \notin Chosen
  BY <1>1, NewIncidentFields
<1>3. catalog' = [catalog EXCEPT ![d.severity] = inc]
  BY DEF StoreIncident
<1>4. \A u \in Threads :
         \/ op'[u] = op[u]
         \/ op[u].phase # "record" /\ op'[u].phase \notin {"apply", "create"}
  BY DEF StoreIncident, Idle, IInv, TypeOK
<1>. HIDE DEF inc, d
<1>5. \A i \in AlertIds : Found(i)' =>
         \/ SameIncident(i) /\ catalog'[i].status = catalog[i].status
         \/ catalog'[i].key = nextKey /\ catalog'[i].status \notin Chosen
  BY <1>2, <1>3 DEF IInv, TypeOK, SameIncident, Found
<1>. QED
  BY <1>4, <1>5, UnchosenStep

(* The review reads the status it will replace; a synthetic incident's is  *)
(* PENDING_HUMAN_REVIEW.                                                   *)
LEMMA StartReviewAudit ==
    ASSUME IInv, AInv, NEW t \in Threads, NEW id \in AlertIds, NEW role \in UserRole,
           NEW a \in OperatorAction, StartReview(t, id, role, a)
    PROVE  AInv'
<1>. DEFINE inc == IF Found(id) THEN catalog[id]
                   ELSE NewIncident(nextKey, SyntheticDraft)
            new == [inc EXCEPT !.fv = FieldVerification(a, inc.fv)]
            o == Review("apply", id, inc, a)
<1>1. /\ inc \in Incident
      /\ Found(id) => inc = catalog[id]
      /\ ~Found(id) => inc.key = nextKey /\ inc.status = "PENDING_HUMAN_REVIEW"
  BY NewIncidentFields, SyntheticIsDraft DEF IInv, TypeOK, Found, SyntheticDraft
<1>2. catalog' = [catalog EXCEPT ![id] = new] /\ op' = [op EXCEPT ![t] = o]
      /\ op[t] = Idle
  BY DEF StartReview
<1>. HIDE DEF inc
<1>3. /\ new.key = inc.key /\ new.audit = inc.audit /\ new.status = inc.status
      /\ o.phase = "apply" /\ o.id = id /\ o.prev = inc.status
  BY <1>1 DEF Incident, Review
<1>. HIDE DEF new, o
<1>4. \A i \in AlertIds : Found(i)' =>
         \/ SameIncident(i) /\ catalog'[i].status = catalog[i].status
         \/ catalog'[i].key = nextKey /\ catalog'[i].status \notin Chosen
  BY <1>1, <1>2, <1>3 DEF IInv, TypeOK, SameIncident, Found, Chosen
<1>5. \A u \in Threads :
         \/ op'[u] = op[u]
         \/ /\ op[u].phase # "record" /\ op'[u].phase # "create"
            /\ \/ op'[u].prev \notin Chosen
               \/ /\ op'[u].id \in AlertIds
                  /\ SameIncident(op'[u].id)
                  /\ op'[u].prev = catalog[op'[u].id].status
  BY <1>1, <1>2, <1>3 DEF IInv, TypeOK, SameIncident, Chosen, Idle
<1>. QED
  BY <1>4, <1>5, UnchosenStep

LEMMA RejectAcknowledgeAudit ==
    ASSUME IInv, AInv, NEW t \in Threads, NEW id \in AlertIds, RejectAcknowledge(t, id)
    PROVE  AInv'
<1>1. UNCHANGED catalog
  BY DEF RejectAcknowledge
<1>2. \A u \in Threads :
         \/ op'[u] = op[u]
         \/ op[u].phase # "record" /\ op'[u].phase \notin {"apply", "create"}
  BY DEF RejectAcknowledge, Idle, IInv, TypeOK
<1>. QED
  BY <1>1, <1>2, UnchosenStep DEF SameIncident, Found

LEMMA AcknowledgeAlertAudit ==
    ASSUME IInv, AInv, NEW t \in Threads, AcknowledgeAlert(t)
    PROVE  AInv'
<1>. DEFINE id == op[t].id
            new == [catalog[id] EXCEPT !.status = "ACKNOWLEDGED", !.review = FALSE]
<1>1. id \in AlertIds
  BY OpTypes DEF AcknowledgeAlert
<1>2. \/ Found(id) /\ catalog' = [catalog EXCEPT ![id] = new]
      \/ UNCHANGED catalog
  BY <1>1 DEF AcknowledgeAlert, IInv, TypeOK
<1>3. Found(id) => /\ new.key = catalog[id].key /\ new.audit = catalog[id].audit
                   /\ new.status = "ACKNOWLEDGED"
  BY <1>1 DEF IInv, TypeOK, Found, Incident
<1>4. \A u \in Threads :
         \/ op'[u] = op[u]
         \/ op[u].phase # "record" /\ op'[u].phase \notin {"apply", "create"}
  BY DEF AcknowledgeAlert, Idle, IInv, TypeOK
<1>. HIDE DEF id, new
<1>5. \A i \in AlertIds : Found(i)' =>
         /\ SameIncident(i)
         /\ catalog'[i].status \in {catalog[i].status} \cup (LifecycleState \ Chosen)
  BY <1>1, <1>2, <1>3 DEF IInv, TypeOK, SameIncident, Found, Chosen, LifecycleState
<1>. QED
  BY <1>4, <1>5, UnchosenStep

LEMMA ClearIncidentsAudit ==
    ASSUME IInv, AInv, ClearIncidents
    PROVE  AInv'
<1>1. \A i \in AlertIds : Found(i)' => Found(i) /\ catalog'[i] = catalog[i]
  BY DEF ClearIncidents, Found
<1>2. UNCHANGED op
  BY DEF ClearIncidents
<1>. QED
  BY <1>1, <1>2, UnchosenStep DEF SameIncident
-----------------------------------------------------------------------------
(***************************************************************************)
(* The two steps of a review that matter. Applying it writes the status    *)
(* that the call is from then on about to record; recording it replaces    *)
(* what was about to be recorded by the record itself.                     *)
(***************************************************************************)
LEMMA ApplyReviewAudit ==
    ASSUME IInv, AInv, NEW t \in Threads, ApplyReview(t)
    PROVE  AInv'
<1>. DEFINE o == op[t]
            done == [o EXCEPT !.phase = "record"]
            new == Applied(catalog[o.id], o)
<1>1. o \in Reviewing /\ o.phase = "apply" /\ o.id \in AlertIds
  BY OpTypes DEF ApplyReview, Reviewing
<1>2. /\ \/ OnFile(o) /\ catalog' = [catalog EXCEPT ![o.id] = new]
         \/ ~OnFile(o) /\ catalog' = catalog
      /\ op' = [op EXCEPT ![t] = done]
  BY DEF ApplyReview
<1>3. /\ done.phase = "record" /\ done.id = o.id /\ done.key = o.key
      /\ AuditOf(done).new = TargetState(o.action, o.prev)
  BY <1>1 DEF Reviewing, AuditOf
<1>4. OnFile(o) => /\ Found(o.id) /\ catalog[o.id].key = o.key
                   /\ new.key = o.key /\ new.audit = catalog[o.id].audit
                   /\ new.status = TargetState(o.action, o.prev)
  <2>1. OnFile(o) => /\ Found(o.id) /\ catalog[o.id].key = o.key
                     /\ catalog[o.id] \in Incident
    BY <1>1 DEF IInv, TypeOK, OnFile, Found
  <2>2. catalog[o.id] \in Incident => new.audit = catalog[o.id].audit
    BY DEF Applied, Incident
  <2>. QED
    BY <1>1, <2>1, <2>2, AppliedFields
<1>. HIDE DEF new, done
<1>5. \A i \in AlertIds : Found(i)' => SameIncident(i)
  BY <1>1, <1>2, <1>4 DEF IInv, TypeOK, SameIncident, Found
<1>6. \A u \in Threads : op'[u] = op[u] \/ op[u].phase # "record"
  BY <1>1, <1>2 DEF IInv, TypeOK
<1>7. ASSUME NEW id \in AlertIds, NEW s, Found(id)', Audited(id, s)
      PROVE  Audited(id, s)'
  BY <1>5, <1>6, <1>7, AuditedKept
<1>8. StatusAudited'
  <2>. SUFFICES ASSUME NEW id \in AlertIds, NEW s, Found(id)', s = catalog'[id].status,
                       s \in Chosen
                PROVE  Audited(id, s)'
    BY DEF StatusAudited, Audited, Recorded, BeingRecorded
  <2>1. CASE id = o.id /\ OnFile(o)
    <3>1. catalog'[id].key = o.key /\ s = TargetState(o.action, o.prev)
      BY <2>1, <1>2, <1>4 DEF IInv, TypeOK
    <3>2. op'[t] = done
      BY <1>2 DEF IInv, TypeOK
    <3>. QED
      BY <2>1, <3>1, <3>2, <1>3 DEF Audited, BeingRecorded, AuditOf
  <2>2. CASE ~(id = o.id /\ OnFile(o))
    <3>1. catalog'[id] = catalog[id]
      BY <2>2, <1>1, <1>2 DEF IInv, TypeOK
    <3>. QED
      BY <3>1, <1>7 DEF AInv, StatusAudited, Found
  <2>. QED
    BY <2>1, <2>2
<1>9. ReadsAudited'
  <2>. SUFFICES ASSUME NEW u \in Threads, NEW id, NEW s, id = op'[u].id, s = op'[u].prev,
                       op'[u].phase = "apply", OnFile(op[u])', s \in Chosen
                PROVE  Audited(id, s)'
    BY DEF ReadsAudited, Audited, Recorded, BeingRecorded
  <2>1. op'[u] = op[u]
    BY <1>2, <1>3 DEF IInv, TypeOK
  <2>2. id \in AlertIds /\ Found(id)' /\ OnFile(op[u])
    BY <2>1, <1>5, OpTypes DEF OnFile, Found, SameIncident, Reviewing
  <2>. QED
    BY <2>1, <2>2, <1>7 DEF AInv, ReadsAudited
<1>10. DraftsUnchosen'
  BY <1>2, <1>3 DEF IInv, TypeOK, AInv, DraftsUnchosen
<1>. QED
  BY <1>8, <1>9, <1>10 DEF AInv

(* A record is added behind those that there are. *)
LEMMA AuditAppended ==
    ASSUME NEW s \in Seq(AuditRecord), NEW e \in AuditRecord
    PROVE  /\ Len(s) \in Nat /\ Len(Append(s, e)) = Len(s) + 1
           /\ Append(s, e) \in Seq(AuditRecord)
           /\ \A i \in 1 .. Len(s) : Append(s, e)[i] = s[i]
           /\ Append(s, e)[Len(s) + 1] = e
  BY AppendProperties, LenProperties

LEMMA RecordReviewAudit ==
    ASSUME IInv, AInv, NEW t \in Threads, RecordReview(t)
    PROVE  AInv'
<1>. DEFINE o == op[t]
            inc == catalog[o.id]
            new == [inc EXCEPT !.audit = Append(inc.audit, AuditOf(o))]
<1>1. o \in Reviewing /\ o.id \in AlertIds /\ o.phase = "record"
  BY OpTypes DEF RecordReview, Reviewing
<1>2. /\ \/ OnFile(o) /\ catalog' = [catalog EXCEPT ![o.id] = new]
         \/ ~OnFile(o) /\ catalog' = catalog
      /\ op' = [op EXCEPT ![t] = Idle]
  BY <1>1 DEF RecordReview, IInv, TypeOK
<1>3. AuditOf(o) \in AuditRecord
  BY <1>1, TargetTypes DEF AuditOf, AuditRecord, Reviewing
<1>4. OnFile(o) => /\ Found(o.id)
                   /\ new.key = inc.key /\ new.status = inc.status
                   /\ DOMAIN inc.audit \subseteq DOMAIN new.audit
                   /\ \A i \in DOMAIN inc.audit : new.audit[i] = inc.audit[i]
                   /\ \E i \in DOMAIN new.audit : new.audit[i] = AuditOf(o)
  <2>. SUFFICES ASSUME OnFile(o) PROVE
                   /\ Found(o.id)
                   /\ new.key = inc.key /\ new.status = inc.status
                   /\ DOMAIN inc.audit \subseteq DOMAIN new.audit
                   /\ \A i \in DOMAIN inc.audit : new.audit[i] = inc.audit[i]
                   /\ \E i \in DOMAIN new.audit : new.audit[i] = AuditOf(o)
    OBVIOUS
  <2>1. Found(o.id) /\ inc \in Incident
    BY <1>1 DEF IInv, TypeOK, OnFile, Found
  <2>2. inc.audit \in Seq(AuditRecord)
    BY <2>1 DEF Incident
  <2>3. /\ new.audit = Append(inc.audit, AuditOf(o))
        /\ new.key = inc.key /\ new.status = inc.status
    BY <2>1 DEF Incident
  <2>. HIDE DEF new
  <2>4. /\ Len(new.audit) = Len(inc.audit) + 1
        /\ new.audit \in Seq(AuditRecord)
        /\ \A i \in 1 .. Len(inc.audit) : new.audit[i] = inc.audit[i]
        /\ new.audit[Len(inc.audit) + 1] = AuditOf(o)
    <3>. DEFINE s == inc.audit
                e == AuditOf(o)
    <3>1. s \in Seq(AuditRecord) /\ e \in AuditRecord /\ new.audit = Append(s, e)
      BY <1>3, <2>2, <2>3
    <3>. HIDE DEF s, e
    <3>2. /\ Len(new.audit) = Len(s) + 1
          /\ new.audit \in Seq(AuditRecord)
          /\ \A i \in 1 .. Len(s) : new.audit[i] = s[i]
          /\ new.audit[Len(s) + 1] = e
      BY <3>1, AuditAppended
    <3>. QED
      BY <3>2 DEF s, e
  <2>5. /\ DOMAIN inc.audit = 1 .. Len(inc.audit) /\ Len(inc.audit) \in Nat
        /\ DOMAIN new.audit = 1 .. Len(inc.audit) + 1
    BY <2>2, <2>4, LenProperties
  <2>6. DOMAIN inc.audit \subseteq DOMAIN new.audit
    BY <2>5
  <2>7. \A i \in DOMAIN inc.audit : new.audit[i] = inc.audit[i]
    BY <2>4, <2>5
  <2>8. Len(inc.audit) + 1 \in DOMAIN new.audit
    BY <2>5
  <2>. QED
    BY <2>1, <2>3, <2>4, <2>6, <2>7, <2>8
<1>. HIDE DEF new
<1>5. ASSUME NEW id \in AlertIds, Found(id)'
      PROVE  /\ Found(id)
             /\ catalog'[id].key = catalog[id].key
             /\ catalog'[id].status = catalog[id].status
             /\ \A s : Recorded(id, s) => Recorded(id, s)'
  <2>1. CASE id = o.id /\ OnFile(o)
    BY <2>1, <1>1, <1>2, <1>4 DEF IInv, TypeOK, Recorded
  <2>2. CASE ~(id = o.id /\ OnFile(o))
    BY <2>2, <1>1, <1>2, <1>5 DEF IInv, TypeOK, Recorded, Found
  <2>. QED
    BY <2>1, <2>2
<1>6. ASSUME NEW id \in AlertIds, NEW s, Found(id)', Audited(id, s)
      PROVE  Audited(id, s)'
  <2>1. CASE Recorded(id, s)
    BY <2>1, <1>5, <1>6 DEF Audited
  <2>2. CASE BeingRecorded(id, s)
    <3>1. PICK u \in Threads : /\ op[u].phase = "record"
                               /\ op[u].id = id
                               /\ op[u].key = catalog[id].key
                               /\ AuditOf(op[u]).new = s
      BY <2>2 DEF BeingRecorded
    <3>2. CASE u = t
      <4>1. id = o.id /\ OnFile(o)
        BY <3>1, <3>2, <1>5, <1>6 DEF OnFile
      <4>2. catalog'[id] = new
        BY <4>1, <1>1, <1>2 DEF IInv, TypeOK
      <4>. QED
        BY <3>1, <3>2, <4>1, <4>2, <1>4 DEF Audited, Recorded
    <3>3. CASE u # t
      <4>1. op'[u] = op[u]
        BY <3>3, <1>2 DEF IInv, TypeOK
      <4>2. /\ op'[u].phase = "record" /\ op'[u].id = id
            /\ op'[u].key = catalog'[id].key /\ AuditOf(op'[u]).new = s
        BY <3>1, <4>1, <1>5, <1>6
      <4>. QED
        BY <4>2 DEF Audited, BeingRecorded, AuditOf
    <3>. QED
      BY <3>2, <3>3
  <2>. QED
    BY <2>1, <2>2, <1>6 DEF Audited
<1>7. StatusAudited'
  <2>. SUFFICES ASSUME NEW id \in AlertIds, NEW s, Found(id)', s = catalog'[id].status,
                       s \in Chosen
                PROVE  Audited(id, s)'
    BY DEF StatusAudited, Audited, Recorded, BeingRecorded
  <2>. QED
    BY <1>5, <1>6 DEF AInv, StatusAudited
<1>8. ReadsAudited'
  <2>. SUFFICES ASSUME NEW u \in Threads, NEW id, NEW s, id = op'[u].id, s = op'[u].prev,
                       op'[u].phase = "apply", OnFile(op[u])', s \in Chosen
                PROVE  Audited(id, s)'
    BY DEF ReadsAudited, Audited, Recorded, BeingRecorded
  <2>1. op'[u] = op[u]
    BY <1>2 DEF IInv, TypeOK, Idle
  <2>2. id \in AlertIds /\ Found(id)' /\ OnFile(op[u])
    BY <2>1, <1>5, OpTypes DEF OnFile, Found, Reviewing
  <2>. QED
    BY <2>1, <2>2, <1>6 DEF AInv, ReadsAudited
<1>9. DraftsUnchosen'
  BY <1>2 DEF IInv, TypeOK, AInv, DraftsUnchosen, Idle
<1>. QED
  BY <1>7, <1>8, <1>9 DEF AInv
-----------------------------------------------------------------------------
LEMMA AuditInit == Init => AInv
BY DEF Init, AInv, StatusAudited, ReadsAudited, DraftsUnchosen, Found, Idle

LEMMA AuditNext == IInv /\ AInv /\ [Next]_vars => AInv'
<1>. SUFFICES ASSUME IInv, AInv, [Next]_vars PROVE AInv'
  OBVIOUS
<1>1. CASE Next
  BY <1>1, EvaluateAudit, StoreIncidentAudit, StartReviewAudit, RejectAcknowledgeAudit,
     AcknowledgeAlertAudit, ApplyReviewAudit, RecordReviewAudit, ClearIncidentsAudit
     DEF Next
<1>2. CASE UNCHANGED vars
  BY <1>2 DEF vars, AInv, StatusAudited, ReadsAudited, DraftsUnchosen, Audited,
              Recorded, BeingRecorded, OnFile, Found
<1>. QED
  BY <1>1, <1>2

(* Whatever threads overtake each other, a state that an operator chose is *)
(* in the incident's audit history or about to be appended to it.          *)
THEOREM ChoicesAudited == Spec => []ClosedIsAudited
<1>1. AInv => ClosedIsAudited
  BY DEF AInv, StatusAudited, ClosedIsAudited, Chosen, Audited, Recorded, BeingRecorded
<1>. QED
  BY <1>1, AuditInit, AuditNext, InvHolds, PTL DEF Spec
-----------------------------------------------------------------------------
(***************************************************************************)
(* The demo. It writes the status of its incident without the engine's     *)
(* validation, so that the engine's own invariant fails under it (a stage  *)
(* of WATCH can be RED for a moment). What does hold concerns the answers  *)
(* of operators: an incident bears one only if it was given, a review that *)
(* read one will at worst write it back, and an acknowledgement that a     *)
(* stage's entry has kept was given on the incident still on file.         *)
(***************************************************************************)
Answers == {"ACKNOWLEDGED", "ESCALATED"}

StatusSigned ==
    Found(DemoId) /\ catalog[DemoId].status \in Answers
        => catalog[DemoId].key \in decided

ReadsSigned ==
    \A t \in Threads :
        op[t].phase = "apply" /\ op[t].id = DemoId /\ op[t].prev \in Answers
            => op[t].key \in decided

DemoTypeOK ==
    /\ demo \in [active : BOOLEAN, playing : BOOLEAN, step : Steps,
                 acked : BOOLEAN, notified : BOOLEAN]
    /\ writing \in Severity \cup {"none"}
    /\ sent \in [step : Steps, signed : BOOLEAN]
    /\ signed \in BOOLEAN

(* Above the calm stages the incident is on file. *)
FiledSince == demo.step >= 2 \/ writing # "none" => Found(DemoId)

AckedSigned == demo.acked /\ demo.step >= 6 => catalog[DemoId].key \in decided

VisitSigned == demo.acked /\ ReviewRequired(demo.step) => signed

DemoInv ==
    /\ TypeOK /\ DemoTypeOK /\ StatusSigned /\ ReadsSigned /\ FiledSince
    /\ AckedSigned /\ VisitSigned /\ ReviewedStageSigned

(* A step of the engine leaves the demo's incident on file and decisions   *)
(* as they are.                                                            *)
Kept ==
    /\ decided \subseteq decided'
    /\ Found(DemoId) => Found(DemoId)' /\ catalog'[DemoId].key = catalog[DemoId].key

LEMMA DemoIdFacts == DemoId \in AlertIds /\ DemoId \notin Severity
BY DemoIdAssumption, IdsAssumption DEF AlertIds

LEMMA AnswerTargets ==
    ASSUME NEW a \in OperatorAction, NEW p \in LifecycleState,
           TargetState(a, p) \in Answers
    PROVE  a \in {"ACKNOWLEDGE", "ESCALATE"} \/ p \in Answers
BY DEF TargetState, OperatorAction, Answers

(* The calm stages are the first two, and RED comes after the sixth.       *)
LEMMA StageFacts ==
    ASSUME NEW s \in Steps
    PROVE  /\ s \in 0 .. 13
           /\ StageSeverity(s) \in Severity
           /\ StageSeverity(s) = "GREEN" => s < 2
           /\ StageSeverity(s) = "RED" => s > 6
<1>. DEFINE Stage == {RisingStages[i] : i \in 1 .. 7} \cup {FloodStages[i] : i \in 1 .. 7}
<1>1. Len(RisingStages) = 7 /\ Len(FloodStages) = 7
  BY DEF RisingStages, FloodStages
<1>2. RisingStages \in Seq(Stage) /\ FloodStages \in Seq(Stage)
  <2>1. RisingStages \in Seq(Stage)
    BY DEF RisingStages
  <2>2. FloodStages \in Seq(Stage)
    BY DEF FloodStages
  <2>. QED
    BY <2>1, <2>2
<1>. HIDE DEF Stage
<1>3. /\ Len(Scenario) = 14
      /\ \A i \in 1 .. 14 : Scenario[i] = IF i <= 7 THEN RisingStages[i] ELSE FloodStages[i - 7]
  <2>1. /\ Len(Scenario) = Len(RisingStages) + Len(FloodStages)
        /\ \A i \in 1 .. Len(RisingStages) + Len(FloodStages) :
               Scenario[i] = IF i <= Len(RisingStages) THEN RisingStages[i]
                             ELSE FloodStages[i - Len(RisingStages)]
    BY <1>2, ConcatProperties DEF Scenario
  <2>. QED
    BY <1>1, <2>1
<1>4. s \in Nat /\ s < 14
  BY <1>3 DEF Steps
<1>5. Scenario[s + 1] = IF s < 7 THEN RisingStages[s + 1] ELSE FloodStages[s - 6]
  <2>. s + 1 \in 1 .. 14 /\ (s + 1) - 7 = s - 6 /\ (s + 1 <= 7 <=> s < 7)
    BY <1>4
  <2>. QED
    BY <1>3
<1>6. CASE s < 7
  <2>1. s \in {0, 1, 2, 3, 4, 5, 6}
    BY <1>4, <1>6
  <2>. QED
    BY <2>1, <1>5 DEF StageSeverity, RisingStages, Severity
<1>7. CASE s >= 7
  <2>1. s \in {7, 8, 9, 10, 11, 12, 13}
    BY <1>4, <1>7
  <2>. QED
    BY <2>1, <1>5 DEF StageSeverity, FloodStages, Severity
<1>. QED
  BY <1>4, <1>6, <1>7
-----------------------------------------------------------------------------
LEMMA EvaluateSigned ==
    ASSUME TypeOK, StatusSigned, ReadsSigned, NEW t \in Threads,
           NEW c \in Conditions, Evaluate(t, c)
    PROVE  TypeOK' /\ StatusSigned' /\ ReadsSigned' /\ Kept
<1>. DEFINE d == [severity |-> RawSeverity(c), status |-> InitStatus(c),
                  review |-> RequiresReview(c), fp |-> Fingerprint(c)]
<1>1. d \in Draft
  BY ConditionTypes DEF Draft
<1>2. /\ op' = [op EXCEPT ![t] = [phase |-> "create", draft |-> d]]
      /\ UNCHANGED <<catalog, fingerprints, acknowledged, nextKey, reviews, decided>>
  BY DEF Evaluate
<1>. HIDE DEF d
<1>3. TypeOK'
  BY <1>1, <1>2 DEF TypeOK, Creating
<1>4. StatusSigned' /\ ReadsSigned' /\ Kept
  BY <1>2 DEF TypeOK, StatusSigned, ReadsSigned, Kept, Found
<1>. QED
  BY <1>3, <1>4

LEMMA StoreIncidentSigned ==
    ASSUME TypeOK, StatusSigned, ReadsSigned, NEW t \in Threads, StoreIncident(t)
    PROVE  TypeOK' /\ StatusSigned' /\ ReadsSigned' /\ Kept
<1>. DEFINE d == op[t].draft
            inc == NewIncident(nextKey, d)
<1>1. d \in Draft /\ nextKey \in Nat
  BY DEF TypeOK, StoreIncident, Idle, Creating, Reviewing, FallingBack
<1>2. inc \in Incident /\ d.severity \in Severity /\ d.fp \in Fingerprints
  BY <1>1, NewIncidentFields DEF Draft
<1>3. /\ catalog' = [catalog EXCEPT ![d.severity] = inc]
      /\ fingerprints' = fingerprints \cup {d.fp}
      /\ nextKey' = nextKey + 1
      /\ op' = [op EXCEPT ![t] = Idle]
      /\ UNCHANGED <<acknowledged, reviews, decided>>
  BY DEF StoreIncident
<1>. HIDE DEF d, inc
<1>4. TypeOK'
  BY <1>1, <1>2, <1>3 DEF TypeOK, AlertIds
<1>5. catalog'[DemoId] = catalog[DemoId]
  BY <1>2, <1>3, DemoIdFacts DEF TypeOK
<1>6. StatusSigned' /\ ReadsSigned' /\ Kept
  BY <1>3, <1>5 DEF TypeOK, StatusSigned, ReadsSigned, Kept, Found, Idle
<1>. QED
  BY <1>4, <1>6

(* A review reads a status that stands signed, or files a pending one.     *)
LEMMA StartReviewSigned ==
    ASSUME TypeOK, StatusSigned, ReadsSigned, NEW t \in Threads, NEW id \in AlertIds,
           NEW role \in UserRole, NEW a \in OperatorAction, StartReview(t, id, role, a)
    PROVE  TypeOK' /\ StatusSigned' /\ ReadsSigned' /\ Kept
<1>. DEFINE inc == IF Found(id) THEN catalog[id]
                   ELSE NewIncident(nextKey, SyntheticDraft)
            new == [inc EXCEPT !.fv = FieldVerification(a, inc.fv)]
            o == Review("apply", id, inc, a)
<1>1. /\ inc \in Incident
      /\ Found(id) => inc = catalog[id]
      /\ ~Found(id) => inc.status = "PENDING_HUMAN_REVIEW"
  BY NewIncidentFields, SyntheticIsDraft DEF TypeOK, Found, SyntheticDraft
<1>2. /\ catalog' = [catalog EXCEPT ![id] = new]
      /\ op' = [op EXCEPT ![t] = o]
      /\ nextKey' = nextKey \/ nextKey' = nextKey + 1
      /\ reviews' = reviews + 1
      /\ UNCHANGED <<fingerprints, acknowledged, decided>>
  BY DEF StartReview
<1>. HIDE DEF inc
<1>3. FieldVerification(a, inc.fv) \in {"NOT_REQUESTED", "REQUIRED", "RECEIVED"}
  BY <1>1 DEF FieldVerification, Incident
<1>4. new \in Incident /\ new.key = inc.key /\ new.status = inc.status
  BY <1>1, <1>3 DEF Incident
<1>5. /\ o \in Reviewing /\ o.phase = "apply" /\ o.id = id /\ o.key = inc.key
      /\ o.prev = inc.status
  BY <1>1 DEF Review, Reviewing, Incident
<1>. HIDE DEF new, o
<1>6. TypeOK'
  BY <1>2, <1>4, <1>5 DEF TypeOK
<1>7. id = DemoId /\ inc.status \in Answers => inc.key \in decided
  BY <1>1 DEF StatusSigned, Answers
<1>8. ReadsSigned'
  BY <1>2, <1>5, <1>7 DEF TypeOK, ReadsSigned
<1>9. StatusSigned' /\ Kept
  <2>1. CASE id = DemoId
    <3>1. catalog'[DemoId] = new /\ Found(DemoId)'
      BY <2>1, <1>2, <1>4, NoIncidentAssumption DEF TypeOK, Found
    <3>. QED
      BY <2>1, <3>1, <1>1, <1>2, <1>4, <1>7 DEF StatusSigned, Kept
  <2>2. CASE id # DemoId
    <3>1. catalog'[DemoId] = catalog[DemoId]
      BY <2>2, <1>2, DemoIdFacts DEF TypeOK
    <3>. QED
      BY <3>1, <1>2 DEF StatusSigned, Kept, Found
  <2>. QED
    BY <2>1, <2>2
<1>. QED
  BY <1>6, <1>8, <1>9

LEMMA RejectAcknowledgeSigned ==
    ASSUME TypeOK, StatusSigned, ReadsSigned, NEW t \in Threads, NEW id \in AlertIds,
           RejectAcknowledge(t, id)
    PROVE  TypeOK' /\ StatusSigned' /\ ReadsSigned' /\ Kept
<1>. DEFINE o == [phase |-> "fallback", id |-> id]
<1>1. /\ op' = [op EXCEPT ![t] = o]
      /\ reviews' = reviews + 1
      /\ UNCHANGED <<catalog, fingerprints, acknowledged, nextKey, decided>>
  BY DEF RejectAcknowledge
<1>2. o \in FallingBack /\ o.phase = "fallback"
  BY DEF FallingBack
<1>. HIDE DEF o
<1>3. TypeOK'
  BY <1>1, <1>2 DEF TypeOK
<1>4. StatusSigned' /\ ReadsSigned' /\ Kept
  BY <1>1, <1>2 DEF TypeOK, StatusSigned, ReadsSigned, Kept, Found
<1>. QED
  BY <1>3, <1>4

LEMMA AcknowledgeAlertSigned ==
    ASSUME TypeOK, StatusSigned, ReadsSigned, NEW t \in Threads, AcknowledgeAlert(t)
    PROVE  TypeOK' /\ StatusSigned' /\ ReadsSigned' /\ Kept
<1>. DEFINE id == op[t].id
            new == [catalog[id] EXCEPT !.status = "ACKNOWLEDGED", !.review = FALSE]
<1>1. id \in AlertIds
  BY DEF AcknowledgeAlert, TypeOK, Idle, Creating, Reviewing, FallingBack
<1>2. /\ acknowledged' = acknowledged \cup {id}
      /\ \/ /\ Found(id)
            /\ catalog' = [catalog EXCEPT ![id] = new]
            /\ decided' = decided \cup {catalog[id].key}
         \/ UNCHANGED <<catalog, decided>>
      /\ op' = [op EXCEPT ![t] = Idle]
      /\ UNCHANGED <<fingerprints, nextKey, reviews>>
  BY <1>1 DEF AcknowledgeAlert, TypeOK
<1>3. Found(id) => /\ catalog[id].key \in Nat
                   /\ new \in Incident
                   /\ new.key = catalog[id].key
  BY <1>1 DEF TypeOK, Found, Incident, LifecycleState
<1>. HIDE DEF new, id
<1>4. TypeOK'
  BY <1>1, <1>2, <1>3 DEF TypeOK
<1>5. ReadsSigned'
  BY <1>2 DEF TypeOK, ReadsSigned, Idle
<1>6. StatusSigned' /\ Kept
  <2>1. CASE UNCHANGED <<catalog, decided>>
    BY <2>1 DEF StatusSigned, Kept, Found
  <2>2. CASE /\ Found(id)
             /\ catalog' = [catalog EXCEPT ![id] = new]
             /\ decided' = decided \cup {catalog[id].key}
    <3>1. CASE id = DemoId
      <4>1. catalog'[DemoId] = new /\ new.key \in decided' /\ Found(DemoId)'
        BY <2>2, <3>1, <1>1, <1>3, NoIncidentAssumption DEF TypeOK, Found
      <4>. QED
        BY <4>1, <2>2, <3>1, <1>3 DEF StatusSigned, Kept
    <3>2. CASE id # DemoId
      <4>1. catalog'[DemoId] = catalog[DemoId]
        BY <2>2, <3>2, DemoIdFacts DEF TypeOK
      <4>. QED
        BY <4>1, <2>2 DEF StatusSigned, Kept, Found
    <3>. QED
      BY <3>1, <3>2
  <2>. QED
    BY <1>2, <2>1, <2>2
<1>. QED
  BY <1>4, <1>5, <1>6

(* A stale review answers for the demo's incident only what was given.     *)
LEMMA ApplyReviewSigned ==
    ASSUME TypeOK, StatusSigned, ReadsSigned, NEW t \in Threads, ApplyReview(t)
    PROVE  TypeOK' /\ StatusSigned' /\ ReadsSigned' /\ Kept
<1>. DEFINE o == op[t]
            done == [o EXCEPT !.phase = "record"]
            new == Applied(catalog[o.id], o)
<1>1. o \in Reviewing /\ o.phase = "apply" /\ o.id \in AlertIds
  BY DEF TypeOK, ApplyReview, Idle, Creating, Reviewing, FallingBack
<1>2. /\ \/ OnFile(o) /\ catalog' = [catalog EXCEPT ![o.id] = new]
         \/ ~OnFile(o) /\ catalog' = catalog
      /\ acknowledged' \subseteq acknowledged \cup {o.id}
      /\ decided \subseteq decided' /\ decided' \subseteq decided \cup {o.key}
      /\ o.action \in {"ACKNOWLEDGE", "ESCALATE"} => o.key \in decided'
      /\ op' = [op EXCEPT ![t] = done]
      /\ UNCHANGED <<fingerprints, nextKey, reviews>>
  BY DEF ApplyReview
<1>3. done \in Reviewing /\ done.phase = "record"
  BY <1>1 DEF Reviewing
<1>4. OnFile(o) => /\ catalog[o.id].key = o.key
                   /\ new \in Incident
                   /\ new.key = o.key
                   /\ new.status = TargetState(o.action, o.prev)
  BY <1>1, AppliedFields DEF TypeOK, OnFile, Found
<1>. HIDE DEF new, done
<1>5. TypeOK'
  BY <1>1, <1>2, <1>3, <1>4 DEF TypeOK, Reviewing
<1>6. ReadsSigned'
  BY <1>2, <1>3 DEF TypeOK, ReadsSigned
<1>7. StatusSigned' /\ Kept
  <2>1. CASE o.id = DemoId /\ OnFile(o)
    <3>1. catalog'[DemoId] = new /\ Found(DemoId)'
      BY <2>1, <1>1, <1>2, <1>4, NoIncidentAssumption DEF TypeOK, Found
    <3>2. new.status \in Answers => o.key \in decided'
      <4>1. o.action \in OperatorAction /\ o.prev \in LifecycleState
        BY <1>1 DEF Reviewing
      <4>2. o.prev \in Answers => o.key \in decided
        BY <2>1, <1>1 DEF ReadsSigned
      <4>. QED
        BY <2>1, <4>1, <4>2, <1>2, <1>4, AnswerTargets
    <3>. QED
      BY <2>1, <3>1, <3>2, <1>2, <1>4 DEF StatusSigned, Kept
  <2>2. CASE ~(o.id = DemoId /\ OnFile(o))
    <3>1. catalog'[DemoId] = catalog[DemoId]
      BY <2>2, <1>1, <1>2, DemoIdFacts DEF TypeOK
    <3>. QED
      BY <3>1, <1>2 DEF StatusSigned, Kept, Found
  <2>. QED
    BY <2>1, <2>2
<1>. QED
  BY <1>5, <1>6, <1>7

LEMMA RecordReviewSigned ==
    ASSUME TypeOK, StatusSigned, ReadsSigned, NEW t \in Threads, RecordReview(t)
    PROVE  TypeOK' /\ StatusSigned' /\ ReadsSigned' /\ Kept
<1>. DEFINE o == op[t]
            inc == catalog[o.id]
            new == [inc EXCEPT !.audit = Append(inc.audit, AuditOf(o))]
<1>1. o \in Reviewing /\ o.id \in AlertIds
  BY DEF TypeOK, RecordReview, Idle, Creating, Reviewing, FallingBack
<1>2. /\ \/ OnFile(o) /\ catalog' = [catalog EXCEPT ![o.id] = new]
         \/ ~OnFile(o) /\ catalog' = catalog
      /\ op' = [op EXCEPT ![t] = Idle]
      /\ UNCHANGED <<fingerprints, acknowledged, nextKey, reviews, decided>>
  BY <1>1 DEF RecordReview, TypeOK
<1>3. OnFile(o) => /\ inc # NoIncident
                   /\ new \in Incident
                   /\ new.key = inc.key
                   /\ new.status = inc.status
  <2>. SUFFICES ASSUME inc \in Incident
                PROVE  /\ new \in Incident
                       /\ new.key = inc.key
                       /\ new.status = inc.status
    BY <1>1 DEF TypeOK, OnFile, Found
  <2>1. AuditOf(o) \in AuditRecord
    BY <1>1, TargetTypes DEF AuditOf, AuditRecord, Reviewing
  <2>2. Append(inc.audit, AuditOf(o)) \in Seq(AuditRecord)
    BY <2>1, AppendProperties DEF Incident
  <2>. QED
    BY <2>2 DEF Incident
<1>. HIDE DEF new
<1>4. TypeOK'
  BY <1>1, <1>2, <1>3 DEF TypeOK
<1>5. ReadsSigned'
  BY <1>2 DEF TypeOK, ReadsSigned, Idle
<1>6. StatusSigned' /\ Kept
  <2>1. CASE o.id = DemoId /\ OnFile(o)
    <3>1. catalog'[DemoId] = new /\ Found(DemoId)'
      BY <2>1, <1>1, <1>2, <1>3, NoIncidentAssumption DEF TypeOK, Found
    <3>. QED
      BY <2>1, <3>1, <1>2, <1>3 DEF StatusSigned, Kept, Found
  <2>2. CASE ~(o.id = DemoId /\ OnFile(o))
    <3>1. catalog'[DemoId] = catalog[DemoId]
      BY <2>2, <1>1, <1>2, DemoIdFacts DEF TypeOK
    <3>. QED
      BY <3>1, <1>2 DEF StatusSigned, Kept, Found
  <2>. QED
    BY <2>1, <2>2
<1>. QED
  BY <1>4, <1>5, <1>6

LEMMA EngineUnderDemo ==
    ASSUME DemoInv, NEW t \in Threads,
           EvaluateStage(t) \/ StoreEvaluated(t) \/ ReviewStep(t)
    PROVE  DemoInv'
<1>1. TypeOK /\ StatusSigned /\ ReadsSigned /\ "OPERATOR" \in UserRole
  BY DEF DemoInv, UserRole
<1>2. TypeOK' /\ StatusSigned' /\ ReadsSigned' /\ Kept
  BY <1>1, EvaluateSigned, StoreIncidentSigned, StartReviewSigned, RejectAcknowledgeSigned,
     AcknowledgeAlertSigned, ApplyReviewSigned, RecordReviewSigned
     DEF EvaluateStage, StoreEvaluated, ReviewStep
<1>3. UNCHANGED demoVars
  BY DEF EvaluateStage, StoreEvaluated, ReviewStep
<1>4. DemoTypeOK' /\ VisitSigned' /\ ReviewedStageSigned'
  BY <1>3 DEF demoVars, DemoInv, DemoTypeOK, VisitSigned, ReviewedStageSigned
<1>5. FiledSince'
  BY <1>2, <1>3 DEF demoVars, DemoInv, FiledSince, Kept
<1>6. AckedSigned'
  <2>. SUFFICES ASSUME demo.acked, demo.step >= 6
                PROVE  catalog'[DemoId].key \in decided'
    BY <1>3 DEF demoVars, AckedSigned
  <2>1. demo.step \in Int
    BY DEF DemoInv, DemoTypeOK, Steps
  <2>2. Found(DemoId) /\ catalog[DemoId].key \in decided
    BY <2>1 DEF DemoInv, FiledSince, AckedSigned
  <2>. QED
    BY <2>2, <1>2 DEF Kept
<1>. QED
  BY <1>2, <1>4, <1>5, <1>6 DEF DemoInv
-----------------------------------------------------------------------------
(***************************************************************************)
(* The demo's own steps. A stage is entered with an acknowledgement that   *)
(* was given on the incident on file, if it shows in the stage at all.     *)
(***************************************************************************)
LEMMA EnterStageSigned ==
    ASSUME TypeOK, StatusSigned, ReadsSigned, NEW s \in Steps, NEW acked \in BOOLEAN,
           acked /\ s >= 6 => Found(DemoId) /\ catalog[DemoId].key \in decided,
           EnterStage(s, acked)
    PROVE  /\ TypeOK' /\ StatusSigned' /\ ReadsSigned'
           /\ writing' \in Severity \cup {"none"}
           /\ s >= 2 \/ writing' # "none" => Found(DemoId)'
           /\ Found(DemoId) /\ s >= 2 => catalog'[DemoId].key = catalog[DemoId].key
           /\ UNCHANGED <<decided, sent>> /\ signed' = FALSE
<1>1. UNCHANGED <<fingerprints, op, reviews, decided, sent>> /\ signed' = FALSE
  BY DEF EnterStage
<1>2. s \in 0 .. 13
  BY StageFacts
<1>3. ReadsSigned'
  BY <1>1 DEF ReadsSigned
<1>4. CASE StageSeverity(s) = "GREEN"
  <2>1. /\ catalog' = [catalog EXCEPT ![DemoId] = NoIncident]
        /\ writing' = "none"
        /\ UNCHANGED <<acknowledged, nextKey>>
    BY <1>4 DEF EnterStage
  <2>2. s < 2
    BY <1>4, StageFacts
  <2>3. TypeOK' /\ ~Found(DemoId)'
    BY <2>1, <1>1, DemoIdFacts DEF TypeOK, Found
  <2>. QED
    BY <2>1, <2>2, <2>3, <1>1, <1>2, <1>3 DEF StatusSigned
<1>5. CASE StageSeverity(s) # "GREEN"
  <2>. DEFINE status == StageStatus(s, acked)
              old == [catalog[DemoId] EXCEPT !.status = status,
                          !.review = IF status = "ACKNOWLEDGED" THEN FALSE ELSE @]
              filed == NewIncident(nextKey, [SyntheticDraft EXCEPT !.status = status])
  <2>1. TransitionState(status) /\ writing' = StageSeverity(s)
    BY <1>5 DEF EnterStage
  <2>2. StageSeverity(s) \in {"YELLOW", "ORANGE", "RED"} /\ writing' \in Severity
    BY <2>1, <1>5, StageFacts DEF Severity
  <2>3. status \in LifecycleState /\ status # "ESCALATED"
    BY <2>2 DEF StageStatus, LifecycleState
  <2>4. status = "ACKNOWLEDGED" => Found(DemoId) /\ catalog[DemoId].key \in decided
    <3>. SUFFICES ASSUME status = "ACKNOWLEDGED" PROVE acked /\ s > 6
      BY <1>2
    <3>1. StageSeverity(s) = "RED" /\ acked
      BY <2>2 DEF StageStatus
    <3>. QED
      BY <3>1, StageFacts
  <2>. HIDE DEF status
  <2>5. CASE Found(DemoId)
    <3>1. catalog[DemoId] \in Incident
      BY <2>5, DemoIdFacts DEF TypeOK, Found
    <3>2. old \in Incident /\ old.key = catalog[DemoId].key /\ old.status = status
      BY <3>1, <2>3 DEF Incident
    <3>3. /\ catalog' = [catalog EXCEPT ![DemoId] = old]
          /\ acknowledged' \subseteq acknowledged \cup {DemoId}
          /\ UNCHANGED nextKey
      BY <2>1, <2>5, DemoIdFacts DEF TransitionState, TypeOK
    <3>. HIDE DEF old
    <3>4. TypeOK' /\ catalog'[DemoId] = old /\ Found(DemoId)'
      BY <3>2, <3>3, <1>1, DemoIdFacts, NoIncidentAssumption DEF TypeOK, Found
    <3>5. StatusSigned'
      BY <3>2, <3>4, <2>3, <2>4, <1>1 DEF StatusSigned, Answers
    <3>. QED
      BY <3>2, <3>4, <3>5, <2>2, <1>1, <1>3
  <2>6. CASE ~Found(DemoId)
    <3>1. [SyntheticDraft EXCEPT !.status = status] \in Draft
          /\ [SyntheticDraft EXCEPT !.status = status].status = status
      BY <2>3, SyntheticIsDraft DEF Draft, SyntheticDraft
    <3>2. filed \in Incident /\ filed.status = status
      BY <3>1, NewIncidentFields DEF TypeOK
    <3>3. /\ catalog' = [catalog EXCEPT ![DemoId] = filed]
          /\ nextKey' = nextKey + 1
          /\ UNCHANGED acknowledged
      BY <2>1, <2>6 DEF TransitionState
    <3>. HIDE DEF filed
    <3>4. TypeOK' /\ catalog'[DemoId] = filed /\ Found(DemoId)'
      BY <3>2, <3>3, <1>1, DemoIdFacts, NoIncidentAssumption DEF TypeOK, Found
    <3>5. StatusSigned'
      BY <3>2, <3>4, <2>3, <2>4, <2>6 DEF StatusSigned, Answers
    <3>. QED
      BY <3>4, <3>5, <2>2, <2>6, <1>1, <1>3
  <2>. QED
    BY <2>5, <2>6
<1>. QED
  BY <1>4, <1>5

LEMMA StepSigned ==
    ASSUME DemoInv, NEW s \in Steps, s = demo.step + 1 \/ s = demo.step - 1, StepTo(s)
    PROVE  DemoInv'
<1>1. /\ demo.step \in 0 .. 13 /\ s \in 0 .. 13 /\ demo.acked \in BOOLEAN
      /\ demo \in [active : BOOLEAN, playing : BOOLEAN, step : Steps,
                   acked : BOOLEAN, notified : BOOLEAN]
  BY StageFacts DEF DemoInv, DemoTypeOK
<1>2. PICK acked \in BOOLEAN : acked = AckOnEntry(s)
  BY <1>1 DEF AckOnEntry
<1>3. acked /\ s >= 6 => Found(DemoId) /\ catalog[DemoId].key \in decided
  <2>. SUFFICES ASSUME acked, s >= 6 PROVE Found(DemoId) /\ catalog[DemoId].key \in decided
    OBVIOUS
  <2>1. demo.acked /\ ~ReviewRequired(s)
    BY <1>2 DEF AckOnEntry
  <2>2. s > 10 /\ demo.step >= 6
    BY <1>1, <2>1 DEF ReviewRequired
  <2>. QED
    BY <2>1, <2>2, <1>1 DEF DemoInv, FiledSince, AckedSigned
<1>4. demo' = [demo EXCEPT !.step = s, !.acked = acked] /\ EnterStage(s, acked)
  BY <1>2 DEF StepTo
<1>5. /\ TypeOK' /\ StatusSigned' /\ ReadsSigned'
      /\ writing' \in Severity \cup {"none"}
      /\ s >= 2 \/ writing' # "none" => Found(DemoId)'
      /\ Found(DemoId) /\ s >= 2 => catalog'[DemoId].key = catalog[DemoId].key
      /\ UNCHANGED <<decided, sent>> /\ signed' = FALSE
  BY <1>2, <1>3, <1>4, EnterStageSigned DEF DemoInv
<1>6. demo'.step = s /\ demo'.acked = acked
      /\ demo' \in [active : BOOLEAN, playing : BOOLEAN, step : Steps,
                    acked : BOOLEAN, notified : BOOLEAN]
  BY <1>1, <1>2, <1>4
<1>7. DemoTypeOK' /\ ReviewedStageSigned'
  BY <1>5, <1>6 DEF DemoInv, DemoTypeOK, ReviewedStageSigned
<1>8. FiledSince' /\ VisitSigned'
  BY <1>2, <1>5, <1>6 DEF FiledSince, VisitSigned, AckOnEntry
<1>9. AckedSigned'
  BY <1>1, <1>3, <1>5, <1>6 DEF AckedSigned
<1>. QED
  BY <1>5, <1>7, <1>8, <1>9 DEF DemoInv

LEMMA StartDemoSigned ==
    ASSUME DemoInv, StartDemo
    PROVE  DemoInv'
<1>1. /\ demo' = [AtT0 EXCEPT !.active = TRUE, !.playing = TRUE]
      /\ EnterStage(0, FALSE)
  BY DEF StartDemo
<1>2. 0 \in Steps
  BY DEF DemoInv, DemoTypeOK, Steps
<1>3. /\ TypeOK' /\ StatusSigned' /\ ReadsSigned'
      /\ writing' \in Severity \cup {"none"}
      /\ writing' # "none" => Found(DemoId)'
      /\ UNCHANGED <<decided, sent>> /\ signed' = FALSE
  BY <1>1, <1>2, EnterStageSigned DEF DemoInv
<1>4. /\ demo'.step = 0 /\ demo'.acked = FALSE
      /\ demo' \in [active : BOOLEAN, playing : BOOLEAN, step : Steps,
                    acked : BOOLEAN, notified : BOOLEAN]
  BY <1>1, <1>2 DEF AtT0
<1>5. DemoTypeOK' /\ ReviewedStageSigned'
  BY <1>3, <1>4 DEF DemoInv, DemoTypeOK, ReviewedStageSigned
<1>6. FiledSince' /\ VisitSigned' /\ AckedSigned'
  BY <1>3, <1>4 DEF FiledSince, VisitSigned, AckedSigned
<1>. QED
  BY <1>3, <1>5, <1>6 DEF DemoInv

(* A reviewed stage is notified only if it was acknowledged, which was     *)
(* then in this visit.                                                     *)
LEMMA FinishStageSigned ==
    ASSUME DemoInv, FinishStage
    PROVE  DemoInv'
<1>. DEFINE new == [catalog[DemoId] EXCEPT !.severity = writing]
<1>1. /\ writing \in Severity /\ Found(DemoId)
      /\ catalog[DemoId] \in Incident
  BY DemoIdFacts DEF FinishStage, Unlocked, DemoInv, DemoTypeOK, FiledSince, TypeOK, Found
<1>2. new \in Incident /\ new.key = catalog[DemoId].key
      /\ new.status = catalog[DemoId].status
  BY <1>1 DEF Incident
<1>3. /\ catalog' = [catalog EXCEPT ![DemoId] = new]
      /\ writing' = "none"
      /\ UNCHANGED <<fingerprints, acknowledged, op, nextKey, reviews, decided, signed>>
  BY DEF FinishStage
<1>. HIDE DEF new
<1>4. TypeOK' /\ catalog'[DemoId] = new /\ Found(DemoId)'
  BY <1>2, <1>3, DemoIdFacts, NoIncidentAssumption DEF DemoInv, TypeOK, Found
<1>5. StatusSigned' /\ ReadsSigned'
  BY <1>1, <1>2, <1>3, <1>4 DEF DemoInv, StatusSigned, ReadsSigned
<1>6. /\ demo'.step = demo.step /\ demo'.acked = demo.acked
      /\ demo' \in [active : BOOLEAN, playing : BOOLEAN, step : Steps,
                    acked : BOOLEAN, notified : BOOLEAN]
  BY DEF FinishStage, DemoInv, DemoTypeOK
<1>7. DemoTypeOK'
  BY <1>3, <1>6 DEF FinishStage, DemoInv, DemoTypeOK, Dispatch
<1>8. ReviewedStageSigned'
  <2>1. CASE Dispatches(demo.step)
    <3>1. sent'.step = demo.step /\ sent'.signed = signed
      BY <2>1 DEF FinishStage, Dispatch
    <3>2. ReviewRequired(demo.step) => demo.acked /\ signed
      BY <2>1 DEF Dispatches, DemoInv, VisitSigned
    <3>. QED
      BY <3>1, <3>2 DEF ReviewedStageSigned
  <2>2. CASE ~Dispatches(demo.step)
    BY <2>2 DEF FinishStage, DemoInv, ReviewedStageSigned
  <2>. QED
    BY <2>1, <2>2
<1>9. FiledSince' /\ VisitSigned' /\ AckedSigned'
  BY <1>2, <1>3, <1>4, <1>6 DEF DemoInv, FiledSince, VisitSigned, AckedSigned
<1>. QED
  BY <1>4, <1>5, <1>7, <1>8, <1>9 DEF DemoInv

LEMMA AcknowledgeGateSigned ==
    ASSUME DemoInv, AcknowledgeOperatorGate
    PROVE  DemoInv'
<1>1. /\ demo' = [demo EXCEPT !.acked = TRUE, !.notified = TRUE]
      /\ sent' = [step |-> demo.step, signed |-> TRUE]
      /\ signed' = TRUE
      /\ decided' = decided \cup (IF Found(DemoId) THEN {catalog[DemoId].key} ELSE {})
      /\ UNCHANGED <<catalog, fingerprints, acknowledged, op, nextKey, reviews, writing>>
  BY DEF AcknowledgeOperatorGate, Dispatch
<1>2. Found(DemoId) => catalog[DemoId].key \in Nat
  BY DemoIdFacts DEF DemoInv, TypeOK, Found, Incident
<1>3. TypeOK'
  BY <1>1, <1>2 DEF DemoInv, TypeOK
<1>4. demo.step \in Steps /\ demo.step \in 0 .. 13
  BY StageFacts DEF DemoInv, DemoTypeOK
<1>5. /\ demo'.step = demo.step
      /\ demo' \in [active : BOOLEAN, playing : BOOLEAN, step : Steps,
                    acked : BOOLEAN, notified : BOOLEAN]
  BY <1>1 DEF DemoInv, DemoTypeOK
<1>6. DemoTypeOK' /\ ReviewedStageSigned' /\ VisitSigned'
  BY <1>1, <1>4, <1>5 DEF DemoInv, DemoTypeOK, ReviewedStageSigned, VisitSigned
<1>7. StatusSigned' /\ ReadsSigned' /\ FiledSince'
  BY <1>1, <1>5 DEF DemoInv, StatusSigned, ReadsSigned, FiledSince, Found
<1>8. AckedSigned'
  BY <1>1, <1>4, <1>5 DEF DemoInv, FiledSince, AckedSigned
<1>. QED
  BY <1>3, <1>6, <1>7, <1>8 DEF DemoInv

LEMMA ResetDemoSigned ==
    ASSUME DemoInv, ResetDemo
    PROVE  DemoInv'
<1>1. /\ demo' = AtT0 /\ writing = "none"
      /\ catalog' = [catalog EXCEPT ![DemoId] = NoIncident]
      /\ signed' = FALSE
      /\ UNCHANGED <<fingerprints, acknowledged, op, nextKey, reviews, decided,
                     writing, sent>>
  BY DEF ResetDemo, Unlocked
<1>2. 0 \in Steps
  BY DEF DemoInv, DemoTypeOK, Steps
<1>3. TypeOK' /\ ~Found(DemoId)'
  BY <1>1, DemoIdFacts DEF DemoInv, TypeOK, Found
<1>4. DemoTypeOK' /\ demo'.step = 0 /\ demo'.acked = FALSE
  BY <1>1, <1>2 DEF DemoInv, DemoTypeOK, AtT0
<1>5. StatusSigned' /\ ReadsSigned' /\ ReviewedStageSigned'
  BY <1>1, <1>3 DEF DemoInv, StatusSigned, ReadsSigned, ReviewedStageSigned
<1>6. FiledSince' /\ VisitSigned' /\ AckedSigned'
  BY <1>1, <1>4 DEF FiledSince, VisitSigned, AckedSigned
<1>. QED
  BY <1>3, <1>4, <1>5, <1>6 DEF DemoInv

LEMMA SetPlayingSigned ==
    ASSUME DemoInv, NEW b \in BOOLEAN, SetPlaying(b)
    PROVE  DemoInv'
<1>1. demo' = [demo EXCEPT !.playing = b] /\ UNCHANGED <<vars, writing, sent, signed>>
  BY DEF SetPlaying
<1>2. /\ demo'.step = demo.step /\ demo'.acked = demo.acked
      /\ demo' \in [active : BOOLEAN, playing : BOOLEAN, step : Steps,
                    acked : BOOLEAN, notified : BOOLEAN]
  BY <1>1 DEF DemoInv, DemoTypeOK
<1>3. TypeOK' /\ StatusSigned' /\ ReadsSigned'
  BY <1>1 DEF vars, DemoInv, TypeOK, StatusSigned, ReadsSigned, Found
<1>4. DemoTypeOK' /\ ReviewedStageSigned' /\ FiledSince' /\ VisitSigned' /\ AckedSigned'
  BY <1>1, <1>2 DEF vars, DemoInv, DemoTypeOK, ReviewedStageSigned, FiledSince, VisitSigned,
                    AckedSigned, Found
<1>. QED
  BY <1>3, <1>4 DEF DemoInv

LEMMA DemoInitInv == DemoInit => DemoInv
<1>. SUFFICES ASSUME DemoInit PROVE DemoInv
  OBVIOUS
<1>1. TypeOK /\ StatusSigned /\ ReadsSigned
  BY DemoIdFacts DEF DemoInit, Init, TypeOK, StatusSigned, ReadsSigned, Found, Idle
<1>2. 0 \in Steps
  <2>1. \E s \in Steps : TRUE
    BY DEF Steps, Scenario, RisingStages, FloodStages
  <2>. QED
    BY <2>1 DEF Steps
<1>3. demo.step = 0 /\ demo.acked = FALSE /\ writing = "none" /\ sent.step = 0
  BY DEF DemoInit, AtT0, NothingSent
<1>4. DemoTypeOK
  BY <1>2 DEF DemoInit, AtT0, NothingSent, DemoTypeOK
<1>5. FiledSince /\ VisitSigned /\ AckedSigned /\ ReviewedStageSigned
  BY <1>3 DEF FiledSince, VisitSigned, AckedSigned, ReviewedStageSigned, ReviewRequired
<1>. QED
  BY <1>1, <1>4, <1>5 DEF DemoInv

LEMMA DemoStep == DemoInv /\ [DemoNext]_allVars => DemoInv'
<1>. SUFFICES ASSUME DemoInv, [DemoNext]_allVars PROVE DemoInv'
  OBVIOUS
<1>1. CASE UNCHANGED allVars
  BY <1>1 DEF allVars, vars, DemoInv, TypeOK, DemoTypeOK, StatusSigned, ReadsSigned, Found,
              FiledSince, VisitSigned, AckedSigned, ReviewedStageSigned
<1>2. CASE StepForward \/ StepBackward
  <2>1. demo.step \in Int
    BY DEF DemoInv, DemoTypeOK, Steps
  <2>2. demo.step > 0 => demo.step - 1 \in Steps
    BY DEF DemoInv, DemoTypeOK, Steps
  <2>3. PICK s \in Steps : (s = demo.step + 1 \/ s = demo.step - 1) /\ StepTo(s)
    BY <1>2, <2>2 DEF StepForward, StepBackward
  <2>. QED
    BY <2>3, StepSigned
<1>3. CASE DemoNext /\ ~(StepForward \/ StepBackward)
  BY <1>3, StartDemoSigned, FinishStageSigned, AcknowledgeGateSigned, ResetDemoSigned,
     SetPlayingSigned, EngineUnderDemo DEF DemoNext
<1>. QED
  BY <1>1, <1>2, <1>3

LEMMA DemoInvHolds == DemoSpec => []DemoInv
BY DemoInitInv, DemoStep, PTL DEF DemoSpec

(* Whichever way the stages are walked, a stage that requires review is    *)
(* notified only on an acknowledgement given in that visit.                *)
THEOREM ReviewsSigned == DemoSpec => []ReviewedStageSigned
<1>1. DemoInv => ReviewedStageSigned
  BY DEF DemoInv
<1>. QED
  BY <1>1, DemoInvHolds, PTL

(* Whatever reviews overlap the demo's writes, its RED incident bears an   *)
(* operator's answer only if one was given on that very incident.          *)
THEOREM SignaturesReal == DemoSpec => []RedSignaturesReal
<1>1. DemoInv => RedSignaturesReal
  BY DEF DemoInv, StatusSigned, RedSignaturesReal, Answers
<1>. QED
  BY <1>1, DemoInvHolds, PTL
=============================================================================
