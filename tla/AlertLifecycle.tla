--------------------------- MODULE AlertLifecycle ---------------------------
(***************************************************************************)
(* The constant part of services/alerts: lifecycle states, the transition  *)
(* graph, the permission matrix, the severity rules of evaluate_alert and  *)
(* the filters through which the catalog of incidents is read.             *)
(***************************************************************************)
EXTENDS Naturals

Severity == {"GREEN", "YELLOW", "ORANGE", "RED"}

LifecycleState ==
    {"NORMAL", "WATCH", "CANDIDATE", "PENDING_HUMAN_REVIEW", "ACKNOWLEDGED",
     "ESCALATED", "DOWNGRADED", "DISMISSED", "SUPPRESSED", "EXPIRED",
     "CANCELLED"}

VALID_TRANSITIONS ==
    [NORMAL |-> {"WATCH", "CANDIDATE", "PENDING_HUMAN_REVIEW"},
     WATCH |-> {"NORMAL", "CANDIDATE", "PENDING_HUMAN_REVIEW", "EXPIRED"},
     CANDIDATE |-> {"PENDING_HUMAN_REVIEW", "ACKNOWLEDGED", "WATCH",
                    "DISMISSED", "SUPPRESSED", "CANCELLED"},
     PENDING_HUMAN_REVIEW |-> {"ACKNOWLEDGED", "ESCALATED", "DOWNGRADED",
                               "DISMISSED", "SUPPRESSED", "CANCELLED"},
     ACKNOWLEDGED |-> {"ESCALATED", "DOWNGRADED", "DISMISSED", "EXPIRED",
                       "CANCELLED"},
     ESCALATED |-> {"DOWNGRADED", "DISMISSED", "EXPIRED", "CANCELLED"},
     DOWNGRADED |-> {"ACKNOWLEDGED", "DISMISSED", "EXPIRED", "CANCELLED"},
     DISMISSED |-> {"NORMAL", "WATCH", "CANDIDATE", "EXPIRED"},
     SUPPRESSED |-> {"NORMAL", "WATCH", "CANDIDATE", "EXPIRED"},
     EXPIRED |-> {"NORMAL", "WATCH"},
     CANCELLED |-> {"NORMAL"}]

OperatorAction ==
    {"ACKNOWLEDGE", "ESCALATE", "DOWNGRADE", "DISMISS", "SUPPRESS",
     "REQUEST_FIELD_VERIFICATION", "SUBMIT_FIELD_VERIFICATION"}

UserRole == {"VIEWER", "ANALYST", "OPERATOR", "ADMIN", "ADMINISTRATOR"}

ALLOWED_PERMISSIONS ==
    [VIEWER |-> {},
     ANALYST |-> {"REQUEST_FIELD_VERIFICATION"},
     OPERATOR |-> OperatorAction \ {"SUPPRESS"},
     ADMIN |-> OperatorAction,
     ADMINISTRATOR |-> OperatorAction]

(* The state an action asks for; field verification leaves it alone. *)
TargetState(action, prev) ==
    CASE action = "ACKNOWLEDGE" -> "ACKNOWLEDGED"
      [] action = "ESCALATE"    -> "ESCALATED"
      [] action = "DOWNGRADE"   -> "DOWNGRADED"
      [] action = "DISMISS"     -> "DISMISSED"
      [] action = "SUPPRESS"    -> "SUPPRESSED"
      [] OTHER                  -> prev

(* execute_review_action raises ValueError exactly when this is FALSE. *)
ReviewAllowed(action, prev) ==
    /\ action = "ESCALATE" => prev # "CANDIDATE"
    /\ LET target == TargetState(action, prev) IN
       target # prev => target \in VALID_TRANSITIONS[prev]

FieldVerification(action, old) ==
    CASE action = "REQUEST_FIELD_VERIFICATION" -> "REQUIRED"
      [] action = "SUBMIT_FIELD_VERIFICATION"  -> "RECEIVED"
      [] OTHER                                 -> old

(* Mutant: a third level, the name get_summary tests for besides YELLOW. *)
DowngradedToWatch(severity) ==
    CASE severity = "RED" -> "ORANGE" [] severity = "ORANGE" -> "YELLOW"
      [] OTHER -> "WATCH"
DowngradedSeverity(severity) == IF severity = "RED" THEN "ORANGE" ELSE "YELLOW"
-----------------------------------------------------------------------------
(***************************************************************************)
(* One evaluation's input, in integers: rain in tenths of mm/h and of mm,  *)
(* river stage in cm, probability in percent, area in tenths of km2.       *)
(***************************************************************************)
Condition == [rain: Nat, rain24: Nat, stage: Nat, prob: Nat, area: Nat,
              degraded: BOOLEAN]

WarningStage == 2540
DangerStage == 2630

Extreme(c) == c.stage >= DangerStage \/ c.prob >= 80 \/ c.area >= 1500
Moderate(c) == c.stage >= WarningStage \/ c.prob >= 55 \/ c.rain24 >= 1155
Advisory(c) == c.rain >= 150 \/ c.prob >= 30 \/ c.area >= 250

RawSeverity(c) ==
    IF Extreme(c)
    THEN IF c.degraded \/ c.area < 250 THEN "ORANGE" ELSE "RED"
    ELSE IF Moderate(c) THEN "ORANGE"
    ELSE IF Advisory(c) THEN "YELLOW"
    ELSE "GREEN"

(* Mutant: only degraded telemetry asks for review. *)
ReviewOnlyDegraded(c) == Extreme(c) /\ c.degraded
RequiresReview(c) == Extreme(c)

(***************************************************************************)
(* The catalog key of an evaluation is ALT-<run id, 8 characters>-<SEV>.   *)
(* Run ids begin RUN-<year>, so the severity alone tells two keys apart.   *)
(***************************************************************************)
AlertId(c) == RawSeverity(c)

(* The lead time is 12 h in the only call: it tells nothing apart. *)
Fingerprint(c) == <<RawSeverity(c), c.stage \div 10>>
-----------------------------------------------------------------------------
(* The readers' filters on one incident. *)
PublicStates == {"WATCH", "ACKNOWLEDGED", "ESCALATED"}
ShownToPublic(inc) ==
    /\ ~(inc.severity = "RED" /\ inc.status = "PENDING_HUMAN_REVIEW")
    /\ inc.status \in PublicStates
=============================================================================
