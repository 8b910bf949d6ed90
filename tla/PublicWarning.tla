---------------------------- MODULE PublicWarning ----------------------------
(***************************************************************************)
(* The way of a RED warning to the citizens: the alert engine files an     *)
(* incident for review, an operator decides, a forecast run tries to       *)
(* announce an alert on the bus, and the notification service fans out     *)
(* what the bus delivers of the types it subscribed to. Composes           *)
(* NotificationPolicy with the lifecycle of AlertLifecycle and an in-order *)
(* bus.                                                                    *)
(***************************************************************************)
EXTENDS NotificationPolicy, Sequences

CONSTANT Runs  \* forecast runs, which name their alerts

VARIABLES
    bus,       \* events published and not yet dispatched
    jobs,      \* run -> the state of its forecast job
    incident   \* lifecycle state of the RED incident, or None

warningVars == <<vars, bus, jobs, incident>>
Lifecycle == INSTANCE AlertLifecycle

WarningInit ==
    /\ Init
    /\ bus = <<>>
    /\ jobs = [r \in Runs |-> "QUEUED"]
    /\ incident = None

(* The alert requires a review, and its event would have the type that says *)
(* so. The event is made of keyword arguments, and a call with one that     *)
(* OperationalEvent.create does not have raises.                            *)
AlertType(review) == IF review THEN "HUMAN_REVIEW_REQUIRED" ELSE "ALERT_STATE_CHANGED"
CreateParameters ==
    {"event_type", "source_id", "provider", "data", "occurred_at", "correlation_id",
     "causation_id", "priority", "mode", "data_state", "ingestion_run_id",
     "forecast_run_id", "inundation_run_id", "state_version", "station_id", "payload_ref"}
AlertArguments ==
    {"event_type", "source_id", "provider", "data", "forecast_run_id", "state_version",
     "severity", "correlation_id", "causation_id", "priority"}
AlertCreated == AlertArguments \subseteq CreateParameters

(* run_forecast_pipeline: two events stand for what it publishes on its     *)
(* way, of types the service did not subscribe to; then the alert. A run    *)
(* that raises ends its job FAILED. The log is written without a failure    *)
(* here, and what a run does to the inundation and the risk is the business *)
(* of RiskEvolution.                                                        *)
Published(type, alert, severity) == [type |-> type, alert |-> alert, severity |-> severity]
OnTheWay(r) ==
    [i \in 1 .. 2 |-> Published(<<"FORECAST_STARTED", "HYDROLOGY_UPDATED">>[i], r, None)]
RunForecast(r) ==
    /\ jobs[r] = "QUEUED"
    /\ \/ /\ AlertCreated
          /\ bus' = bus \o Append(OnTheWay(r), Published(AlertType(TRUE), r, "RED"))
          /\ jobs' = [jobs EXCEPT ![r] = "COMPLETED"]
       \/ /\ ~AlertCreated
          /\ bus' = bus \o OnTheWay(r)
          /\ jobs' = [jobs EXCEPT ![r] = "FAILED"]
    /\ UNCHANGED <<vars, incident>>

(* get_alerts: what it evaluates is RED whether or not a run has ended, and *)
(* the incident awaits a review.                                            *)
FileIncident ==
    /\ incident = None
    /\ incident' = "PENDING_HUMAN_REVIEW"
    /\ UNCHANGED <<vars, bus, jobs>>

(* execute_review_action. None of its callers publishes an event. *)
Review(action) ==
    /\ incident # None
    /\ Lifecycle!ReviewAllowed(action, incident)
    /\ incident' = Lifecycle!TargetState(action, incident)
    /\ UNCHANGED <<vars, bus, jobs>>

SubscribedTypes == {"ALERT_STATE_CHANGED", "ALERT_ACKNOWLEDGED", "ALERT_DECISION_EXECUTED"}

(* The published data has no status; _handle_alert_event takes WATCH for it. *)
EventOf(published) ==
    [alert |-> published.alert, severity |-> published.severity, status |-> "WATCH"]

Dispatch(area) ==
    /\ bus # <<>>
    /\ IF Head(bus).type \in SubscribedTypes
       THEN HandleAlertEvent(EventOf(Head(bus)), area)
       ELSE UNCHANGED vars
    /\ bus' = Tail(bus)
    /\ UNCHANGED <<jobs, incident>>

WarningNext ==
    \/ \E r \in Runs : RunForecast(r)
    \/ FileIncident
    \/ \E action \in Lifecycle!OperatorAction : Review(action)
    \/ \E area \in Areas : Dispatch(area)
    \/ Tick /\ UNCHANGED <<bus, jobs, incident>>

(* Queued runs are run, and the bus delivers what was published. *)
WarningSpec ==
    WarningInit /\ [][WarningNext]_warningVars
    /\ \A r \in Runs : WF_warningVars(RunForecast(r))
    /\ WF_warningVars(\E area \in Areas : Dispatch(area))
-----------------------------------------------------------------------------
(* A citizen was sent a CRITICAL message. *)
Told == \E f \in Fingerprints : f[2] = "CRITICAL" /\ cooldown[f] > 0

(* The acknowledgement of a RED incident releases its public dispatch: it   *)
(* publishes nothing, the run's own event is never created, and no citizen  *)
(* hears of the alert.                                                      *)
ConfirmedIsDispatched == (incident = "ACKNOWLEDGED") ~> (Told \/ incident # "ACKNOWLEDGED")
=============================================================================
