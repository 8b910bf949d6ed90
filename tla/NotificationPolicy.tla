-------------------------- MODULE NotificationPolicy --------------------------
(***************************************************************************)
(* services/notifications: which citizens an alert event is fanned out to. *)
(* The gate of the event handler, the channel policy and the anti-spam     *)
(* registry of fingerprints with a cooldown.                               *)
(*                                                                         *)
(* The handler runs on the event loop and waits for nothing, so an event   *)
(* is one step. Every citizen has the default preferences and no device    *)
(* token (no code stores either), which leaves the channels IN_APP and SMS.*)
(***************************************************************************)
EXTENDS Integers, FiniteSets

CONSTANTS
    NumSubs,        \* subscriptions, numbered in the order of the fan-out
    Locality,       \* subscription -> locality_name
    Verified,       \* subscriptions of citizens whose phone_verified is set
    AlertEvents,    \* events that may arrive
    Areas,          \* sets of subscriptions a hazard may match
    CooldownTicks,  \* cooldown_minutes
    MaxEvents       \* bound: events handled between two ticks of the clock

Subs == 1 .. NumSubs
AlertSeverity == {"GREEN", "YELLOW", "ORANGE", "RED"}

ASSUME SubsAssumption ==
    /\ NumSubs \in Nat /\ Verified \subseteq Subs /\ Areas \subseteq SUBSET Subs
    /\ DOMAIN Locality = Subs
ASSUME AlertsAssumption == IsFiniteSet(AlertEvents)
ASSUME EventsAssumption ==
    \A e \in AlertEvents : DOMAIN e = {"alert", "severity", "status"}
                           /\ e.severity \in AlertSeverity
ASSUME CooldownAssumption == CooldownTicks \in Nat \ {0} /\ MaxEvents \in Nat

VARIABLES
    cooldown,  \* _sent_fingerprints: ticks until one may be sent again
    lastSent,  \* _user_incident_state: subscription -> policy, or None
    last,      \* history: the last fan-out's policy, area and messages
    window,    \* history: ticks left of the window the sendings are counted in
    told,      \* history: times a subscription was sent one in the window
    events     \* events handled since the last tick

vars == <<cooldown, lastSent, last, window, told, events>>

SEVERITY_ORDER == [INFO |-> 0, WATCH |-> 1, WARNING |-> 2, CRITICAL |-> 4, RESOLVED |-> 1]
Policy == DOMAIN SEVERITY_ORDER
None == "NONE"
Channels == {"IN_APP", "SMS"}
Fingerprint(e, p, s) == <<e.alert, p, Locality[s]>>
Fingerprints == {e.alert : e \in AlertEvents} \X Policy \X {Locality[s] : s \in Subs}

TypeOK ==
    /\ cooldown \in [Fingerprints -> 0 .. CooldownTicks]
    /\ lastSent \in [Subs -> Policy \cup {None}]
    /\ last.policy \in Policy /\ last.area \subseteq Subs
    /\ last.messages \subseteq Subs \X Channels
    /\ window \in 1 .. CooldownTicks
    /\ told \in [Subs \X Fingerprints -> Nat]
    /\ events \in 0 .. MaxEvents

Init ==
    /\ cooldown = [f \in Fingerprints |-> 0]
    /\ lastSent = [s \in Subs |-> None]
    /\ last = [policy |-> "INFO", area |-> {}, messages |-> {}]
    /\ window \in 1 .. CooldownTicks
    /\ told = [sf \in Subs \X Fingerprints |-> 0]
    /\ events = 0

(* _handle_alert_event: the gate, and the policy of what passes it. *)
Gated(e) == e.severity = "RED" /\ e.status = "PENDING_HUMAN_REVIEW"
SEVERITY_MAPPING ==
    [GREEN |-> "INFO", YELLOW |-> "WATCH", ORANGE |-> "WARNING", RED |-> "CRITICAL"]
PolicyOf(e) ==
    IF e.status \in {"EXPIRED", "CANCELLED"} THEN "RESOLVED"
    ELSE SEVERITY_MAPPING[e.severity]

(* evaluate_channel_eligibility, with minimum_severity WATCH. *)
EligibleChannels(s, p) ==
    IF SEVERITY_ORDER[p] < SEVERITY_ORDER["WATCH"] THEN {}
    ELSE {"IN_APP"} \cup {c \in {"SMS"} : p \in {"WARNING", "CRITICAL"} /\ s \in Verified}

(* Mutant: every message to a citizen who had one is an escalation. *)
EscalatesEqual(s, p) ==
    lastSent[s] # None /\ SEVERITY_ORDER[p] >= SEVERITY_ORDER[lastSent[s]]
(* Mutant: only a danger to life passes the cooldown. *)
EscalatesToCritical(s, p) == lastSent[s] # None /\ p = "CRITICAL" /\ lastSent[s] # p
(* check_anti_spam: an escalation passes. So does a fingerprint out of its  *)
(* cooldown, which then starts: of the subscriptions that share it, only    *)
(* the first of a fan-out finds it so.                                      *)
Escalates(s, p) ==
    lastSent[s] # None /\ SEVERITY_ORDER[p] > SEVERITY_ORDER[lastSent[s]]
First(s, area) == \A r \in area : Locality[r] = Locality[s] => s <= r
Allowed(e, p, s, area) ==
    Escalates(s, p) \/ (cooldown[Fingerprint(e, p, s)] = 0 /\ First(s, area))

Recipients(e, area) ==
    {s \in area : /\ EligibleChannels(s, PolicyOf(e)) # {}
                  /\ Allowed(e, PolicyOf(e), s, area)}

(* process_alert_fanout, one message per recipient and eligible channel. *)
FanOut(e, area) ==
    LET p == PolicyOf(e)
        to == Recipients(e, area)
        sent == {Fingerprint(e, p, s) : s \in to}
    IN /\ cooldown' = [f \in Fingerprints |->
                           IF f \in sent THEN CooldownTicks ELSE cooldown[f]]
       /\ lastSent' = [s \in Subs |-> IF s \in to THEN p ELSE lastSent[s]]
       /\ last' = [policy |-> p, area |-> area,
                   messages |-> {sc \in to \X Channels :
                                     sc[2] \in EligibleChannels(sc[1], p)}]
       /\ told' = [sf \in DOMAIN told |->
                       IF sf[1] \in to /\ sf[2] = Fingerprint(e, p, sf[1])
                       THEN told[sf] + 1 ELSE told[sf]]

HandleAlertEvent(e, area) ==
    /\ events < MaxEvents
    /\ events' = events + 1
    /\ UNCHANGED window
    /\ \/ Gated(e) /\ UNCHANGED <<cooldown, lastSent, last, told>>
       \/ ~Gated(e) /\ FanOut(e, area)

(* The clock. Windows as long as a cooldown follow one another, and Init    *)
(* chooses where the first one ends: any stretch of CooldownTicks ticks is  *)
(* a window of some behaviour.                                              *)
Tick ==
    /\ cooldown' = [f \in Fingerprints |-> IF cooldown[f] > 0 THEN cooldown[f] - 1 ELSE 0]
    /\ \/ window > 1 /\ window' = window - 1 /\ UNCHANGED told
       \/ /\ window = 1
          /\ window' = CooldownTicks
          /\ told' = [sf \in DOMAIN told |-> 0]
    /\ events' = 0
    /\ UNCHANGED <<lastSent, last>>

Next ==
    \/ \E e \in AlertEvents, area \in Areas : HandleAlertEvent(e, area)
    \/ Tick

Spec == Init /\ [][Next]_vars
-----------------------------------------------------------------------------
(***************************************************************************)
(* Properties.                                                             *)
(***************************************************************************)

(* Whoever an alert is suppressed for has last heard of a danger at least   *)
(* as high, though the registry that suppresses it is shared by all the     *)
(* citizens of a locality; or he has never heard of any.                    *)
SuppressedAlreadyTold ==
    \A s \in last.area :
        lastSent[s] # None => SEVERITY_ORDER[lastSent[s]] >= SEVERITY_ORDER[last.policy]

(* A forecast that oscillates between severities cannot flood a citizen:    *)
(* in any time as long as a cooldown he gets a warning again only after a   *)
(* lower one, and each lower one passes the cooldown but once.              *)
LowerFingerprints(f) ==
    {g \in Fingerprints : /\ g[3] = f[3]
                          /\ SEVERITY_ORDER[g[2]] \in 1 .. SEVERITY_ORDER[f[2]] - 1}
StormBounded ==
    \A s \in Subs, f \in Fingerprints :
        told[<<s, f>>] <= 1 + Cardinality(LowerFingerprints(f))
=============================================================================
