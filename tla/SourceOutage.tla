---------------------------- MODULE SourceOutage -----------------------------
(***************************************************************************)
(* The health of the simulated sources (services/ingestion/adapters), and  *)
(* what the API makes of it: the confidence of an alert evaluation         *)
(* (get_alerts) and of the fused rain of a nowcast (get_rainfall_nowcast,  *)
(* services/fusion/precipitation.py). Requests run on the pool's threads;  *)
(* an outage is written, and the health of all sources read, one attribute *)
(* after another with no lock.                                             *)
(***************************************************************************)
EXTENDS Integers, Sequences, FiniteSets, SequencesExt

CONSTANTS
    Requests,       \* request threads
    Adapters,       \* the registry's sources, in its order
    MaxOutages      \* bound: requests that set a source's health

RADAR == "DOPPLER_RADAR_PARADIP"
GAUGES == "IMD_AWS_ARG_ODISHA"
CWC == "CWC_TELEMETRY_MAHANADI"

ASSUME OutageAssumption ==
    Adapters \in Seq(Range(Adapters)) /\ {RADAR, GAUGES, CWC} \subseteq Range(Adapters)
ASSUME OutagesAssumption == MaxOutages \in Nat

VARIABLES
    health,   \* source -> its status and quality flag: TRUE if as they should be
    request,  \* thread -> the request it is in
    outages   \* requests begun that set a source's health

outageVars == <<health, request, outages>>

AllSources == Range(Adapters)
Attributes == {"status", "flag"}
Looks == Attributes \cup {"again"}     \* a second look at the status
Reads == AllSources \X Attributes
Confidence == {"HIGH", "MEDIUM", "DATA_DEGRADED", "NONE"}

(* todo: what is still to be written or read. seen: what was read and good. *)
(* ever, always: history, what was good at some moment of the request and   *)
(* what was good at every one.                                              *)
RequestStates == [kind : {"idle", "offline", "restore", "alerts", "nowcast"},
            todo : Seq(AllSources \X Looks), seen : SUBSET (AllSources \X Looks),
            ever : SUBSET Reads, always : SUBSET Reads, answer : Confidence]
NoRequest == [kind |-> "idle", todo |-> <<>>, seen |-> {}, ever |-> {}, always |-> {},
              answer |-> "NONE"]

OutageTypeOK ==
    /\ health \in [Reads -> BOOLEAN]
    /\ request \in [Requests -> RequestStates]
    /\ outages \in 0 .. MaxOutages

OutageInit ==
    /\ health = [x \in Reads |-> TRUE]
    /\ request = [t \in Requests |-> NoRequest]
    /\ outages = 0
-----------------------------------------------------------------------------
Good == {x \in Reads : health[x]}
StatusReads == [i \in 1 .. Len(Adapters) |-> <<Adapters[i], "status">>]
PairedReads ==
    [i \in 1 .. 2 * Len(Adapters) |->
        <<Adapters[(i + 1) \div 2], IF i % 2 = 1 THEN "flag" ELSE "status">>]

(* simulate_source_outage: the status is written before the flag            *)
SetHealth(t, s, kind) ==
    /\ request[t].kind = "idle" /\ outages < MaxOutages
    /\ outages' = outages + 1
    /\ request' = [request EXCEPT ![t] = [NoRequest EXCEPT !.kind = kind,
                       !.todo = <<<<s, "status">>, <<s, "flag">>>>]]
    /\ UNCHANGED health

(* get_alerts: every status, then those of the radar and the gauges of the  *)
(* river again                                                              *)
AskAlerts(t) ==
    /\ request[t].kind = "idle"
    /\ request' = [request EXCEPT ![t] = [NoRequest EXCEPT !.kind = "alerts",
           !.todo = StatusReads \o <<<<RADAR, "again">>, <<CWC, "again">>>>,
           !.ever = Good, !.always = Good]]
    /\ UNCHANGED <<health, outages>>

(* get_rainfall_nowcast: flag and status of each                            *)
AskNowcast(t) ==
    /\ request[t].kind = "idle"
    /\ request' = [request EXCEPT ![t] = [NoRequest EXCEPT !.kind = "nowcast",
           !.todo = PairedReads, !.ever = Good, !.always = Good]]
    /\ UNCHANGED <<health, outages>>

(* A write, which the history of every request takes note of                *)
Write(t) ==
    LET x == Head(request[t].todo)
        good == request[t].kind = "restore"
        noted(r) == [r EXCEPT !.ever = IF good THEN @ \cup {x} ELSE @,
                              !.always = IF good THEN @ ELSE @ \ {x}]
    IN  /\ request[t].kind \in {"offline", "restore"} /\ request[t].todo # <<>>
        /\ health' = [health EXCEPT ![x] = good]
        /\ request' = [u \in Requests |->
               IF u = t THEN [request[t] EXCEPT !.todo = Tail(@)]
               ELSE IF request[u].kind \in {"alerts", "nowcast"} THEN noted(request[u])
               ELSE request[u]]
        /\ UNCHANGED outages

Looked(x) == IF x[2] = "again" THEN <<x[1], "status">> ELSE x

Read(t) ==
    LET x == Head(request[t].todo)
    IN  /\ request[t].kind \in {"alerts", "nowcast"} /\ request[t].todo # <<>>
        /\ request' = [request EXCEPT ![t].todo = Tail(@),
               ![t].seen = IF health[Looked(x)] THEN @ \cup {x} ELSE @]
        /\ UNCHANGED <<health, outages>>
-----------------------------------------------------------------------------
MOSDAC == "MOSDAC_INSAT_3DR_HEM"
IMERG == "NASA_GPM_IMERG_EARLY"

(* BASE_WEIGHTS of the valid sources, in percent; 5 for a source that has   *)
(* none, such as the river's, and for the weather model's                   *)
TotalWeight(valid) ==
    LET weight(s, w) == IF s \in valid THEN w ELSE 0
    IN  weight(RADAR, 45) + weight(GAUGES, 25) + weight(MOSDAC, 15) + weight(IMERG, 10)
        + 5 * Cardinality(valid \ {RADAR, GAUGES, MOSDAC, IMERG})

(* Mutant: the status of a source with a good flag does not matter. *)
ValidByFlag(seen) == {s \in AllSources : <<s, "flag">> \in seen}

(* fuse_precipitation: a source has weight if its flag is good and its      *)
(* status healthy                                                           *)
Valid(seen) == {s \in AllSources : <<s, "flag">> \in seen /\ <<s, "status">> \in seen}

FusedConfidence(seen) ==
    LET valid == Valid(seen)
    IN  IF {RADAR, GAUGES} \subseteq valid /\ TotalWeight(valid) >= 65
        THEN "HIGH"
        ELSE IF valid \cap {RADAR, GAUGES} # {} THEN "MEDIUM" ELSE "DATA_DEGRADED"

AlertConfidence(seen) ==
    LET out == {s \in AllSources : <<s, "status">> \notin seen}
    IN  IF \/ {<<RADAR, "again">>, <<CWC, "again">>} \ seen # {}
           \/ Cardinality(out) >= 3
        THEN "DATA_DEGRADED"
        ELSE IF out # {} THEN "MEDIUM" ELSE "HIGH"

Answer(t) ==
    /\ request[t].kind \in {"alerts", "nowcast"} /\ request[t].todo = <<>>
    /\ request[t].answer = "NONE"
    /\ request' = [request EXCEPT ![t].answer =
           IF request[t].kind = "alerts" THEN AlertConfidence(request[t].seen)
                                         ELSE FusedConfidence(request[t].seen)]
    /\ UNCHANGED <<health, outages>>

EndRequest(t) ==
    /\ request[t].kind # "idle" /\ request[t].todo = <<>>
    /\ request[t].kind \in {"alerts", "nowcast"} => request[t].answer # "NONE"
    /\ request' = [request EXCEPT ![t] = NoRequest]
    /\ UNCHANGED <<health, outages>>

OutageNext ==
    \E t \in Requests :
        \/ \E s \in AllSources : SetHealth(t, s, "offline") \/ SetHealth(t, s, "restore")
        \/ AskAlerts(t) \/ AskNowcast(t)
        \/ Write(t) \/ Read(t) \/ Answer(t) \/ EndRequest(t)

OutageSpec == OutageInit /\ [][OutageNext]_outageVars
-----------------------------------------------------------------------------
(* However outages are written while a request reads: it answers HIGH only  *)
(* if everything that HIGH rests on was good at some moment of the request, *)
(* and DATA_DEGRADED only if what would have prevented it was not good all  *)
(* the time. An outage that lasts for the whole of a request is never       *)
(* missed, and one that it never meets is never reported.                   *)
ConfidenceTellsOutage ==
    \A t \in Requests :
        LET r == request[t]
            fit(s, reads) == {s} \X Attributes \subseteq reads
        IN  /\ r.kind = "nowcast" /\ r.answer = "HIGH" =>
                   fit(RADAR, r.ever) /\ fit(GAUGES, r.ever)
            /\ r.kind = "nowcast" /\ r.answer # "NONE" /\ r.answer # "HIGH" =>
                   ~fit(RADAR, r.always) \/ ~fit(GAUGES, r.always)
            /\ r.kind = "alerts" /\ r.answer = "HIGH" =>
                   AllSources \X {"status"} \subseteq r.ever
            /\ r.kind = "alerts" /\ r.answer = "DATA_DEGRADED" =>
                   \/ <<RADAR, "status">> \notin r.always
                   \/ <<CWC, "status">> \notin r.always
                   \/ Cardinality({s \in AllSources : <<s, "status">> \notin r.always}) >= 3
=============================================================================
