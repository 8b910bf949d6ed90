------------------------------- MODULE ImdAws -------------------------------
(***************************************************************************)
(* The weather stations of the India Meteorological Department: the HTTP   *)
(* client with its retries (providers/imd_aws_client.py), the adapter that *)
(* turns an answer into observations (IMDLiveAdapter in live_adapters.py)  *)
(* and the SQLite repository that keeps them (imd_aws_repository.py).      *)
(*                                                                         *)
(* One client, one adapter and one repository serve every thread: two      *)
(* fetches interleave between requests, between the client's bookkeeping   *)
(* and the adapter's, and between the two transactions of a record. Time   *)
(* is counted in seconds from the start of the server. The events a fetch  *)
(* publishes are EventBus's business.                                      *)
(***************************************************************************)
EXTENDS Integers, Sequences, SequencesExt

CONSTANTS
    Threads,      \* that may fetch: the request pool's and the event loop's
    Signs,        \* call signs of stations
    Records,      \* raw records the provider may send
    Payloads,     \* sequences of them: the bodies of its answers
    Answers,      \* what a request may meet
    MaxRetries    \* of the client

AllAnswers == {"payload", "malformed", "bad_request", "denied", "missing",
               "limited", "unavailable", "timeout", "network"}

(* A raw record is fit to be used, is turned down (no call sign, no usable  *)
(* coordinates), or is no record at all, which breaks the fetch. Its stamp  *)
(* is absent, carries its offset, or is a local time that does not.         *)
Record == [use : {"fit", "unfit", "broken"}, sign : Signs, stamp : Int,
           zone : {"none", "offset", "naive"}, odd : BOOLEAN, rain : BOOLEAN]

ASSUME ImdAssumption ==
    /\ Records \subseteq Record
    /\ Payloads \subseteq Seq(Records)
    /\ Answers \subseteq AllAnswers
    /\ MaxRetries \in Nat \ {0}

VARIABLES
    clock,
    calls,      \* thread -> the fetch it is in
    client,     \* the client's diagnostics: success, failure, category
    failures,   \* the adapter's _consecutive_failures
    stations,   \* call signs in imd_aws_stations
    rows,       \* <<call sign, time>> -> the row of imd_aws_observations
    met         \* history: thread -> categories noted while it was requesting

imdVars == <<clock, calls, client, failures, stations, rows, met>>

Categories == {"NONE", "CONFIGURATION_ERROR", "ACCESS_DENIED",
               "ENDPOINT_NOT_FOUND", "RATE_LIMITED", "PROVIDER_UNAVAILABLE",
               "TIMEOUT", "NETWORK_ERROR", "UNEXPECTED_ERROR"}
Results == {"NONE", "OBSERVED_IMD_AWS", "NO_DATA", "NOT_CONFIGURED",
            "RATE_LIMITED", "TIMEOUT", "OFFLINE", "RAISED"}

Call == [at : {"idle", "request", "failed", "answered", "record", "row", "done"},
         attempt : 0 .. MaxRetries, category : Categories, todo : Seq(Records),
         accepted : BOOLEAN, retrieved : Nat, result : Results]
Row == [raw : Record, retrieved : Nat,
        quality : {"GOOD", "SUSPECT", "STALE", "MISSING"}]

Idle == [at |-> "idle", attempt |-> 0, category |-> "NONE", todo |-> <<>>,
         accepted |-> FALSE, retrieved |-> 0, result |-> "NONE"]

ImdTypeOK ==
    /\ clock \in Nat
    /\ calls \in [Threads -> Call]
    /\ client \in [success : BOOLEAN, failure : BOOLEAN, category : Categories]
    /\ failures \in Nat
    /\ stations \subseteq Signs
    /\ DOMAIN rows \subseteq Signs \X Int
    /\ \A key \in DOMAIN rows : rows[key] \in Row
    /\ met \in [Threads -> SUBSET Categories]

(* _ensure_schema: a row per call sign, and one per key of an observation   *)
(* whose station must be there; no table holds any yet.                     *)
EnsureSchema == stations = {} /\ rows = <<>>

ImdInit ==
    /\ clock = 0
    /\ calls = [t \in Threads |-> Idle]
    /\ client = [success |-> FALSE, failure |-> FALSE, category |-> "NONE"]
    /\ failures = 0
    /\ EnsureSchema
    /\ met = [t \in Threads |-> {}]
-----------------------------------------------------------------------------
(*                              The client                                 *)

(* A status other than 200 and a malformed body are raised inside the try   *)
(* whose last handler relabels them.                                        *)
CategoryOf(answer) ==
    CASE answer = "bad_request" -> "CONFIGURATION_ERROR"
      [] answer = "denied" -> "ACCESS_DENIED"
      [] answer = "missing" -> "ENDPOINT_NOT_FOUND"
      [] answer = "limited" -> "RATE_LIMITED"
      [] answer = "unavailable" -> "PROVIDER_UNAVAILABLE"
      [] answer = "timeout" -> "TIMEOUT"
      [] answer = "network" -> "NETWORK_ERROR"
      [] OTHER -> "UNEXPECTED_ERROR"

(* Does a failed attempt, the n-th, end the fetch? A rate limit is always   *)
(* waited for, even when no attempt is left.                                *)
GivesUp(answer, n) ==
    \/ answer \in {"bad_request", "denied", "malformed"}
    \/ answer # "limited" /\ n = MaxRetries

(* What a request met, its own thread and every other that is requesting    *)
(* have seen happen; one that was answered has no failure to report.        *)
Noted(category) ==
    [t \in Threads |-> IF calls[t].at = "request" THEN met[t] \cup {category} ELSE met[t]]

StartFetch(t) ==
    /\ calls[t].at = "idle"
    /\ calls' = [calls EXCEPT ![t] = [Idle EXCEPT !.at = "request"]]
    /\ UNCHANGED <<clock, client, failures, stations, rows, met>>

Answered(t) ==
    /\ calls[t].at = "request" /\ calls[t].attempt < MaxRetries
    /\ "payload" \in Answers
    /\ \E payload \in Payloads :
           calls' = [calls EXCEPT ![t] = [Idle EXCEPT !.at = "answered",
                                                      !.todo = payload]]
    /\ client' = [client EXCEPT !.success = TRUE, !.category = "NONE"]
    /\ met' = [Noted("NONE") EXCEPT ![t] = {}]
    /\ UNCHANGED <<clock, failures, stations, rows>>

Attempted(t) == [calls[t] EXCEPT !.attempt = @ + 1]

(* Mutant: a rate limit is waited for and not noted *)
RefusedUnnoted(t) ==
    /\ calls[t].at = "request" /\ calls[t].attempt < MaxRetries
    /\ \E answer \in Answers \ {"payload"} :
           /\ client' = IF answer = "limited" THEN client
                        ELSE [client EXCEPT !.failure = TRUE,
                                            !.category = CategoryOf(answer)]
           /\ met' = Noted(CategoryOf(answer))
           /\ calls' = [calls EXCEPT ![t] =
                  IF GivesUp(answer, calls[t].attempt + 1)
                  THEN [Idle EXCEPT !.at = "failed",
                                    !.category = CategoryOf(answer)]
                  ELSE Attempted(t)]
    /\ UNCHANGED <<clock, failures, stations, rows>>

Refused(t) ==
    /\ calls[t].at = "request" /\ calls[t].attempt < MaxRetries
    /\ \E answer \in Answers \ {"payload"} :
           /\ client' = [client EXCEPT !.failure = TRUE,
                                       !.category = CategoryOf(answer)]
           /\ met' = Noted(CategoryOf(answer))
           /\ calls' = [calls EXCEPT ![t] =
                  IF GivesUp(answer, calls[t].attempt + 1)
                  THEN [Idle EXCEPT !.at = "failed",
                                    !.category = CategoryOf(answer)]
                  ELSE Attempted(t)]
    /\ UNCHANGED <<clock, failures, stations, rows>>

(* The loop ran out: the error takes the category it finds in the client,   *)
(* which another thread may have changed.                                   *)
RetriesExhausted(t) ==
    /\ calls[t].at = "request" /\ calls[t].attempt = MaxRetries
    /\ calls' = [calls EXCEPT ![t] = [Idle EXCEPT !.at = "failed",
           !.category = IF client.category = "NONE"
                        THEN "PROVIDER_UNAVAILABLE" ELSE client.category]]
    /\ UNCHANGED <<clock, client, failures, stations, rows, met>>
-----------------------------------------------------------------------------
(*                              The adapter                                *)

StateOf(category) ==
    CASE category \in {"ACCESS_DENIED", "CONFIGURATION_ERROR"} -> "NOT_CONFIGURED"
      [] category = "RATE_LIMITED" -> "RATE_LIMITED"
      [] category = "TIMEOUT" -> "TIMEOUT"
      [] OTHER -> "OFFLINE"

Ended(result) == [Idle EXCEPT !.at = "done", !.result = result]

FetchFailed(t) ==
    /\ calls[t].at = "failed"
    /\ failures' = failures + 1
    /\ calls' = [calls EXCEPT ![t] = Ended(StateOf(calls[t].category))]
    /\ UNCHANGED <<clock, client, stations, rows, met>>

FetchSucceeded(t) ==
    /\ calls[t].at = "answered"
    /\ failures' = 0
    /\ calls' = [calls EXCEPT ![t].at = "record", ![t].retrieved = clock]
    /\ UNCHANGED <<clock, client, stations, rows, met>>

(* _parse_observation_time: a local time is taken for UTC or for Indian     *)
(* time, whichever is nearer to the moment it is read.                      *)
IstOffset == 19800
Distance(a, b) == IF a < b THEN b - a ELSE a - b
ObservedAt(raw, now) ==
    LET indian == raw.stamp - IstOffset
    IN  CASE raw.zone = "none" -> now
          [] raw.zone = "offset" -> raw.stamp
          [] /\ raw.zone = "naive"
             /\ raw.stamp <= now + 300
             /\ Distance(now, raw.stamp) <= Distance(now, indian) -> raw.stamp
          [] OTHER -> IF indian <= now + 600 THEN indian ELSE raw.stamp

(* check_observation: a value out of its physical range outranks age, age   *)
(* outranks missing rain.                                                   *)
StaleAfter == 10800
Quality(raw, now) ==
    CASE raw.odd -> "SUSPECT"
      [] ~raw.odd /\ now - ObservedAt(raw, now) > StaleAfter -> "STALE"
      [] OTHER -> IF raw.rain THEN "GOOD" ELSE "MISSING"

Key(raw, now) == <<raw.sign, ObservedAt(raw, now)>>

NextRecord(t) == Head(calls[t].todo)

Rejected(t) ==
    /\ calls[t].at = "record" /\ calls[t].todo # <<>>
    /\ NextRecord(t).use = "unfit"
    /\ calls' = [calls EXCEPT ![t].todo = Tail(@)]
    /\ UNCHANGED <<clock, client, failures, stations, rows, met>>

(* Nothing catches this before the scheduler: what was stored stays, the    *)
(* rest of the answer is not read, and no run is recorded.                  *)
FetchRaised(t) ==
    /\ calls[t].at = "record" /\ calls[t].todo # <<>>
    /\ NextRecord(t).use = "broken"
    /\ calls' = [calls EXCEPT ![t] = Ended("RAISED")]
    /\ UNCHANGED <<clock, client, failures, stations, rows, met>>

(* Mutant: INSERT OR REPLACE of the station, whose deletion cascades to its rows *)
StoreStationReplacing(t) ==
    /\ calls[t].at = "record" /\ calls[t].todo # <<>>
    /\ NextRecord(t).use = "fit"
    /\ stations' = stations \cup {NextRecord(t).sign}
    /\ rows' = [k \in {x \in DOMAIN rows : x[1] # NextRecord(t).sign} |-> rows[k]]
    /\ calls' = [calls EXCEPT ![t].at = "row"]
    /\ UNCHANGED <<clock, client, failures, met>>

(* store_station, a transaction of its own *)
StoreStation(t) ==
    /\ calls[t].at = "record" /\ calls[t].todo # <<>>
    /\ NextRecord(t).use = "fit"
    /\ stations' = stations \cup {NextRecord(t).sign}
    /\ calls' = [calls EXCEPT ![t].at = "row"]
    /\ UNCHANGED <<clock, client, failures, rows, met>>

(* INSERT OR IGNORE, keyed by call sign and time *)
Inserted(key, row) ==
    [k \in DOMAIN rows \cup {key} |-> IF k \in DOMAIN rows THEN rows[k] ELSE row]

(* Mutant: A row stamped when it is stored rather than when it was retrieved *)
StoreObservationLate(t) ==
    LET raw == NextRecord(t)
    IN  /\ calls[t].at = "row"
        /\ rows' = Inserted(Key(raw, clock),
                            [raw |-> raw, retrieved |-> calls[t].retrieved,
                             quality |-> Quality(raw, clock)])
        /\ calls' = [calls EXCEPT ![t].at = "record", ![t].todo = Tail(@),
                                  ![t].accepted = TRUE]
        /\ UNCHANGED <<clock, client, failures, stations, met>>

StoreObservation(t) ==
    LET raw == NextRecord(t)
        now == calls[t].retrieved
    IN  /\ calls[t].at = "row"
        /\ rows' = Inserted(Key(raw, now),
                            [raw |-> raw, retrieved |-> now,
                             quality |-> Quality(raw, now)])
        /\ calls' = [calls EXCEPT ![t].at = "record", ![t].todo = Tail(@),
                                  ![t].accepted = TRUE]
        /\ UNCHANGED <<clock, client, failures, stations, met>>

FetchEnded(t) ==
    /\ calls[t].at = "record" /\ calls[t].todo = <<>>
    /\ calls' = [calls EXCEPT ![t] = Ended(IF calls[t].accepted
                                            THEN "OBSERVED_IMD_AWS" ELSE "NO_DATA")]
    /\ UNCHANGED <<clock, client, failures, stations, rows, met>>

(* The caller takes the result. *)
Returned(t) ==
    /\ calls[t].at = "done"
    /\ calls' = [calls EXCEPT ![t] = Idle]
    /\ met' = [met EXCEPT ![t] = {}]
    /\ UNCHANGED <<clock, client, failures, stations, rows>>

FetchStep(t) ==
    \/ Answered(t) \/ Refused(t) \/ RetriesExhausted(t)
    \/ FetchFailed(t) \/ FetchSucceeded(t)
    \/ Rejected(t) \/ FetchRaised(t) \/ StoreStation(t) \/ StoreObservation(t)
    \/ FetchEnded(t)

Tick ==
    /\ clock' \in Nat /\ clock' > clock
    /\ UNCHANGED <<calls, client, failures, stations, rows, met>>

ImdNext == Tick \/ \E t \in Threads : StartFetch(t) \/ FetchStep(t) \/ Returned(t)

ImdSpec == ImdInit /\ [][ImdNext]_imdVars
-----------------------------------------------------------------------------
(***************************************************************************)
(* Properties.                                                             *)
(***************************************************************************)

(* The failure a fetch reports is one that some request met while it was    *)
(* requesting itself, never one left in the client from before: what the    *)
(* loop that ran out takes for its category is shared by all threads, and   *)
(* may be another one's, but it is never stale.                             *)
Failures == {StateOf(category) : category \in Categories}
ResultOfItsTime ==
    \A t \in Threads :
        calls[t].at = "done" /\ calls[t].result \in Failures =>
            \E category \in met[t] : calls[t].result = StateOf(category)

(* An observation's station is in the catalog before the observation is     *)
(* stored, and a row is the reading of its own record at the moment that    *)
(* record was retrieved, whatever other fetches store in between.           *)
RowsTraceable ==
    \A key \in DOMAIN rows :
        /\ key[1] \in stations
        /\ key = Key(rows[key].raw, rows[key].retrieved)

(* An observation once stored is neither deleted, though the tables cascade *)
(* deletions, nor replaced by a later reading with the same identity.       *)
RowsKept == \A key \in DOMAIN rows : key \in DOMAIN rows' /\ rows'[key] = rows[key]
ObservationsKept == [][RowsKept]_rows
=============================================================================
