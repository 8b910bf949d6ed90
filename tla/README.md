# JALDRISHTI AI: a TLA+ development

JALDRISHTI AI is a flood forecasting and warning server for the Mahanadi delta: one FastAPI process
(`apps/api/main.py`) over the services in `services/`, models in `ml/`, and a web front end in
`apps/web/`. This directory keeps, beside the code, TLA+ modules of the parts whose correctness
depends on order: who is warned, when an operator has decided, what survives a restart, what two
threads do to each other. TLC checks them on small instances and TLAPS proves every safety property
that the runs check, for every instance. Paths below are relative to the repository's root.

Contents: 1 the system; 2 how the code runs; 3 modules; 4 runs, bounds and fairness; 5 proofs;
6 where the code and its documents differ; 7 what is not modelled; 8 plan.

## 1. The system

| Part | State it keeps | Operations | Interacts with |
|---|---|---|---|
| Alert engine, `services/alerts` | catalog of incidents by alert id, active fingerprints, audit lists | evaluate, review, acknowledge; public feed and badge in `main.py` | called by HTTP threads and by the demo |
| Demo orchestrator, `services/demo` | active, stage, acknowledged, notified | start, step, acknowledge, reset | writes the demo incident into the alert engine's catalog |
| Event bus and store, `services/events` | events by id, deduplication index, daily JSONL files, the bus's queue | append, publish, query, reload | every service publishes; handlers become tasks of the loop |
| Forecast trigger and job queue, `services/forecasting` | pending sources, debounce task, last trigger; jobs, queue, worker | receive, trigger, submit, run, stop | subscribes to source data; the worker runs the pipeline |
| Inundation evolution, risk and state version, `services/inundation_evolution`, `services/risk`, `services/runtime/current_state.py` | snapshots and risks (JSONL), the version and its file | process a flood, assess a risk, take a number | the pipeline and `POST /inundation/inject-test` call it, events chain it |
| Notification fan-out, `notification_service.py`, `policy_engine.py`, `notification_types.py` | fingerprints with their times, each citizen's last policy | handle an alert event, allow or suppress | subscribes to alert events, enqueues messages |
| Notification queue, `notification_queue.py` | queue, counters, delivery history, worker | enqueue, send, retry, give up, stop | providers |
| User store, `user_store.py`, `db/` | cached users, tables of users, OTPs and subscriptions, one lock | register, request and verify an OTP, load, add and delete subscriptions | HTTP threads; read by the fan-out |
| Operating mode, `services/runtime/mode_manager.py` | four mode fields | switch to live or to simulation, status | HTTP threads; read by forecasts |
| Polling scheduler, `services/scheduler` | fetch times, latest data, history of runs | poll one source, all that are due, all by force | HTTP threads and the socket's poll cycle; calls the adapters |
| Source adapters, `services/ingestion` | client's bookkeeping, failure counter, SQLite tables of stations and observations | fetch with retries, quality check, store | the scheduler; publishes to the bus |
| Coalesced forecast, `current_state.py` | running flag, time of the last run, provenance chains | trigger, by force or not | endpoints and the socket |
| WebSocket clients, `main.py`, `dispatcher.py` | list of connections | connect, synchronise, broadcast, tick | bus, state version |
| Rate limiter, `notifications/security.py` | request times and lockouts by key | check, reset | login and OTP requests |
| Forecast cache, `forecast_cache.py` | surfaces, manifests by run | get, put, precompute, invalidate | HTTP threads |
| Anomaly detection, `services/anomaly` | baselines, flatline values, streak by station, records | evaluate an event's readings | bus |
| Simulated sources and fusion, `ingestion/adapters`, `services/fusion` | health of each source | set an outage, read confidence | HTTP threads; alert evaluations |
| Basin twin, `services/basin_state` | one mutable state, its history | update by a request, read | HTTP threads |
| Hydrology source, `fallback_manager.py` (not modelled) | forced source, audit log | force, evaluate, forecast | HTTP threads |
| Replay, hindcast, hydrology, impact, templates, geofence | mostly none | formulas over real numbers, I/O | bus |

What makes each part correct, and what is hard to test about it:

* **Alert engine**: no RED alert is public before an operator decided on that incident; every
  operator's decision has an audit record; index, feed and badge agree with the catalog. Hard:
  handlers run in a pool of threads and the engine has no lock; an incident can be replaced under
  its id while a review holds the old object.
* **Demo**: the same gate, through every walk back and forth; its data stays out of the live feed.
* **Bus and store**: an observation is on disk once, also across restarts and midnight; protected
  events are handled whatever the load. Hard: publishers on the loop and in threads, failed writes.
* **Trigger and queue**: no update is used twice, and none is lost but with a trigger whose event
  could not be logged; the queue and the job states agree. Hard: timers, throttling, full queue,
  a publication that raises, shutdown.
* **Risk cascade**: no stale risk stays; version numbers are not reused. Hard: handlers that run
  after later runs, a publication that raises after the snapshot was stored, a crash between a number
  and the file that keeps it.
* **Fan-out and queue**: no escalation is withheld, no flood of messages, every message has one
  outcome. Hard: a registry shared by citizens, retries that reorder, cancellation anywhere.
* **User store**: a code is accepted once, attempts are bounded, nobody loses a subscription.
  Hard: transactions outside the lock, a cache beside the tables, restarts.

* **Live sources**: a failed fetch reports a failure of its own time, a row is traceable to its record and
  never replaced, the mode is whole once its switches are over, a forecast's provenance names a mode
  the system was in. Hard: two threads in one client without a lock, two transactions a record.
* **WebSocket clients**: who stays connected misses no event. Hard: a broadcast awaits each client
  while others catch up and leave.
* **Limiter and cache**: a bound on requests and on entries although the check and the act are
  apart. Hard: a time read before the lock, an eviction by two threads.
* **Anomalies**: a reading that repeats the last one is frozen if as many before it are alike as the
  limit says, a streak is of records in a row.
  Hard: events that break off half way, stations and variables that mix.
* **Outages, twin**: an answer agrees with what was true at some moment of its request; an update that met no other is not lost. Hard: state read and written attribute by
  attribute without a lock.

`PROJECT.json` lists these hazards one by one, at the line where they bite.

## 2. How the code runs

Three facts about the code decide what a step of a module is.

* *Coroutines share one event loop and switch only where they suspend.* `EventBus.publish` awaits
  nothing that suspends: it appends to the store and creates a task per asynchronous subscriber.
  A coroutine that only publishes is therefore one step, which may break off: the store's write
  raises when the log cannot be written (`event_store.py:67`). The handlers' tasks run later, in the
  order in which they were created.
* *Handlers declared `def` run in a thread pool.* They interleave with each other and with the
  loop. `AlertEngine` takes no lock, so its calls are split at each read of the catalog that a
  later write relies on. `UserStore` and the demo hold a lock over most of a call, and what is
  done under it is one step; `UserStore` is split where it runs a transaction outside. The parts
  without a lock (`LiveRuntime`, `ImdAws`, `ForecastCache`, `SourceOutage`, `BasinTwin`)
  are split at every read and write of an attribute another thread writes.
  CPython switches threads more rarely; more interleavings are sound for the properties that hold.
* *Only files and the database survive.* Restarts keep the event log, the snapshot and risk
  histories, the version's file and the tables, and lose the rest, including tasks created.

Data are abstracted to what the properties tell apart. An alert id is its severity (the ids of one
run differ in nothing else), a fingerprint its severity and stage bracket, an event its key and
priority, a flood its run, area and probability, a phone is the one citizen the module is about.
Time is a countdown of ticks, or an action that expires something.

## 3. Modules

| Module | Models | State and actions in the code's terms |
|---|---|---|
| `AlertLifecycle` | the constant part of `services/alerts` | `VALID_TRANSITIONS`, `ALLOWED_PERMISSIONS`, severity rules, the readers' filters |
| `HumanReviewGate` | abstract specification | what the public is promised: RED is shown only after a decision, decisions are not unmade |
| `AlertEngine` | `alert_engine.py` under its endpoints | `catalog` is `_incidents`; `Evaluate` and `StoreIncident` are the halves of `evaluate_alert`; `StartReview`, `ApplyReview`, `RecordReview` those of `execute_review_action`; `AcknowledgeAlert` the endpoint's fallback |
| `DemoOrchestrator` | `services/demo` on top of `AlertEngine` | `StepForward`, `FinishStage` and the rest; an operation writes the status, then the severity |
| `EventBus` | `event_bus.py`, `event_store.py`, thread publishers of `live_adapters.py` | `stored`, `keys`, `log`, `depth`; `Publish` on the loop, `ThreadAppend` and `ThreadFanOut` in a thread, `RunHandler`, `Restart` |
| `ForecastTrigger` | `trigger_engine.py`, `job_queue.py` | `ReceiveUpdate` restarts the debounce, `TriggerRun` submits, `TriggerFails` is the same up to a publication that raises, `StartJob`, `EndJob` |
| `RiskEvolution` | `runner.py`, `evolution_service.py`, `risk_service.py`, their stores, `increment_state_version` | `program` is what the running coroutine has yet to do, `tasks` the handlers waiting; `Pipeline`, `Evolution`, `Assessment` are the three coroutines as sequences of steps; `PublicationFails` ends one at a publication |
| `NotificationPolicy` | `notification_service.py`, `policy_engine.py` | `HandleAlertEvent` is gate, policy, anti-spam and fan-out of one event |
| `PublicWarning` | composes it with the lifecycle and the bus | the run, whose alert event is never created, the incident, its review, and the bus's way to the citizen |
| `NotificationQueue` | `notification_queue.py` and what each provider answers by channel | `Take`, `Accepted`, `GiveUp`, `Raised`, `BackOff`, `Requeue`, `StopWorker` |
| `UserStore` | `user_store.py`, `repositories.py`, `schema.sql` | a thread's `pc` stands between two transactions; `Restart` loses the cache |
| `ImdAws` | `imd_aws_client.py`, `IMDLiveAdapter`, `imd_aws_repository.py`, `qc.py` | `calls[t]` is the fetch a thread is in: request, retry after a refusal, records one by one, each in two transactions; `rows` is the table of observations |
| `SourceAdapters` | the other adapters of `live_adapters.py`, `glofas_adapter.py` | what a fetch answers, from what is configured, and how often one may be made |
| `LiveRuntime` | `mode_manager.py`, `live_scheduler.py`, `trigger_coalesced_forecast`, the endpoints over them | `jobs[t]` is a request: `WriteField` for each field of a switch, `StartPoll` to `RecordRun`, `StartForecast` to `Release` |
| `WebSocketClients` | connection manager, `/ws/v1/live`, tick and broadcasts | a step lies between two awaits; `casts[i].todo` is whom a broadcast has still to reach |
| `RateLimiter` | `MultiDimensionRateLimiter` | `ReadTime` before the lock; `GrantRequest`, `RefuseLocked`, `RefuseBreach` under it; `ResetLimit` |
| `ForecastCache` | `forecast_cache.py` | room, oldest entry, eviction and insertion are four steps |
| `AnomalyDetection` | `services/anomaly` | `Arrive` is the handler's start, `ProcessReading` its next reading, whose publish may end the event; layers of the cascade as operators |
| `SourceOutage` | `ingestion/adapters`, confidence of `get_alerts` and `precipitation.py` | an outage writes and a request reads one attribute a step |
| `BasinTwin` | `digital_basin_engine.py`, `basin_state_store.py` | an update's statements in order; a quantity is the set of requests it counts |

`MC*` modules give the instances; `*Proofs` modules hold theorems. `LiveRuntime` composes `ImdAws`
and `SourceAdapters`: a poll of the weather stations *is* a fetch of `ImdAws`. Two `MC` modules hold
parts side by side that share no variable: `MCServices` has a variable `focus`, chosen in the
initial state, which says which of six parts moves, and `MCLiveRuntime` has `side`. Nothing is
claimed of the parts together there; it is one run for several small, independent state spaces. `AlertEngine` is composed twice:
`DemoOrchestrator` extends it, and it implements `HumanReviewGate` by `ShownRed`, the keys of the
RED incidents on the feed. An incident gets a key of its own because an id is reused: a decision
counts for the incident it was taken on. History variables (`decided`, `handled`, `lost`, `told`, `window`, `met`, `unannounced`,
`accepted`, `tries`, `rewound`, ...) are named as such and are read by no guard.

Definitions marked *Mutant* are not part of the model: each is a plausible bug (a missing reset, a
swapped order, an off-by-one) which, put in the place of the definition after it, breaks the
property that `PROJECT.json` pairs it with.

## 4. Runs

Every `.cfg` sets constants only. `CHECK_DEADLOCK FALSE` stands where the counters' bounds, a
stopped worker or a thread that waits for itself really end a behaviour.

| Run | Instance | What it shows |
|---|---|---|
| `alert_engine` | 2 threads (symmetric), live and demo conditions, 2 incidents, 2 reviews | gate and audit in every interleaving; refinement of the gate |
| `demo_review` | all 14 stages, 1 review thread, 1 review, 2 incidents | signatures are given at the stage and visit that needs them, by an operator who reviewed |
| `bus_delivery` | 2 keys, 1 handler, 1 thread, queue of 1, 3 events, 3 days, 2 restarts, 1 failed write | nothing is logged twice; tasks are not orphaned; protected events are handled |
| `forecast_jobs` | windows of 2 and 5 ticks, queue of 1, 6 updates | an update is pending, in exactly one job, or lost with a trigger that broke off; a window that ends when the interval is over takes all that is pending; queue and states agree; jobs end |
| `risk_cascade` | 3 runs or injections, surge and recession, 1 restart at any step, publications that raise anywhere | the idle system's risk is not stale and every material change is assessed, unless its own publication raised; versions increase |
| `queue_delivery` | 4 messages, 2 retries, shutdown anywhere | counters balance; one outcome; only retries reorder; every message settles |
| `store_requests` | 2 threads, 2 OTPs of 2 attempts, 1 subscription, 1 restart | one acceptance per code, bounded attempts, no lost subscription, requests end unless stuck |
| `live_sources` | 2 request threads (symmetric) and the event loop, 2 requests of 5 kinds, stations and a forecast source, 4 records in 2 bodies, refusals and rate limits with 2 retries, 1 step of the clock; beside it 2 sockets, 2 versions, 2 events | failures, rows, flag, mode and provenance tell the truth; no client misses an event |
| `services` | 6 parts in turn: 2 limiter threads and 6 ticks; 2 cache threads, 4 puts; 6 anomaly records; 2 requests, 3 outages; 3 alert events between two ticks, 2 citizens; 3 twin updates, 2 at once | quota and lockout, cache size, frozen sensors and streaks, confidence, suppression and storms, updates kept |
| `claim_bus_load`, `claim_warning_dispatched`, `claim_store_deadlock` | the smallest that violates | section 6 |

Each run checks the properties of its row; a type invariant is checked by `alert_engine`; those
of the other modules are not given to TLC, but proved (section 5).

**Why the bounds are enough.** Alerts: two incidents let one replace another under a review, two
threads let two calls overlap, and no action looks at more than one other call. Bus: one slot
fills the queue with the first event, three events let one be stored, shed and logged, three days
and two restarts reach the two-day window of the reload from both sides. Trigger: six updates fill
the queue of one, so that a submission fails while a job runs. Cascade: a run has a main and a
second snapshot, two injections are opposite material changes, and a third request overlaps the
handlers of both. Queue: four messages with two retries let a message be overtaken twice. Store:
a second OTP replaces the first in the middle of its verification. Live sources: two fetches at once
are the least that interleave in the client, one body has a record that is turned down before one
that is stored, the other a record that breaks the fetch after one that was stored; the clock's step
is the 5 h 30 min by which a local time may be misread; two switches, or a switch and a forecast, need two requests. Sockets: one
leaves in a broadcast that the other waits for; with a gap and a replay limit of 1 a client is caught
up, or sent a snapshot, after two events. Limiter: `MaxDelay` 1 against a window of 3 and a lockout
of 2 lets a thread be served late by a tick on either side of every border; six ticks are two windows.
Cache: room for one entry, four puts by two threads, so that both find it full at once. Anomalies: a
flatline limit of 2 and six records of two stations, one with two variables. Outages: three, so that one
overlaps another's restoration while a request reads. Policy: three events between two
ticks raise, lower and raise an alert, and a window of 2 ticks has up to six of them. Twin: three
updates of which two overlap (`MaxAtOnce`) and one does not. The proofs of section 5 lift
the bounds for what they cover. Bounds on counters (`Max...`) are in guards of the actions that
count; none is a limit of the code, except `MaxQueueSize`, `MaxRetries`, `MaxOtpAttempts`, which
are its parameters; so are `Capacity`, `Gap`, `ReplayLimit`, `MaxEntries`,
`MaxRequests`, `FlatlineLimit` and the windows, and `MaxHistory` in `LiveRuntime` and `BasinTwin`.

**Fairness.** `EventBus`: weak fairness of each handler's task, because the loop runs every ready
task. `ForecastTrigger`: of timers, of starting and of ending a job; the pipeline awaits nothing
that may not come. `RiskEvolution`: of the loop's next step. `NotificationQueue`: of taking, of an
answer (providers answer or raise) and of the end of a back-off. `UserStore`: strong fairness of a
thread's next step, since a lock that is free again and again is obtained in the end.
`PublicWarning`: of starting
each queued run and of the bus's dispatch. Nothing is assumed of requests, operators, providers'
answers, crashes or shutdowns. `AlertEngine`, `DemoOrchestrator`, `NotificationPolicy` and the
modules of `live_sources` and `services` have safety properties only and state no fairness. Symmetry
of threads and of sockets is used in `alert_engine` and `live_sources`, which check invariants and
action properties only, and none of these names a thread or a socket.

## 5. Proofs

The constants' assumptions are the named `ASSUME`s of each module: bounds and sizes are natural
numbers, conditions and injections are well-formed records. The proofs hold for every value that
satisfies them; TLC evaluates them in every run.

* **`AlertEngineProofs`**: `TypeCorrect`, `GateHolds` (`ReviewGate`) and `GateImplemented`
  (`ImplementsGate`). `ReviewGate` alone is not inductive. `IInv` adds that keys are used once,
  that a draft of RED waits for review, that a RED incident in *any* public state was decided on,
  and `StaleReadsDecided`: a status which a field verification has read and will write back over a
  concurrent decision was itself public only if decided. The refinement needs only `IInv`: a step
  that grows `decided` is a `Decide`, every other one a `Publish`.
  `ChoicesAudited` (`ClosedIsAudited`), on top of it, adds `ReadsAudited`: a field verification
  writes back the status it read, so a chosen status that a call still holds must be audited as well.
  Lemma `UnchosenStep` covers every action but the two halves of a review: the first makes the status
  and the record about to be written appear together, the second replaces the one by the other.
  `ReviewsSigned` (`ReviewedStageSigned`) and `SignaturesReal` (`RedSignaturesReal`) are about the
  demo on top of the engine. It writes statuses without the engine's validation, so `IInv` fails
  under it (a stage of WATCH is RED for a moment) and `DemoInv` is another invariant, about the answers
  of operators: `StatusSigned`, an incident bears one only if it was given; `ReadsSigned`, a review
  that read one will at worst write it back; `AckedSigned` and `VisitSigned`, an acknowledgement that a
  stage's entry has kept was given on the incident on file and in this visit; `FiledSince`, above
  the calm stages there is one on file.
* **`EventBusProofs`**: `TypeCorrect`, `LogHasNoDuplicates` (`NoDuplicateOnDisk`), `TasksRunOnce`
  (`TasksOnce`). `Indexed`: the index knows what the files of today and yesterday hold, which is what a
  restart reads back, and nothing is written ahead of its day. `Ids`: an id is given out once, and an
  event that a thread has yet to fan out has no task. Lemmas `StoreInv` and `FannedOut` say once what
  storing and fanning out do.
* **`UserStoreProofs`**: `TypeCorrect`, `AcceptedOnce` (`CodeAcceptedOnce`), `TriesBounded`
  (`AttemptsBounded`), `CacheListsSubscriptions` (`SubscriptionsListed`). `Exclusive`: who verifies holds
  the lock. `WaitingIsFresh`, `SpentIsGone`: a code that waits to be stored is nobody else's, a spent
  one is in no row and no request. `TriesCounted`: as long as a code's row is there, a verification that
  counted is ahead of the comparisons by its own; once it was replaced there is one comparison left.
  `InsertIsFirst`, `AppendIsOnce`, `RemovedIsGone` order the row and the cached list of a subscription.
* **`ForecastTriggerProofs`**: `TypeCorrect`, `UpdatesConserved` (`UpdatesInOneJob`, with the updates
  that a trigger which broke off has lost apart from those pending and those in jobs) and
  `QueueAgrees` (`QueueMatchesStates`), with `References`: what pending sources, jobs, queue and
  worker refer to exists. Lemma `Submitted` says once what a submission does.
* **`NotificationQueueProofs`**: `TypeCorrect`, `CountersBalance`, `SingleOutcome`,
  `FirstAttemptsInOrder`. `Distinct` says that messages in flight are different; `FirstAttempts`
  that a message waiting for its first attempt is younger than what is ahead of it or retried.
* **`RiskEvolutionProofs`**: `TypeCorrect` and `VersionsIncrease` (`RiskVersionsIncrease`) through
  any number of crashes. `FreshNumber`: an assessment still to come takes a number before it, or
  nothing has the current one. `NumbersTaken`: no risk is above the current number. `SavesBumped`: a
  number still to be saved is nobody's yet, so that a restart may give it out again.
  `RiskIsFresh` (`NoStaleRisk`) rests on `FreshInv`. A program stores at most one snapshot, which it
  then announces (`Orderly`), or breaks off, and then the snapshot is among the `unannounced`; until then its flood is the current one (`AnnouncesCurrent`). So the last
  material change is always followed (`ChangesFollowed`): it is about to be announced, or the
  assessment that will be the last one (of the tasks, else of the program, else the latest in the
  history) is of its flood or a later one.
* **`LiveRuntimeProofs`**: `ImplementsImd`, live operation with its interleaved requests implements
  `ImdSpec`: each of its steps is one of the stations' or leaves them alone. `TypeCorrect`;
  `FailuresOfTheirTime` (`ResultOfItsTime`) by `RequestsMet`: the client's category, and that of a
  fetch whose attempts ran out, is one that was noted while the fetch was requesting;
  `RowsTraced` (`RowsTraceable`) and `RowsStay` (`ObservationsKept`) by `StationsFirst`; `FlagTrue`
  (`FlagTellsRunning`) by `Coalesced`: forecasts that did not overlap are one at most, though this
  counts threads (lemmas over cardinalities); `ModeWholeAgain` (`ModeSettles`) by `SwitchesApart`:
  while no switch met another, the one under way has still to write every field that is not as it
  will leave it; `ProvenanceTrue` (`ChainTellsMode`) by `Undisturbed`, what a request that no switch
  disturbed knows of the mode. `ClientsTypeCorrect` and `NothingIsMissed` (`NothingMissed`) are about the sockets: whoever is there
  is listed (`LiveListed`), so a broadcast has him before it or still begins; no event on file is of
  a version to come (`VersionsPast`); who has not asked yet is owed nothing (`NotYetAsked`). The removal of
  one client while another's broadcast is under way is the case that needs `LiveListed`.
* **`ServicesProofs`**, the six parts that share no state, each with an invariant of its own:
  * limiter: `LimiterTypeCorrect`, `QuotaHolds` (`QuotaKept`) and `LockoutsHold` (`LockoutHolds`), for any
    window and delay. `ReadsRecent` and `Grants` bound by `MaxDelay` how far a request's time lies behind
    the moment of its grant, `InOrder` says that grants are in order of those moments, `Pruned` that
    what the list lost was a window old. A grant finds room, so one of the last `MaxRequests` was
    pruned (lemma `OneMissing`, a pigeonhole), and the next lies a window less the delay after it.
    `Lockouts`: the latest lockout is over or in force;
  * cache: `CacheTypeCorrect` and `CacheBoundHolds` (`CacheBounded`). The bound alone is not inductive: entries *and* threads
    that have found or made room (`Inserting`) are together within it;
  * anomalies: `AnomalyTypeCorrect`, `FrozenIsTrue` (`FrozenTellsReadings`) and `StreakIsTrue` (`StreakTellsRecords`).
    `FrozenTellsTracked` says of every record what the tracker counts, and the property follows for a
    reading that repeats the last one. `FlatTrue` and `StreakTrue` say which records a counter stands for: the latest in a row (`Alike`,
    `BadRun`). Lemmas `Ranked`, `LatestCounted` and `UpwardClosed` turn counts into positions for any
    finite set of numbers: how many of it are later than one of its members is a bijection onto
    0 to all but one, so that a part which holds whatever is later is told by its size alone;
  * outages: `OutageTypeCorrect` and `ConfidenceTold` (`ConfidenceTellsOutage`). `NoneSkipped`: a read that an answer rests on
    is still to come, was good, or was of something that was bad at a moment (lemmas `NowcastPlan`
    and `AlertsPlan`: the reads of any sequence of adapters are the ones planned); `HistoryTrue`: the
    history takes note of what is good now and keeps what was;
  * policy: `PolicyTypeCorrect`, `StormsBounded` (`StormBounded`) and `SuppressedTold` (`SuppressedAlreadyTold`). `ToldInTurn`:
    a citizen was told of a warning in the window once for every lower one, and once more unless he
    has come down to a lower one since; `ToldNow`: who was told lives there, and the cooldown that
    his message started outlasts the window. A window is any stretch of the length of a cooldown:
    `Init` chooses where the first one ends;
  * twin: `TwinTypeCorrect` and `LoneUpdatesKept` (`LoneUpdateKept`). `ByItself`: an update that none has
    overlapped is the only one under way; `LoneStay`: those that ended so are in whatever another has
    read and will write back; `HoldsByItself`: what such an update has
    written, by the place it has reached, is what the twin holds; `VersionsBetween` counts the versions
    given; `Fits`: the parts of the twin fit after the last of them.

Every safety property and action property that a run checks is stated by one of these theorems. Only
model-checked are the six liveness properties (`ProtectedHandled`, `JobsEnd`, `WindowTriggers`,
`ChangesAssessed`, `EveryMessageSettles`, `RequestsEndUnlessStuck`): they rest on fairness and ENABLED, which is out of the
prover's reach. The three claims of section 6 are counterexamples and have nothing to prove.

Some definitions have the form they have so that they can be reasoned about: `SourceOutage` writes
the reads of a request as a function of the index and the weights as a sum of five terms rather than
by folds over sequences, since a fold can be evaluated but not proved about.

## 6. Where the code and its documents differ

Three have a run whose counterexample shows them:

* `claim_bus_load`: nothing empties the bus's queue but `clear()`, so an idle bus that has
  published `max_queue_size` events sheds every NORMAL and LOW one (`services/events/event_bus.py:83`).
* `claim_warning_dispatched`: a confirmed RED alert reaches no citizen. `publish_alert_state_changed`
  passes `severity=` to `OperationalEvent.create` (`services/events/dispatcher.py:192`), which has no
  such parameter (`event_schema.py:65`): the TypeError ends the run at `runner.py:108`, after the
  flood and the risk were stored, so that the job of *every* run ends FAILED and neither the alert nor
  FORECAST_COMPLETED is published. An operator's decision publishes nothing either
  (`alert_engine.py:342`). `docs/realtime_operations.md:14` and `:18` describe the dispatch.
  Had the event been created, its type for an alert that needs a review would be
  HUMAN_REVIEW_REQUIRED, to which the notification service does not subscribe.
* `claim_store_deadlock`: `get_user_by_phone` calls `get_user_by_id` under the lock that both take
  (`user_store.py:171`): a verification after a restart blocks every request for ever.

Others follow from the models and have no run of their own; they are described here because a
property that would contradict them cannot be stated:

* Alerts: `GET /public-alerts/{id}` (`main.py:1985`) returns any incident, reviewed or not: it is not
  modelled, and `ReviewGate` speaks of the feed only. The acknowledge endpoint's fallback leaves no audit record (`main.py:1570`); it also
  takes a DISMISSED incident to ACKNOWLEDGED, which the transition table forbids
  (`alert_engine.py:365`), and an acknowledged id makes a new incident ACKNOWLEDGED from birth
  (`:221`, below RED). A field verification writes back the status it read and so undoes a
  concurrent decision (`:345`). `requires_human_review` stays set after the decision (`:348`). A
  new stage bracket replaces an incident under review (`:251`). Two threads may both file one
  (`:224`).
* Demo: evaluations of demo data get `ALT-RUN...` ids and pass the filter of the live feed, which
  tests for `ALT-DEMO` (`main.py:1961`, against its comment "Strictly isolate SIMULATION / DEMO
  alerts", 1960). Stage 11 dispatches a RED notification without a signature (`demo_orchestrator.py:294`,
  no review is required there). Between two writes the incident is RED and WATCH (`:251`). The
  orchestrator takes CANDIDATE straight to ESCALATED (`:255`), which reviews may not.
* Bus: handlers created by a publishing thread are cancelled with its loop (`live_adapters.py:98`);
  a restart replays no handler (`event_store.py:119`); an event whose write failed is in memory and
  not on disk (`:58`); a client that is up to 50 versions behind gets
  the latest 50 events, which may be fewer than it missed (`main.py:2624`).
* Forecasts: a trigger whose event cannot be logged has cleared the pending sources and noted its time
  before it raises (`trigger_engine.py:73`, 87), and no job gets them. A window that ends within the minimum interval triggers nothing until the next update
  (`trigger_engine.py:68`); a full queue refuses the newest job with its sources
  (`job_queue.py:72`); a failed run is not retried (`:118`).
* Fan-out: the registry of fingerprints is shared by all citizens of a locality, so a second
  citizen may not get a first message (`policy_engine.py:122`); `SuppressedAlreadyTold` leaves out who
  has never been told anything.
* User store: the cached object's `phone_verified` stays as loaded (`user_store.py:299`, against
  `tests/test_notification_orchestration_e2e.py:41`); after a restart the phone number is the
  masked one (`:138`); a reload during an addition lists a subscription twice (`:360`).
* Risk: `_save_snapshot` empties the file before it fills it (`current_state.py:98`). A restart that
  finds it torn starts again from 1000, and one that finds it behind, after a failed write, repeats
  numbers, although `docs/realtime_state_management.md:5` calls the version "a monotonically
  increasing integer". `RiskVersionsIncrease` holds for all other restarts. After every restart the
  current extent is the baseline of 380 km2, stored over the reloaded history
  (`evolution_service.py:55`), and the previous score 34.5 (`risk_service.py:47`). A snapshot is stored
  before its change is announced (`evolution_service.py:144`, 163), so a publication that raises leaves
  a change that nothing assesses and that the next one is measured against. A change is
  compared with the latest snapshot, so a rise in steps below 2 km2 is never announced
  (`differencing_engine.py:53`). Every run stores a second extent, 418.3 over 418.8 km2, through
  its own hydrology event.
* Stations: a time without an offset is read as UTC or as Indian time, whichever is closer to now, so
  that one record fetched twice may be stored twice, 5 h 30 min apart, although
  `imd_aws_repository.py:138` speaks of a "Deterministic identity". The freshest time of a fetch
  starts at the request's own start, so a fetch is always FRESH (`live_adapters.py:444`). A provider
  may be polled twice within its minimum interval, because the last time is read before the fetch
  (`live_scheduler.py:63`).
* Stations: a fetch whose attempts ran out reports the category in the client that every thread shares,
  which may be another fetch's (`imd_aws_client.py:254`); `ResultOfItsTime` says that it is never an
  old one.
* Live operation: of two forced forecasts the first to end clears the flag that says one is running
  (`current_state.py:225`); switches that overlap may leave the mode torn (`mode_manager.py:107`);
  both are in the properties as the condition under which they hold.
* WebSockets: a client is said to be replayed "all intermediate events"
  (`docs/realtime_state_management.md:27`), which holds for 50, newest first, and
  not for events that share the version the client had. The periodic broadcast has no `try`: an exception in building its payload ends the
  tick for good.
* Limiter: the quota does not hold for the full window, but for the window less the wait for the
  lock (`security.py:130`), as `QuotaKept` says.
* Anomalies: an injected reading is recorded into baseline, flatline tracker and streak
  (`detector.py:203`), against "does not alter operational live baseline" (`main.py:1387`). The
  frozen layer tests the readings before the current one (`detector.py:102`), while
  `docs/anomaly_detection_methodology.md:85` counts the current one too and the message speaks of
  "{n+1} consecutive timesteps" (`:107`): a sensor that has just moved is called frozen.
  `FrozenTellsReadings` speaks of a reading that repeats the last one, where both
  agree. VALID_EXTREME outranks a frozen sensor; a plausible but erroneous reading enters the baseline. A restart forgets all of it.
* Outages: an outage that overlaps a restoration may leave a source HEALTHY with its data missing.
  `CWC_TELEMETRY` is fused as a rain of 0 mm/h. With every source failed the rain is 0 with a
  narrower spread than with one, though the comment says the bounds are expanded by 2.5 (`precipitation.py`).
* Twin: updates that overlap lose rain or inflow, and a version may be given twice or go back; history
  entries are the one mutable object, although `basin_state_store.py:3` calls the history
  "append-only" and its states "versioned".
* Hydrology source (read, not modelled): every evaluation is appended to the log, not only a switch as
  `fallback_manager.py:77` says, so ten status requests push a switch out of the ten entries shown,
  and the log grows without a bound. A forced source is never released. A forced label MIXED or
  SIMULATED is put on a GloFAS discharge, which `fallback_manager.py:9` wants "explicitly labeled
  MODELED_GLOFAS".
* Twin and mode hazards: `LoneUpdateKept`, `ModeSettles` and `ChainTellsMode` are about what did not
  overlap; what overlaps does go wrong, as said above.
* Session: the logout endpoint answers "Session invalidated successfully" and invalidates nothing
  (`main.py:2137`).

## 7. What is not modelled

Not modelled because nothing about order is at stake: stage and discharge fusion, hydrology, impact
and risk scores, hindcast, historical ingestion and preprocessing, `ml/` (formulas over real numbers
and files of them); the replay engine (an index clamped to eleven stages, which its requests move
without suspending); templates, regions and geofences (which citizens a hazard matches is a
constant); the hydrology source (`fallback_manager.py`: a choice by one attribute and an append to a
list, which take no several steps to go wrong); the Redis bus (forwards to the in-memory one); the front end and the geospatial assets.

Within the modules: hashing, masking, tokens and wording; the rate limit of OTP requests (the bound
on OTPs stands for it); failed writes of the snapshot and risk histories and their caps of 100 and
200 entries; synchronous subscribers of the bus, which nothing registers; `force=True` of the
trigger, which nothing passes; operations only tests call (`update_barrage_operations`,
`switch_to_replay`, `set_simulation_delay`, the adapter's custom payload); devices and preferences other than the default, which no code stores.

## 8. Plan

Order followed so far: the gate of the alert engine, with its abstract specification and proofs;
the demo on top of it; bus; trigger and queue; fan-out, its composition into `PublicWarning`, and
the notification queue; the user store; the risk cascade; the live runtime over the stations'
ingestion, with the sockets; limiter, cache, anomalies, outages and twin; proofs of
the bus, the limiter, the user store and the audit; proofs of every other safety property. To come, most
important first:

1. An abstract log (each key once) that `EventBus` implements, an abstract mailbox that
   `NotificationQueue` implements and an abstract one-time code that `UserStore` implements, as
   refinements with proofs.
2. Failed writes of the histories in `RiskEvolution`; several handlers in `EventBus`; liveness of
   `LiveRuntime` (a request ends, since every fetch has a bounded number of retries) and of the
   sockets (a broadcast reaches whoever stays).
3. `WebSocketClients` composed with `RiskEvolution`'s versions and the bus's log.
