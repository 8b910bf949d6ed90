----------------------------- MODULE LiveRuntime ----------------------------
(***************************************************************************)
(* Live operation: the operating mode (runtime/mode_manager.py), the       *)
(* scheduler that polls the sources (scheduler/live_scheduler.py), the     *)
(* coalesced forecast (runtime/current_state.py) and the endpoints that    *)
(* call them in turn (main.py), over the sources of ImdAws and             *)
(* SourceAdapters.                                                         *)
(*                                                                         *)
(* Every endpoint runs on a thread of the request pool, the socket's       *)
(* LIVE_POLL_CYCLE on the event loop's. Only the forecast's admission and  *)
(* the end of one take a lock; the mode is written field by field.         *)
(***************************************************************************)
EXTENDS ImdAws, SourceAdapters, FiniteSets

CONSTANTS
    Loop,          \* the event loop's thread; the others are the pool's
    Sources,       \* the scheduler's providers, in order
    Ticks,         \* bound: by how much the clock advances
    MaxClock,      \* bound: time
    MaxJobs,       \* bound: requests
    MaxHistory     \* runs kept in _ingestion_history

ASSUME LiveAssumption ==
    /\ Loop \in Threads
    /\ Sources \in Seq(AllSources)
    /\ Ticks \subseteq Nat \ {0} /\ MaxClock \in Nat
    /\ MaxJobs \in Nat /\ MaxHistory \in Nat \ {0}

VARIABLES
    mode,        \* the mode manager's fields
    jobs,        \* thread -> the request it serves
    lastFetch,   \* _last_fetch_timestamps
    history,     \* _ingestion_history
    latest,      \* source -> _latest_observations, by the data state of its run
    running,     \* _is_forecast_running
    lastRun,     \* _last_forecast_time
    chains,      \* _provenance_chains
    begun,       \* requests begun
    crossed,     \* history: two switches of the mode overlapped
    overlapped   \* history: two forecasts overlapped since none was under way

liveVars == <<mode, jobs, lastFetch, history, latest, running, lastRun, chains,
              begun, crossed, overlapped>>
vars == <<imdVars, liveVars>>

Never == -1
Unseen == "UNSEEN"

LiveMode == [system |-> "LIVE", data |-> "HEALTHY", ingesting |-> TRUE,
             confidence |-> "MEDIUM"]
SimulationMode == [system |-> "SIMULATION", data |-> "SYNTHETIC",
                   ingesting |-> FALSE, confidence |-> "HIGH"]
Fields == DOMAIN LiveMode

Switches == {"connect", "disconnect"}
Kinds == Switches \cup {"refresh", "imd", "imd_forced", "cycle"}
Forced == {"connect", "refresh", "imd_forced"}
Target(kind) == IF kind = "connect" THEN LiveMode ELSE SimulationMode

SourceSet == {Sources[i] : i \in 1 .. Len(Sources)}
RunStates == AnswerStates \cup (Results \ {"NONE", "RAISED"})
Run == [source : AllSources, state : RunStates]

(* What a request still has to do: the fields it has to write, in order,    *)
(* the sources it has to poll, and where it stands in a poll or a forecast. *)
Job == [kind : Kinds \cup {"none"},
        at : {"idle", "mode", "poll", "fetch", "system", "data",
              "read", "iterate", "release"},
        fields : Seq(Fields), polls : Seq(AllSources), got : BOOLEAN,
        now : Nat, cycle : Nat, system : {"LIVE", "SIMULATION"},
        data : {"HEALTHY", "SYNTHETIC"}, seen : SUBSET AllSources,
        quiet : BOOLEAN]
NoJob == [kind |-> "none", at |-> "idle", fields |-> <<>>, polls |-> <<>>,
          got |-> FALSE, now |-> 0, cycle |-> 0, system |-> "SIMULATION",
          data |-> "SYNTHETIC", seen |-> {}, quiet |-> FALSE]

Chain == [by : Kinds, at : Nat, system : {"LIVE", "SIMULATION"},
          data : {"HEALTHY", "SYNTHETIC"}, quiet : BOOLEAN]

TypeOK ==
    /\ ImdTypeOK
    /\ mode \in [system : {"LIVE", "SIMULATION"}, data : {"HEALTHY", "SYNTHETIC"},
                 ingesting : BOOLEAN, confidence : {"MEDIUM", "HIGH"}]
    /\ jobs \in [Threads -> Job]
    /\ lastFetch \in [SourceSet -> Nat \cup {Never}]
    /\ history \in Seq(Run)
    /\ latest \in [SourceSet -> RunStates \cup {Unseen}]
    /\ running \in BOOLEAN
    /\ lastRun \in Nat \cup {Never}
    /\ chains \subseteq Chain
    /\ begun \in Nat
    /\ crossed \in BOOLEAN /\ overlapped \in BOOLEAN

Init ==
    /\ ImdInit
    /\ mode = SimulationMode
    /\ jobs = [t \in Threads |-> NoJob]
    /\ lastFetch = [s \in SourceSet |-> Never]
    /\ history = <<>>
    /\ latest = [s \in SourceSet |-> Unseen]
    /\ running = FALSE
    /\ lastRun = Never
    /\ chains = {}
    /\ begun = 0
    /\ crossed = FALSE /\ overlapped = FALSE
-----------------------------------------------------------------------------
(*                               Requests                                  *)

Switching == {t \in Threads : jobs[t].at = "mode"}
Forecasting == {t \in Threads :
                    jobs[t].at \in {"system", "data", "read", "iterate", "release"}}

(* Mutant: A switch to live that forgets the confidence the simulation had *)
SwitchOrderShort(kind) ==
    IF kind = "connect" THEN <<"system", "ingesting", "data">>
                        ELSE <<"system", "data", "ingesting", "confidence">>

(* Where a request starts, and the order in which a switch writes fields    *)
SwitchOrder(kind) ==
    IF kind = "connect" THEN <<"system", "ingesting", "data", "confidence">>
                        ELSE <<"system", "data", "ingesting", "confidence">>
PollsOf(kind) ==
    CASE kind \in {"connect", "refresh", "cycle"} -> Sources
      [] kind \in {"imd", "imd_forced"} -> <<IMD>>
      [] OTHER -> <<>>
Started(kind, quiet) ==
    [NoJob EXCEPT !.kind = kind, !.polls = PollsOf(kind),
                  !.cycle = IF kind = "cycle" THEN clock ELSE 0,
                  !.quiet = quiet,
                  !.at = IF kind \in Switches THEN "mode" ELSE "poll",
                  !.fields = IF kind \in Switches THEN SwitchOrder(kind) ELSE <<>>]

(* A request is quiet until the mode is switched by another, or was being   *)
(* switched, or had been left torn, when it began.                          *)
Begin(t, kind) ==
    /\ jobs[t].kind = "none" /\ begun < MaxJobs
    /\ kind = "cycle" <=> t = Loop
    /\ begun' = begun + 1
    /\ crossed' = IF kind \in Switches THEN Switching # {} ELSE crossed
    /\ jobs' = [u \in Threads |->
           IF u = t THEN Started(kind, /\ Switching = {}
                                       /\ kind \in Switches \/ ~crossed)
           ELSE IF kind \in Switches THEN [jobs[u] EXCEPT !.quiet = FALSE]
           ELSE jobs[u]]
    /\ UNCHANGED <<imdVars, mode, lastFetch, history, latest, running, lastRun,
                   chains, overlapped>>

(* switch_to_live, switch_to_simulation: one field; a disconnect ends with  *)
(* the last, a connect goes on to poll.                                     *)
WriteField(t) ==
    LET job   == jobs[t]
        field == Head(job.fields)
    IN  /\ job.at = "mode"
        /\ mode' = [mode EXCEPT ![field] = Target(job.kind)[field]]
        /\ jobs' = [jobs EXCEPT ![t] =
               CASE Len(job.fields) > 1 -> [job EXCEPT !.fields = Tail(@)]
                 [] Len(job.fields) = 1 /\ job.kind = "connect" ->
                        [job EXCEPT !.fields = <<>>, !.at = "poll"]
                 [] OTHER -> NoJob]
        /\ UNCHANGED <<imdVars, lastFetch, history, latest, running, lastRun,
                       chains, begun, crossed, overlapped>>
-----------------------------------------------------------------------------
(*                              The scheduler                              *)

Polled(t) == Head(jobs[t].polls)

(* poll_all_due_providers measures from the time its cycle began,           *)
(* poll_provider from its own.                                              *)
Due(t, s) ==
    jobs[t].kind = "cycle" =>
        \/ lastFetch[s] = Never
        \/ jobs[t].cycle - lastFetch[s] >= IntervalOf(s).refresh
MayPoll(t, s) ==
    \/ jobs[t].kind \in Forced
    \/ lastFetch[s] = Never
    \/ clock - lastFetch[s] >= IntervalOf(s).minimum

SkipPoll(t) ==
    /\ jobs[t].at = "poll" /\ jobs[t].polls # <<>>
    /\ ~(Due(t, Polled(t)) /\ MayPoll(t, Polled(t)))
    /\ jobs' = [jobs EXCEPT ![t].polls = Tail(@)]
    /\ UNCHANGED <<imdVars, mode, lastFetch, history, latest, running, lastRun,
                   chains, begun, crossed, overlapped>>

StartPoll(t) ==
    /\ jobs[t].at = "poll" /\ jobs[t].polls # <<>>
    /\ Due(t, Polled(t)) /\ MayPoll(t, Polled(t))
    /\ jobs' = [jobs EXCEPT ![t].at = "fetch", ![t].now = clock]
    /\ IF Polled(t) = IMD THEN StartFetch(t) ELSE UNCHANGED imdVars
    /\ UNCHANGED <<mode, lastFetch, history, latest, running, lastRun, chains,
                   begun, crossed, overlapped>>

EndPoll(t, got) ==
    jobs' = [jobs EXCEPT ![t].at = "poll", ![t].polls = Tail(@), 
                              ![t].got = @ \/ got, ![t].now = 0]

(* The bookkeeping after a fetch, with the time read before it              *)
RecordRun(t, state) ==
    LET run == [source |-> Polled(t), state |-> state]
        all == Append(history, run)
    IN  /\ lastFetch' = [lastFetch EXCEPT ![Polled(t)] = jobs[t].now]
        /\ history' = IF Len(all) > MaxHistory THEN Tail(all) ELSE all
        /\ latest' = [latest EXCEPT ![Polled(t)] = state]
        /\ EndPoll(t, TRUE)

RecordOther(t) ==
    /\ jobs[t].at = "fetch" /\ Polled(t) # IMD
    /\ RecordRun(t, AnswerOf(Polled(t)))
    /\ UNCHANGED <<imdVars, mode, running, lastRun, chains, begun, crossed,
                   overlapped>>

RecordImd(t) ==
    /\ jobs[t].at = "fetch" /\ Polled(t) = IMD
    /\ calls[t].at = "done" /\ calls[t].result # "RAISED"
    /\ RecordRun(t, calls[t].result)
    /\ Returned(t)
    /\ UNCHANGED <<mode, running, lastRun, chains, begun, crossed, overlapped>>

(* poll_provider catches what a fetch raises and records nothing            *)
DropImd(t) ==
    /\ jobs[t].at = "fetch" /\ Polled(t) = IMD
    /\ calls[t].at = "done" /\ calls[t].result = "RAISED"
    /\ EndPoll(t, FALSE)
    /\ Returned(t)
    /\ UNCHANGED <<mode, lastFetch, history, latest, running, lastRun, chains,
                   begun, crossed, overlapped>>

WantsForecast(t) ==
    \/ jobs[t].kind \in {"connect", "refresh"}
    \/ jobs[t].kind = "cycle" /\ jobs[t].got
-----------------------------------------------------------------------------
(*                         The coalesced forecast                          *)

MinInterval == 5   \* _minimum_forecast_interval_seconds
Admitted(t) ==
    \/ jobs[t].kind # "cycle"
    \/ ~running /\ (lastRun = Never \/ clock - lastRun >= MinInterval)

(* The refresh of the weather stations, a cycle that fetched nothing and    *)
(* one whose forecast is refused                                            *)
EndWithout(t) ==
    /\ jobs[t].at = "poll" /\ jobs[t].polls = <<>>
    /\ ~(WantsForecast(t) /\ Admitted(t))
    /\ jobs' = [jobs EXCEPT ![t] = NoJob]
    /\ UNCHANGED <<imdVars, mode, lastFetch, history, latest, running, lastRun,
                   chains, begun, crossed, overlapped>>

StartForecast(t) ==
    /\ jobs[t].at = "poll" /\ jobs[t].polls = <<>>
    /\ WantsForecast(t) /\ Admitted(t)
    /\ running' = TRUE
    /\ overlapped' = (Forecasting # {})
    /\ jobs' = [jobs EXCEPT ![t].at = "system", ![t].now = clock]
    /\ UNCHANGED <<imdVars, mode, lastFetch, history, latest, lastRun, chains,
                   begun, crossed>>

(* get_status reads the fields one by one *)
ReadSystem(t) ==
    /\ jobs[t].at = "system"
    /\ jobs' = [jobs EXCEPT ![t].at = "data", ![t].system = mode.system]
    /\ UNCHANGED <<imdVars, mode, lastFetch, history, latest, running, lastRun,
                   chains, begun, crossed, overlapped>>
(* Mutant: A data state kept from the start of the server *)
ReadDataCached(t) ==
    /\ jobs[t].at = "data"
    /\ jobs' = [jobs EXCEPT ![t].at = "read"]
    /\ UNCHANGED <<imdVars, mode, lastFetch, history, latest, running, lastRun,
                   chains, begun, crossed, overlapped>>

ReadData(t) ==
    /\ jobs[t].at = "data"
    /\ jobs' = [jobs EXCEPT ![t].at = "read", ![t].data = mode.data]
    /\ UNCHANGED <<imdVars, mode, lastFetch, history, latest, running, lastRun,
                   chains, begun, crossed, overlapped>>

(* The dictionary of observations is the scheduler's own: a source that     *)
(* another thread adds to it while it is iterated raises a RuntimeError.    *)
Known == {s \in SourceSet : latest[s] # Unseen}
StartIteration(t) ==
    /\ jobs[t].at = "read"
    /\ jobs' = [jobs EXCEPT ![t].at = "iterate", ![t].seen = Known]
    /\ UNCHANGED <<imdVars, mode, lastFetch, history, latest, running, lastRun,
                   chains, begun, crossed, overlapped>>

Leaving(job) == [NoJob EXCEPT !.kind = job.kind, !.at = "release"]

KeepChain(t) ==
    /\ jobs[t].at = "iterate" /\ Known = jobs[t].seen
    /\ chains' = chains \cup
           {[by |-> jobs[t].kind, at |-> jobs[t].now, system |-> jobs[t].system,
             data |-> jobs[t].data, quiet |-> jobs[t].quiet]}
    /\ lastRun' = jobs[t].now
    /\ jobs' = [jobs EXCEPT ![t] = Leaving(@)]
    /\ UNCHANGED <<imdVars, mode, lastFetch, history, latest, running, begun,
                   crossed, overlapped>>

(* Mutant: The flag is cleared by a forecast that succeeds only *)
ForecastRaisedOut(t) ==
    /\ jobs[t].at = "iterate" /\ Known # jobs[t].seen
    /\ jobs' = [jobs EXCEPT ![t] = NoJob]
    /\ UNCHANGED <<imdVars, mode, lastFetch, history, latest, running, lastRun,
                   chains, begun, crossed, overlapped>>

ForecastRaised(t) ==
    /\ jobs[t].at = "iterate" /\ Known # jobs[t].seen
    /\ jobs' = [jobs EXCEPT ![t] = Leaving(@)]
    /\ UNCHANGED <<imdVars, mode, lastFetch, history, latest, running, lastRun,
                   chains, begun, crossed, overlapped>>

(* finally *)
Release(t) ==
    /\ jobs[t].at = "release"
    /\ running' = FALSE
    /\ jobs' = [jobs EXCEPT ![t] = NoJob]
    /\ UNCHANGED <<imdVars, mode, lastFetch, history, latest, lastRun, chains,
                   begun, crossed, overlapped>>
-----------------------------------------------------------------------------
Fetching(t) == FetchStep(t) /\ UNCHANGED liveVars

Step(t) ==
    \/ WriteField(t)
    \/ SkipPoll(t) \/ StartPoll(t) \/ RecordOther(t) \/ RecordImd(t) \/ DropImd(t)
    \/ EndWithout(t) \/ StartForecast(t) \/ ReadSystem(t) \/ ReadData(t)
    \/ StartIteration(t) \/ KeepChain(t) \/ ForecastRaised(t) \/ Release(t)
    \/ Fetching(t)

Elapse ==
    /\ \E d \in Ticks : clock + d <= MaxClock /\ clock' = clock + d
    /\ UNCHANGED <<calls, client, failures, stations, rows, met, liveVars>>

Next ==
    \/ Elapse
    \/ \E t \in Threads : Step(t) \/ \E kind \in Kinds : Begin(t, kind)

Spec == Init /\ [][Next]_vars
-----------------------------------------------------------------------------
(* The flag that holds the socket's forecasts back is set only while one is *)
(* under way, also after one failed; and while one is under way it is set,  *)
(* unless forced forecasts overlapped: the first of them to end clears it.  *)
FlagTellsRunning ==
    /\ running => Forecasting # {}
    /\ Forecasting # {} /\ ~overlapped => running

(* Switches that do not overlap leave the mode whole: live, or simulation,  *)
(* in every field, with no lock on any of them.                             *)
ModeSettles ==
    Switching = {} /\ ~crossed => mode \in {LiveMode, SimulationMode}

(* A forecast's provenance names a mode the system was in: its two fields   *)
(* agree, and the forecast of an operator who connects is a live one, as    *)
(* long as no other request switches the mode meanwhile.                    *)
ChainTellsMode ==
    \A c \in chains : c.quiet =>
        /\ \E m \in {LiveMode, SimulationMode} : c.system = m.system /\ c.data = m.data
        /\ c.by = "connect" => c.system = "LIVE"
=============================================================================
