--------------------------- MODULE ForecastTrigger ---------------------------
(***************************************************************************)
(* services/forecasting: the trigger engine, which coalesces the source    *)
(* updates of a debounce window into one forecast job, the bounded job     *)
(* queue and its single worker.                                            *)
(*                                                                         *)
(* All of it runs on the event loop. trigger_coalesced_run awaits only the *)
(* bus, which does not yield, so it is one step; the bus raises when the   *)
(* event log cannot be written, and then no job is submitted. Time passes  *)
(* in ticks; a timer that is due may fire late, as the loop's timers may.  *)
(***************************************************************************)
EXTENDS Integers, Sequences

CONSTANTS
    DebounceTicks,     \* debounce_seconds
    MinIntervalTicks,  \* min_interval_seconds
    MaxQueueSize,      \* of the job queue
    MaxUpdates         \* bound: source updates received

ASSUME TicksAssumption == DebounceTicks \in Nat /\ MinIntervalTicks \in Nat
ASSUME QueueAssumption == MaxQueueSize \in Nat /\ MaxUpdates \in Nat

VARIABLES
    received,  \* number of updates received; they are numbered from 1
    pending,   \* _pending_sources, as the updates that named them
    lost,      \* history: the updates of triggers whose event was not logged
    timer,     \* ticks left in _debounce_window, Off when there is none
    cooldown,  \* ticks until the last trigger is min_interval_seconds ago
    jobs,      \* _jobs, in order of submission
    queue,     \* _queue, of positions in jobs
    current,   \* _current_job's position, 0 when there is none
    working    \* _is_worker_running

vars == <<received, pending, lost, timer, cooldown, jobs, queue, current,
          working>>

Off == -1
JobState == {"QUEUED", "RUNNING", "COMPLETED", "FAILED", "CANCELLED"}
Updates == 1 .. MaxUpdates
Job == [state : JobState, updates : SUBSET Updates]

TypeOK ==
    /\ received \in 0 .. MaxUpdates
    /\ pending \subseteq Updates
    /\ lost \subseteq Updates
    /\ timer \in {Off} \cup 0 .. DebounceTicks
    /\ cooldown \in 0 .. MinIntervalTicks
    /\ jobs \in Seq(Job)
    /\ queue \in Seq(Nat)
    /\ current \in Nat
    /\ working \in BOOLEAN

Init ==
    /\ received = 0
    /\ pending = {}
    /\ lost = {}
    /\ timer = Off
    /\ cooldown = 0
    /\ jobs = <<>>
    /\ queue = <<>>
    /\ current = 0
    /\ working = TRUE

(* _on_source_data_received: the window starts again with every update. *)
ReceiveUpdate ==
    /\ received < MaxUpdates
    /\ received' = received + 1
    /\ pending' = pending \cup {received'}
    /\ timer' = DebounceTicks
    /\ UNCHANGED <<lost, cooldown, jobs, queue, current, working>>

NewJob(state) == [state |-> state, updates |-> pending]

(* Mutant: a job that found the queue full stays QUEUED. *)
SubmitIgnoresFull ==
    /\ jobs' = Append(jobs, NewJob("QUEUED"))
    /\ queue' = IF Len(queue) < MaxQueueSize THEN Append(queue, Len(jobs'))
                ELSE queue

(* submit_job: the job is tracked and put into the queue, or marked FAILED. *)
SubmitJob ==
    \/ /\ Len(queue) < MaxQueueSize
       /\ jobs' = Append(jobs, NewJob("QUEUED"))
       /\ queue' = Append(queue, Len(jobs'))
    \/ /\ Len(queue) >= MaxQueueSize
       /\ jobs' = Append(jobs, NewJob("FAILED"))
       /\ UNCHANGED queue

(* Mutant: the sources of the job stay pending. *)
TriggerRunKeepsPending ==
    /\ timer = 0 /\ cooldown = 0
    /\ SubmitJob
    /\ timer' = Off
    /\ cooldown' = MinIntervalTicks
    /\ UNCHANGED <<received, pending, lost, current, working>>

(* trigger_coalesced_run at the end of a window, long enough after the last. *)
TriggerRun ==
    /\ timer = 0 /\ cooldown = 0
    /\ SubmitJob
    /\ pending' = {}
    /\ timer' = Off
    /\ cooldown' = MinIntervalTicks
    /\ UNCHANGED <<received, lost, current, working>>

(* ... whose event the bus could not log: publish raises after the pending  *)
(* sources were taken and the time was noted, and nothing is submitted.     *)
TriggerFails ==
    /\ timer = 0 /\ cooldown = 0
    /\ lost' = lost \cup pending
    /\ pending' = {}
    /\ timer' = Off
    /\ cooldown' = MinIntervalTicks
    /\ UNCHANGED <<received, jobs, queue, current, working>>

(* Mutant: the interval throttles on, however long ago the last trigger is. *)
ThrottleAlways ==
    /\ timer = 0
    /\ timer' = Off
    /\ UNCHANGED <<received, pending, lost, cooldown, jobs, queue, current,
                   working>>
(* ... and too soon after the last: it returns, and no window is open.      *)
Throttle ==
    /\ timer = 0 /\ cooldown > 0
    /\ timer' = Off
    /\ UNCHANGED <<received, pending, lost, cooldown, jobs, queue, current,
                   working>>

Tick ==
    /\ timer > 0 \/ cooldown > 0
    /\ timer' = IF timer > 0 THEN timer - 1 ELSE timer
    /\ cooldown' = IF cooldown > 0 THEN cooldown - 1 ELSE 0
    /\ UNCHANGED <<received, pending, lost, jobs, queue, current, working>>

(* _process_queue: the worker takes a job, and its run ends one way or the  *)
(* other.                                                                   *)
StartJob ==
    /\ working /\ current = 0 /\ queue # <<>>
    /\ current' = Head(queue)
    /\ queue' = Tail(queue)
    /\ jobs' = [jobs EXCEPT ![Head(queue)].state = "RUNNING"]
    /\ UNCHANGED <<received, pending, lost, timer, cooldown, working>>

(* Mutant: the end of a run is recorded on the latest job. *)
EndJobLatest(state) ==
    /\ working /\ current # 0
    /\ jobs' = [jobs EXCEPT ![Len(jobs)].state = state]
    /\ current' = 0
    /\ UNCHANGED <<received, pending, lost, timer, cooldown, queue, working>>
EndJob(state) ==
    /\ working /\ current # 0
    /\ jobs' = [jobs EXCEPT ![current].state = state]
    /\ current' = 0
    /\ UNCHANGED <<received, pending, lost, timer, cooldown, queue, working>>

(* stop_worker at shutdown: the cancelled run leaves its job as it is. *)
StopWorker ==
    /\ working
    /\ working' = FALSE
    /\ UNCHANGED <<received, pending, lost, timer, cooldown, jobs, queue,
                   current>>

Next ==
    \/ ReceiveUpdate
    \/ TriggerRun
    \/ TriggerFails
    \/ Throttle
    \/ Tick
    \/ StartJob
    \/ EndJob("COMPLETED")
    \/ EndJob("FAILED")
    \/ StopWorker

(* The loop runs what is due; a run, which awaits nothing that may never    *)
(* come, ends.                                                              *)
Fairness ==
    /\ WF_vars(TriggerRun \/ TriggerFails)
    /\ WF_vars(Throttle) /\ WF_vars(Tick)
    /\ WF_vars(StartJob)
    /\ WF_vars(EndJob("COMPLETED") \/ EndJob("FAILED"))

Spec == Init /\ [][Next]_vars /\ Fairness
-----------------------------------------------------------------------------
(***************************************************************************)
(* Properties.                                                             *)
(***************************************************************************)

Jobs == DOMAIN jobs

(* Coalescing repeats no update, and loses none but with a trigger whose    *)
(* event could not be logged: each one received is pending, in exactly one  *)
(* job or lost that way, and never two of these, through throttled windows, *)
(* full queues and updates that arrive between two triggers.                *)
JobsOf(u) == {i \in Jobs : u \in jobs[i].updates}
UpdatesInOneJob ==
    \A u \in 1 .. received :
        \/ u \in pending /\ u \notin lost /\ JobsOf(u) = {}
        \/ u \notin pending /\ u \in lost /\ JobsOf(u) = {}
        \/ u \notin pending /\ u \notin lost /\ \E i \in Jobs : JobsOf(u) = {i}

(* A window that ends when the minimum interval is over triggers: all that  *)
(* is pending then, what throttled windows left behind included, is taken.  *)
WindowTriggers == (timer # Off /\ cooldown <= timer) ~> pending = {}

(* What the queue holds and what the jobs say agree: a job is QUEUED exactly *)
(* if it waits in the queue, in order of submission, and RUNNING exactly if  *)
(* the worker holds it, so no run overlaps another and no job is forgotten.  *)
QueueMatchesStates ==
    /\ \A i \in Jobs : (jobs[i].state = "QUEUED") <=>
                           \E n \in DOMAIN queue : queue[n] = i
    /\ \A i \in Jobs : (jobs[i].state = "RUNNING") <=> current = i
    /\ \A m, n \in DOMAIN queue : m < n => queue[m] < queue[n]

(* A job that was accepted ends, unless the server shuts down. *)
InState(i, states) == i \in Jobs /\ jobs[i].state \in states
JobsEnd ==
    \A i \in Updates : InState(i, {"QUEUED", "RUNNING"})
                          ~> InState(i, {"COMPLETED", "FAILED"}) \/ ~working
=============================================================================
