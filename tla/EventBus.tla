------------------------------ MODULE EventBus ------------------------------
(***************************************************************************)
(* services/events: the event store, with its deduplication index and its  *)
(* daily log files, and the in-memory bus in front of it.                  *)
(*                                                                         *)
(* Coroutines publish on the server's event loop, where publish runs from  *)
(* its first line to its last without yielding. Request threads publish    *)
(* with asyncio.run (live_adapters.py): the store takes a lock, the rest   *)
(* interleaves with the loop, and handlers still waiting when publish      *)
(* returns are cancelled with the thread's own loop.                       *)
(***************************************************************************)
EXTENDS Naturals, Sequences, FiniteSets, SequencesExt

CONSTANTS
    Keys,          \* dedup fingerprints: source | occurred_at | payload hash
    Handlers,      \* asynchronous subscribers
    Threads,       \* request threads that publish
    MaxQueueSize,  \* of the bus
    MaxEvents,     \* bound: events published
    MaxDay,        \* bound: days
    MaxRestarts,   \* bound: restarts of the server
    MaxErrors      \* bound: failed writes of the log

ASSUME SizesAssumption ==
    /\ MaxQueueSize \in Nat \ {0} /\ IsFiniteSet(Handlers)
    /\ MaxEvents \in Nat /\ MaxDay \in Nat
    /\ MaxRestarts \in Nat /\ MaxErrors \in Nat

VARIABLES
    stored,    \* _events_by_id, in insertion order
    keys,      \* _dedup_keys
    log,       \* day -> the lines of events_<day>.jsonl
    depth,     \* len(_queue)
    tasks,     \* handler tasks created and not run: <<event id, handler>>
    fanout,    \* thread -> the event it has stored and not yet fanned out
    day,
    nextId,
    restarts,
    errors,
    handled,   \* history: handler tasks that ran
    lost,      \* history: handler tasks that a restart found waiting
    shed       \* history: events dropped, with the tasks then waiting

vars == <<stored, keys, log, depth, tasks, fanout, day, nextId, restarts,
          errors, handled, lost, shed>>

Priority == {"CRITICAL", "HIGH", "NORMAL", "LOW"}
Protected == {"CRITICAL", "HIGH"}

Event == [id : Nat, key : Keys, priority : Priority, thread : BOOLEAN]
None == [id |-> 0]

TypeOK ==
    /\ stored \in Seq(Event)
    /\ keys \subseteq Keys
    /\ log \in [0 .. MaxDay -> Seq(Event)]
    /\ depth \in 0 .. MaxQueueSize
    /\ tasks \subseteq Nat \X Handlers
    /\ fanout \in [Threads -> Event \cup {None}]
    /\ day \in 0 .. MaxDay /\ nextId \in Nat
    /\ restarts \in Nat /\ errors \in Nat
    /\ handled \cup lost \subseteq Nat \X Handlers
    /\ shed \subseteq [id : Nat, waiting : Nat]

Init ==
    /\ stored = <<>> /\ keys = {}
    /\ log = [d \in 0 .. MaxDay |-> <<>>]
    /\ depth = 0 /\ tasks = {}
    /\ fanout = [t \in Threads |-> None]
    /\ day = 0 /\ nextId = 1
    /\ restarts = 0 /\ errors = 0
    /\ handled = {} /\ lost = {} /\ shed = {}
-----------------------------------------------------------------------------
NewEvent(key, priority, thread) ==
    [id |-> nextId, key |-> key, priority |-> priority, thread |-> thread]

(* EventStore.append of an event whose fingerprint is new; one whose        *)
(* fingerprint is known is refused and changes nothing. Ids never repeat.   *)
AppendToStore(e) ==
    /\ e.key \notin keys
    /\ stored' = Append(stored, e)
    /\ keys' = keys \cup {e.key}
    /\ log' = [log EXCEPT ![day] = Append(@, e)]

TasksOf(e) == {<<e.id, h>> : h \in Handlers}

(* Mutant: a full queue sheds everything but CRITICAL events. *)
ShedsAllButCritical(e, len) == len >= MaxQueueSize /\ e.priority # "CRITICAL"
Sheds(e, len) == len >= MaxQueueSize /\ e.priority \notin Protected

(* Mutant: the queue is a list without a bound. *)
FanOutUnbounded(e, created) ==
    \/ /\ Sheds(e, depth)
       /\ shed' = shed \cup {[id |-> e.id, waiting |-> Cardinality(tasks)]}
       /\ UNCHANGED <<depth, tasks>>
    \/ /\ ~Sheds(e, depth)
       /\ depth' = depth + 1
       /\ tasks' = tasks \cup created
       /\ UNCHANGED shed

(* Mutant: the handlers are notified before the check. *)
FanOutFirst(e, created) ==
    /\ tasks' = tasks \cup created
    /\ \/ /\ Sheds(e, depth)
          /\ shed' = shed \cup {[id |-> e.id, waiting |-> Cardinality(tasks)]}
          /\ UNCHANGED depth
       \/ /\ ~Sheds(e, depth)
          /\ depth' = IF depth < MaxQueueSize THEN depth + 1 ELSE depth
          /\ UNCHANGED shed

(* Backpressure and fan-out. Nothing but clear() takes from the queue; at   *)
(* its capacity an append drops the oldest entry.                           *)
FanOut(e, created) ==
    \/ /\ Sheds(e, depth)
       /\ shed' = shed \cup {[id |-> e.id, waiting |-> Cardinality(tasks)]}
       /\ UNCHANGED <<depth, tasks>>
    \/ /\ ~Sheds(e, depth)
       /\ depth' = IF depth < MaxQueueSize THEN depth + 1 ELSE depth
       /\ tasks' = tasks \cup created
       /\ UNCHANGED shed

(* A coroutine publishes. *)
Publish(key, priority) ==
    /\ nextId <= MaxEvents
    /\ nextId' = nextId + 1
    /\ LET e == NewEvent(key, priority, FALSE) IN
       AppendToStore(e) /\ FanOut(e, TasksOf(e))
    /\ UNCHANGED <<fanout, day, restarts, lost, errors, handled>>

(* A request thread publishes: append, then the rest. *)
ThreadAppend(t, key, priority) ==
    /\ fanout[t] = None
    /\ nextId <= MaxEvents
    /\ nextId' = nextId + 1
    /\ LET e == NewEvent(key, priority, TRUE) IN
       AppendToStore(e) /\ fanout' = [fanout EXCEPT ![t] = e]
    /\ UNCHANGED <<depth, tasks, day, restarts, lost, errors, handled, shed>>

(* The thread's loop gives each handler one turn and is then closed: the    *)
(* handlers that got to their end in it have run, the others are cancelled. *)
ThreadFanOut(t) ==
    /\ fanout[t] # None
    /\ FanOut(fanout[t], {})
    /\ \E ended \in SUBSET TasksOf(fanout[t]) :
          handled' = handled \cup
             (IF Sheds(fanout[t], depth) THEN {} ELSE ended)
    /\ fanout' = [fanout EXCEPT ![t] = None]
    /\ UNCHANGED <<stored, keys, log, day, nextId, restarts, lost, errors>>

(* The write of the log line fails: append has indexed the event and raises. *)
PublishFails(key, priority) ==
    /\ nextId <= MaxEvents /\ errors < MaxErrors
    /\ key \notin keys
    /\ stored' = Append(stored, NewEvent(key, priority, FALSE))
    /\ keys' = keys \cup {key}
    /\ nextId' = nextId + 1
    /\ errors' = errors + 1
    /\ UNCHANGED <<log, depth, tasks, fanout, day, restarts, lost, handled,
                   shed>>

(* A handler task runs; _safe_execute swallows what it raises. *)
RunHandler(task) ==
    /\ task \in tasks
    /\ tasks' = tasks \ {task}
    /\ handled' = handled \cup {task}
    /\ UNCHANGED <<stored, keys, log, depth, fanout, day, nextId,
                   restarts, lost, errors, shed>>

NextDay ==
    /\ day < MaxDay
    /\ day' = day + 1
    /\ UNCHANGED <<stored, keys, log, depth, tasks, fanout, nextId,
                   restarts, lost, errors, handled, shed>>

(* _load_recent_events reads today's file, then yesterday's. *)
(* Mutant: today's only. *)
LoadToday == log[day]
LoadRecentEvents == log[day] \o (IF day = 0 THEN <<>> ELSE log[day - 1])

(* The server dies and starts again: memory is rebuilt from the log. *)
Restart ==
    /\ restarts < MaxRestarts
    /\ restarts' = restarts + 1
    /\ stored' = LoadRecentEvents
    /\ keys' = {e.key : e \in Range(LoadRecentEvents)}
    /\ depth' = 0 /\ tasks' = {} /\ lost' = lost \cup tasks
    /\ fanout' = [t \in Threads |-> None]
    /\ UNCHANGED <<log, day, nextId, errors, handled, shed>>

Next ==
    \/ \E k \in Keys, p \in Priority :
          \/ Publish(k, p)
          \/ \E t \in Threads : ThreadAppend(t, k, p)
          \/ PublishFails(k, p)
    \/ \E t \in Threads : ThreadFanOut(t)
    \/ \E task \in tasks : RunHandler(task)
    \/ NextDay
    \/ Restart

(* The loop runs every ready task. *)
Fairness ==
    \A i \in 1 .. MaxEvents, h \in Handlers : WF_vars(RunHandler(<<i, h>>))

Spec == Init /\ [][Next]_vars /\ Fairness
-----------------------------------------------------------------------------
(***************************************************************************)
(* Properties.                                                             *)
(***************************************************************************)

StoredIds == {stored[i].id : i \in DOMAIN stored}
Logged(e) == \E d \in 0 .. MaxDay : e \in Range(log[d])

(* Restarts and midnight do not reopen the log to an observation it holds: *)
(* no fingerprint is written twice within two consecutive days, although   *)
(* the index is rebuilt from the files and not stored.                     *)
NoDuplicateOnDisk ==
    \A d \in 0 .. MaxDay : \A c \in {d, d + 1} \cap 0 .. MaxDay :
        \A i \in DOMAIN log[d], j \in DOMAIN log[c] :
            log[d][i].key = log[c][j].key => d = c /\ i = j

(* "CRITICAL and HIGH events are never dropped by backpressure": whatever   *)
(* the load, every subscriber handles what a coroutine publishes and logs,  *)
(* but for the handlers that a restart found waiting.                       *)
ProtectedHandled ==
    \A i \in 1 .. MaxEvents :
        (\E n \in DOMAIN stored : /\ stored[n].id = i
                                  /\ stored[n].priority \in Protected
                                  /\ ~stored[n].thread
                                  /\ Logged(stored[n]))
            ~> \A h \in Handlers : <<i, h>> \in handled \cup lost

(* A task belongs to an event on file that is not handled: restarts, shed   *)
(* events and cancelled loops leave no handler running for an event that    *)
(* was dropped or that the store forgot, and none runs twice.               *)
TasksOnce ==
    \A task \in tasks :
        /\ task[1] \in StoredIds
        /\ task \notin handled
        /\ \A s \in shed : s.id # task[1]
-----------------------------------------------------------------------------
(***************************************************************************)
(* What the documents and comments say and the code does not do.           *)
(***************************************************************************)

(* "Applies priority protection under load": events are shed although every *)
(* subscriber has handled all there was, since nothing empties the queue.   *)
ShedOnlyUnderLoad == \A s \in shed : s.waiting > 0
=============================================================================
