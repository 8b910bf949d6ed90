---------------------------- MODULE EventBusProofs ----------------------------
(***************************************************************************)
(* Type correctness of the event bus, and what its log and its tasks       *)
(* promise, for any number of events, days, threads, restarts and failed   *)
(* writes.                                                                 *)
(***************************************************************************)
EXTENDS EventBus, FiniteSetTheorems, SequenceTheorems, TLAPS

(* Nothing is written ahead of its day, and the index knows what the files  *)
(* of today and yesterday hold: whoever restarts reads both.                *)
Recent == {d \in 0 .. MaxDay : d = day \/ d + 1 = day}
Indexed ==
    /\ \A d \in 0 .. MaxDay : d > day => log[d] = <<>>
    /\ \A d \in Recent : \A i \in DOMAIN log[d] : log[d][i].key \in keys

(* Ids are given out once; an event that a thread has yet to fan out has no *)
(* task.                                                                    *)
Ids ==
    /\ \A task \in tasks \cup handled : task[1] < nextId
    /\ \A s \in shed : s.id < nextId
    /\ \A t \in Threads : fanout[t] # None =>
          /\ fanout[t].id < nextId
          /\ \A task \in tasks : task[1] # fanout[t].id

IInv == TypeOK /\ IsFiniteSet(tasks) /\ Indexed /\ Ids /\ NoDuplicateOnDisk /\ TasksOnce
-----------------------------------------------------------------------------
LEMMA Appended ==
    ASSUME NEW s \in Seq(Event), NEW e \in Event
    PROVE  /\ Append(s, e) \in Seq(Event)
           /\ Len(s) \in Nat /\ DOMAIN s = 1 .. Len(s)
           /\ DOMAIN Append(s, e) = 1 .. Len(s) + 1
           /\ \A i \in 1 .. Len(s) : Append(s, e)[i] = s[i]
           /\ Append(s, e)[Len(s) + 1] = e
  BY AppendProperties, LenProperties

LEMMA InitInv == Init => IInv
<1>. SUFFICES ASSUME Init PROVE IInv
  OBVIOUS
<1>1. /\ \A d \in 0 .. MaxDay : log[d] = <<>> /\ DOMAIN log[d] = {}
      /\ \A t \in Threads : fanout[t] = None
      /\ tasks = {} /\ handled = {} /\ shed = {}
  BY DEF Init
<1>2. TypeOK /\ IsFiniteSet(tasks)
  BY SizesAssumption, FS_EmptySet DEF Init, TypeOK
<1>3. Indexed /\ Ids
  BY <1>1 DEF Indexed, Recent, Ids
<1>4. NoDuplicateOnDisk /\ TasksOnce
  BY <1>1 DEF NoDuplicateOnDisk, TasksOnce
<1>. QED
  BY <1>2, <1>3, <1>4 DEF IInv

(* The store accepts an event: whatever is done next, the log holds its     *)
(* fingerprint once.                                                        *)
LEMMA StoreInv ==
    ASSUME IInv, NEW e \in Event, AppendToStore(e), UNCHANGED day
    PROVE  /\ stored' \in Seq(Event) /\ keys' \subseteq Keys
           /\ log' \in [0 .. MaxDay -> Seq(Event)]
           /\ StoredIds' = StoredIds \cup {e.id}
           /\ Indexed' /\ NoDuplicateOnDisk'
<1>. DEFINE n == Len(log[day])
<1>1. /\ stored \in Seq(Event) /\ log \in [0 .. MaxDay -> Seq(Event)]
      /\ day \in 0 .. MaxDay /\ keys \subseteq Keys /\ e.key \in Keys
  BY DEF IInv, TypeOK, Event
<1>2. /\ log' = [log EXCEPT ![day] = Append(@, e)] /\ stored' = Append(stored, e)
      /\ keys' = keys \cup {e.key} /\ e.key \notin keys /\ day' = day
  BY DEF AppendToStore
<1>3. log[day] \in Seq(Event)
  BY <1>1
<1>4. /\ Append(log[day], e) \in Seq(Event) /\ n \in Nat /\ DOMAIN log[day] = 1 .. n
      /\ DOMAIN Append(log[day], e) = 1 .. n + 1
      /\ \A i \in 1 .. n : Append(log[day], e)[i] = log[day][i]
      /\ Append(log[day], e)[n + 1] = e
  BY <1>3, Appended
<1>5. /\ log'[day] = Append(log[day], e)
      /\ \A d \in (0 .. MaxDay) \ {day} : log'[d] = log[d]
  BY <1>1, <1>2
<1>6. ASSUME NEW d \in 0 .. MaxDay, NEW i \in DOMAIN log'[d]
      PROVE  \/ i \in DOMAIN log[d] /\ log'[d][i] = log[d][i]
             \/ d = day /\ i = n + 1 /\ log'[d][i] = e
  <2>1. CASE d = day
    BY <1>4, <1>5, <2>1
  <2>. QED
    BY <1>5, <2>1
<1>7. \A i \in DOMAIN log[day] : log[day][i].key \in keys
  BY <1>1 DEF IInv, Indexed, Recent
<1>8. Indexed'
  <2>1. \A d \in 0 .. MaxDay : d > day' => log'[d] = <<>>
    BY <1>1, <1>2, <1>5 DEF IInv, Indexed
  <2>2. ASSUME NEW d \in Recent, NEW i \in DOMAIN log'[d]
        PROVE  log'[d][i].key \in keys'
    BY <1>2, <1>6 DEF IInv, Indexed, Recent
  <2>. QED
    BY <1>2, <2>1, <2>2 DEF Indexed, Recent
<1>9. NoDuplicateOnDisk'
  <2>. SUFFICES ASSUME NEW d \in 0 .. MaxDay, NEW c \in {d, d + 1} \cap 0 .. MaxDay,
                       NEW i \in DOMAIN log'[d], NEW j \in DOMAIN log'[c],
                       log'[d][i].key = log'[c][j].key
                PROVE  d = c /\ i = j
    BY DEF NoDuplicateOnDisk
  <2>1. CASE i \in DOMAIN log[d] /\ log'[d][i] = log[d][i]
             /\ j \in DOMAIN log[c] /\ log'[c][j] = log[c][j]
    BY <2>1 DEF IInv, NoDuplicateOnDisk
  <2>2. CASE /\ d = day /\ i = n + 1 /\ log'[d][i] = e
             /\ j \in DOMAIN log[c] /\ log'[c][j] = log[c][j]
    <3>1. c = day \/ (c \in 0 .. MaxDay /\ c > day)
      BY <1>1, <2>2
    <3>2. c = day
      BY <2>2, <3>1 DEF IInv, Indexed
    <3>. QED
      BY <1>2, <1>7, <2>2, <3>2
  <2>3. CASE /\ c = day /\ j = n + 1 /\ log'[c][j] = e
             /\ i \in DOMAIN log[d] /\ log'[d][i] = log[d][i]
    <3>1. d \in Recent
      BY <1>1, <2>3 DEF Recent
    <3>2. log[d][i].key \in keys
      BY <2>3, <3>1 DEF IInv, Indexed
    <3>. QED
      BY <1>2, <2>3, <3>2
  <2>4. CASE d = day /\ i = n + 1 /\ c = day /\ j = n + 1
    BY <2>4
  <2>. QED
    BY <1>6, <2>1, <2>2, <2>3, <2>4
<1>10. StoredIds' = StoredIds \cup {e.id}
  <2>1. /\ DOMAIN stored = 1 .. Len(stored) /\ Len(stored) \in Nat
        /\ DOMAIN stored' = 1 .. Len(stored) + 1
        /\ \A i \in 1 .. Len(stored) : stored'[i] = stored[i]
        /\ stored'[Len(stored) + 1] = e
    BY <1>1, <1>2, Appended
  <2>2. \A i \in DOMAIN stored' : i \in DOMAIN stored \/ i = Len(stored) + 1
    BY <2>1
  <2>3. DOMAIN stored \subseteq DOMAIN stored' /\ Len(stored) + 1 \in DOMAIN stored'
    BY <2>1
  <2>. QED
    BY <2>1, <2>2, <2>3 DEF StoredIds
<1>11. stored' \in Seq(Event) /\ log' \in [0 .. MaxDay -> Seq(Event)]
  BY <1>1, <1>2, <1>4, Appended
<1>. QED
  BY <1>1, <1>2, <1>8, <1>9, <1>10, <1>11

(* An event is shed, or its handlers get tasks, and never both. *)
LEMMA FannedOut ==
    ASSUME IInv, NEW e \in Event, NEW created \in SUBSET ({e.id} \X Handlers),
           FanOut(e, created)
    PROVE  /\ depth' \in 0 .. MaxQueueSize
           /\ tasks' \subseteq Nat \X Handlers /\ IsFiniteSet(tasks')
           /\ shed' \subseteq [id : Nat, waiting : Nat]
           /\ \/ /\ tasks' = tasks
                 /\ \A s \in shed' : s \in shed \/ s.id = e.id
              \/ shed' = shed /\ tasks' = tasks \cup created
<1>1. /\ depth \in 0 .. MaxQueueSize /\ tasks \subseteq Nat \X Handlers
      /\ shed \subseteq [id : Nat, waiting : Nat] /\ IsFiniteSet(tasks) /\ e.id \in Nat
  BY DEF IInv, TypeOK, Event
<1>2. IsFiniteSet({e.id}) /\ IsFiniteSet(Handlers)
  BY FS_Singleton, SizesAssumption
<1>3. IsFiniteSet({e.id} \X Handlers)
  BY <1>2, FS_Product
<1>4. IsFiniteSet(created)
  BY <1>3, FS_Subset
<1>5. IsFiniteSet(tasks \cup created)
  BY <1>1, <1>4, FS_Union
<1>6. Cardinality(tasks) \in Nat
  BY <1>1, FS_CardinalityType
<1>7. CASE /\ shed' = shed \cup {[id |-> e.id, waiting |-> Cardinality(tasks)]}
           /\ UNCHANGED <<depth, tasks>>
  BY <1>1, <1>6, <1>7
<1>8. CASE /\ depth' = IF depth < MaxQueueSize THEN depth + 1 ELSE depth
           /\ tasks' = tasks \cup created /\ UNCHANGED shed
  <2>1. depth' \in 0 .. MaxQueueSize
    BY <1>1, <1>8, SizesAssumption
  <2>. QED
    BY <1>1, <1>5, <1>8, <2>1
<1>. QED
  BY <1>7, <1>8 DEF FanOut

LEMMA NewTyped ==
    ASSUME IInv, NEW k \in Keys, NEW p \in Priority, NEW b \in BOOLEAN
    PROVE  NewEvent(k, p, b) \in Event /\ NewEvent(k, p, b).id = nextId
  BY DEF IInv, TypeOK, NewEvent, Event

LEMMA PublishInv ==
    ASSUME IInv, NEW k \in Keys, NEW p \in Priority, Publish(k, p) PROVE IInv'
<1>. DEFINE e == NewEvent(k, p, FALSE)
<1>1. /\ e \in Event /\ e.id = nextId /\ nextId \in Nat /\ nextId' = nextId + 1
      /\ AppendToStore(e) /\ FanOut(e, TasksOf(e))
      /\ UNCHANGED <<fanout, day, restarts, lost, errors, handled>>
  BY NewTyped DEF Publish, IInv, TypeOK
<1>. HIDE DEF e
<1>2. TasksOf(e) \in SUBSET ({e.id} \X Handlers)
  BY DEF TasksOf
<1>3. /\ stored' \in Seq(Event) /\ keys' \subseteq Keys
      /\ log' \in [0 .. MaxDay -> Seq(Event)]
      /\ StoredIds' = StoredIds \cup {nextId}
      /\ Indexed' /\ NoDuplicateOnDisk'
  BY <1>1, StoreInv
<1>4. /\ depth' \in 0 .. MaxQueueSize
      /\ tasks' \subseteq Nat \X Handlers /\ IsFiniteSet(tasks')
      /\ shed' \subseteq [id : Nat, waiting : Nat]
      /\ \/ tasks' = tasks /\ \A s \in shed' : s \in shed \/ s.id = nextId
         \/ shed' = shed /\ tasks' = tasks \cup TasksOf(e)
  BY <1>1, <1>2, FannedOut
<1>5. TypeOK'
  BY <1>1, <1>3, <1>4 DEF IInv, TypeOK
<1>6. \A task \in TasksOf(e) : task[1] = nextId
  BY <1>1 DEF TasksOf
<1>7. /\ \A task \in tasks \cup handled : task[1] \in Nat /\ task[1] < nextId
      /\ \A s \in shed : s.id \in Nat /\ s.id < nextId
      /\ \A t \in Threads : fanout[t] # None =>
            fanout[t].id \in Nat /\ fanout[t].id < nextId
  BY DEF IInv, TypeOK, Ids, Event
<1>8. Ids'
  <2>1. \A task \in (tasks \cup handled)' : task[1] < nextId + 1
    BY <1>1, <1>4, <1>6, <1>7
  <2>2. \A s \in shed' : s.id < nextId + 1
    BY <1>1, <1>4, <1>7
  <2>3. ASSUME NEW t \in Threads, fanout[t] # None, NEW task \in tasks'
        PROVE  fanout[t].id < nextId + 1 /\ task[1] # fanout[t].id
    BY <1>1, <1>4, <1>6, <1>7, <2>3 DEF IInv, Ids
  <2>4. \A t \in Threads : fanout[t] # None => fanout[t].id < nextId + 1
    BY <1>1, <1>7
  <2>. QED
    BY <1>1, <2>1, <2>2, <2>3, <2>4 DEF Ids
<1>9. TasksOnce'
  <2>. SUFFICES ASSUME NEW task \in tasks'
                PROVE  /\ task[1] \in StoredIds' /\ task \notin handled
                       /\ \A s \in shed' : s.id # task[1]
    BY <1>1 DEF TasksOnce
  <2>1. CASE task \in tasks
    BY <1>1, <1>3, <1>4, <1>7, <2>1 DEF IInv, TasksOnce
  <2>2. CASE task \in TasksOf(e) /\ shed' = shed
    BY <1>1, <1>3, <1>6, <1>7, <2>2
  <2>. QED
    BY <1>4, <2>1, <2>2
<1>. QED
  BY <1>3, <1>4, <1>5, <1>8, <1>9 DEF IInv

LEMMA ThreadAppendInv ==
    ASSUME IInv, NEW t \in Threads, NEW k \in Keys, NEW p \in Priority,
           ThreadAppend(t, k, p)
    PROVE  IInv'
<1>. DEFINE e == NewEvent(k, p, TRUE)
<1>1. /\ e \in Event /\ e.id = nextId /\ nextId \in Nat /\ nextId' = nextId + 1
      /\ AppendToStore(e) /\ fanout' = [fanout EXCEPT ![t] = e]
      /\ UNCHANGED <<depth, tasks, day, restarts, lost, errors, handled, shed>>
  BY NewTyped DEF ThreadAppend, IInv, TypeOK
<1>. HIDE DEF e
<1>2. /\ stored' \in Seq(Event) /\ keys' \subseteq Keys
      /\ log' \in [0 .. MaxDay -> Seq(Event)]
      /\ StoredIds' = StoredIds \cup {nextId}
      /\ Indexed' /\ NoDuplicateOnDisk'
  BY <1>1, StoreInv
<1>3. TypeOK'
  BY <1>1, <1>2 DEF IInv, TypeOK
<1>4. /\ \A task \in tasks \cup handled : task[1] \in Nat /\ task[1] < nextId
      /\ \A s \in shed : s.id \in Nat /\ s.id < nextId
      /\ \A u \in Threads : fanout[u] # None =>
            fanout[u].id \in Nat /\ fanout[u].id < nextId
  BY DEF IInv, TypeOK, Ids, Event
<1>5. Ids'
  <2>1. ASSUME NEW u \in Threads, fanout'[u] # None
        PROVE  fanout'[u].id < nextId + 1 /\ \A task \in tasks : task[1] # fanout'[u].id
    <3>1. CASE u = t
      BY <1>1, <1>4, <3>1 DEF IInv, TypeOK
    <3>2. CASE u # t
      BY <1>1, <1>4, <2>1, <3>2 DEF IInv, TypeOK, Ids
    <3>. QED
      BY <3>1, <3>2
  <2>. QED
    BY <1>1, <1>4, <2>1 DEF Ids
<1>6. TasksOnce'
  BY <1>1, <1>2 DEF IInv, TasksOnce
<1>. QED
  BY <1>1, <1>2, <1>3, <1>5, <1>6 DEF IInv

LEMMA ThreadFanOutInv == ASSUME IInv, NEW t \in Threads, ThreadFanOut(t) PROVE IInv'
<1>. DEFINE e == fanout[t]
<1>1. /\ e # None /\ e \in Event /\ e.id \in Nat /\ e.id < nextId /\ nextId \in Nat
      /\ \A task \in tasks : task[1] # e.id
  BY DEF ThreadFanOut, IInv, TypeOK, Ids, Event
<1>2. /\ FanOut(e, {}) /\ fanout' = [fanout EXCEPT ![t] = None]
      /\ UNCHANGED <<stored, keys, log, day, nextId, restarts, lost, errors>>
  BY DEF ThreadFanOut
<1>3. /\ handled \subseteq handled'
      /\ \A task \in handled' : task \in handled \/ task \in {e.id} \X Handlers
  BY DEF ThreadFanOut, TasksOf
<1>. HIDE DEF e
<1>4. /\ depth' \in 0 .. MaxQueueSize /\ tasks' = tasks
      /\ shed' \subseteq [id : Nat, waiting : Nat]
      /\ \A s \in shed' : s \in shed \/ s.id = e.id
  <2>1. /\ depth' \in 0 .. MaxQueueSize
        /\ shed' \subseteq [id : Nat, waiting : Nat]
        /\ \/ /\ tasks' = tasks
              /\ \A s \in shed' : s \in shed \/ s.id = e.id
           \/ shed' = shed /\ tasks' = tasks \cup {}
    <3>1. {} \in SUBSET ({e.id} \X Handlers)
      OBVIOUS
    <3>. QED
      BY <1>1, <1>2, <3>1, FannedOut
  <2>2. tasks \cup {} = tasks
    OBVIOUS
  <2>. QED
    BY <2>1, <2>2
<1>5. TypeOK'
  BY <1>1, <1>2, <1>3, <1>4 DEF IInv, TypeOK
<1>6. Ids'
  <2>1. \A task \in (tasks \cup handled)' : task[1] < nextId
    BY <1>1, <1>3, <1>4 DEF IInv, Ids
  <2>2. \A s \in shed' : s.id < nextId
    BY <1>1, <1>4 DEF IInv, Ids
  <2>3. \A u \in Threads : fanout'[u] # None => u # t /\ fanout'[u] = fanout[u]
    BY <1>2 DEF IInv, TypeOK
  <2>. QED
    BY <1>2, <1>4, <2>1, <2>2, <2>3 DEF IInv, Ids
<1>7. TasksOnce'
  <2>1. StoredIds' = StoredIds
    BY <1>2 DEF StoredIds
  <2>2. \A task \in tasks : task \notin handled'
    BY <1>1, <1>3 DEF IInv, TasksOnce
  <2>3. \A task \in tasks : \A s \in shed' : s.id # task[1]
    BY <1>1, <1>4 DEF IInv, TasksOnce
  <2>. QED
    BY <1>4, <2>1, <2>2, <2>3 DEF IInv, TasksOnce
<1>8. Indexed' /\ NoDuplicateOnDisk'
  BY <1>2 DEF IInv, Indexed, Recent, NoDuplicateOnDisk
<1>. QED
  BY <1>4, <1>5, <1>6, <1>7, <1>8 DEF IInv

LEMMA PublishFailsInv ==
    ASSUME IInv, NEW k \in Keys, NEW p \in Priority, PublishFails(k, p) PROVE IInv'
<1>. DEFINE e == NewEvent(k, p, FALSE)
<1>1. /\ e \in Event /\ nextId \in Nat /\ nextId' = nextId + 1
      /\ stored' = Append(stored, e) /\ keys' = keys \cup {k} /\ errors' = errors + 1
      /\ UNCHANGED <<log, depth, tasks, fanout, day, restarts, lost, handled, shed>>
  BY NewTyped DEF PublishFails, IInv, TypeOK
<1>. HIDE DEF e
<1>2. stored \in Seq(Event) /\ errors \in Nat
  BY DEF IInv, TypeOK
<1>3. /\ stored' \in Seq(Event)
      /\ DOMAIN stored \subseteq DOMAIN stored'
      /\ \A i \in DOMAIN stored : stored'[i] = stored[i]
  BY <1>1, <1>2, Appended
<1>4. TypeOK'
  BY <1>1, <1>2, <1>3 DEF IInv, TypeOK
<1>5. Indexed' /\ NoDuplicateOnDisk'
  BY <1>1 DEF IInv, Indexed, Recent, NoDuplicateOnDisk
<1>6. /\ \A task \in tasks \cup handled : task[1] \in Nat
      /\ \A s \in shed : s.id \in Nat
      /\ \A t \in Threads : fanout[t] # None => fanout[t].id \in Nat
  BY DEF IInv, TypeOK, Event
<1>7. Ids'
  BY <1>1, <1>6 DEF IInv, Ids
<1>8. TasksOnce'
  BY <1>1, <1>3 DEF IInv, TasksOnce, StoredIds
<1>. QED
  BY <1>1, <1>4, <1>5, <1>7, <1>8 DEF IInv

LEMMA RunHandlerInv == ASSUME IInv, NEW task \in tasks, RunHandler(task) PROVE IInv'
<1>1. /\ tasks' = tasks \ {task} /\ handled' = handled \cup {task}
      /\ UNCHANGED <<stored, keys, log, depth, fanout, day, nextId,
                     restarts, lost, errors, shed>>
  BY DEF RunHandler
<1>2. IsFiniteSet(tasks')
  BY <1>1, FS_RemoveElement DEF IInv
<1>3. TypeOK' /\ Indexed' /\ NoDuplicateOnDisk' /\ Ids'
  BY <1>1 DEF IInv, TypeOK, Indexed, Recent, NoDuplicateOnDisk, Ids
<1>4. TasksOnce'
  BY <1>1 DEF IInv, TasksOnce, StoredIds
<1>. QED
  BY <1>2, <1>3, <1>4 DEF IInv

LEMMA NextDayInv == ASSUME IInv, NextDay PROVE IInv'
<1>1. /\ day \in 0 .. MaxDay /\ day < MaxDay /\ day' = day + 1 /\ MaxDay \in Nat
      /\ UNCHANGED <<stored, keys, log, depth, tasks, fanout, nextId,
                     restarts, lost, errors, handled, shed>>
  BY SizesAssumption DEF NextDay, IInv, TypeOK
<1>2. TypeOK' /\ NoDuplicateOnDisk' /\ Ids' /\ TasksOnce'
  BY <1>1 DEF IInv, TypeOK, NoDuplicateOnDisk, Ids, TasksOnce, StoredIds
<1>3. Indexed'
  <2>1. \A d \in 0 .. MaxDay : d > day + 1 => log[d] = <<>>
    BY <1>1 DEF IInv, Indexed
  <2>2. ASSUME NEW d \in 0 .. MaxDay, d = day + 1 \/ d + 1 = day + 1, NEW i \in DOMAIN log[d]
        PROVE  log[d][i].key \in keys
    <3>1. CASE d = day + 1
      <4>1. log[d] = <<>>
        BY <1>1, <3>1 DEF IInv, Indexed
      <4>. QED
        BY <2>2, <4>1
    <3>2. CASE d = day
      BY <2>2, <3>2 DEF IInv, Indexed, Recent
    <3>. QED
      BY <1>1, <2>2, <3>1, <3>2
  <2>. QED
    BY <1>1, <2>1, <2>2 DEF Indexed, Recent
<1>. QED
  BY <1>1, <1>2, <1>3 DEF IInv

(* A restart reads the two files that a fingerprint could be found in. *)
LEMMA RestartInv == ASSUME IInv, Restart PROVE IInv'
<1>. DEFINE before == IF day = 0 THEN <<>> ELSE log[day - 1]
            both == log[day] \o before
<1>1. /\ stored' = both /\ keys' = {e.key : e \in Range(both)}
      /\ depth' = 0 /\ tasks' = {} /\ lost' = lost \cup tasks
      /\ fanout' = [t \in Threads |-> None] /\ restarts' = restarts + 1
      /\ UNCHANGED <<log, day, nextId, errors, handled, shed>>
  BY DEF Restart, LoadRecentEvents
<1>2. /\ day \in 0 .. MaxDay /\ log \in [0 .. MaxDay -> Seq(Event)]
      /\ MaxDay \in Nat /\ MaxQueueSize \in Nat /\ restarts \in Nat
  BY SizesAssumption DEF IInv, TypeOK
<1>3. log[day] \in Seq(Event) /\ before \in Seq(Event)
  BY <1>2
<1>. HIDE DEF before
<1>4. /\ both \in Seq(Event) /\ DOMAIN both = 1 .. Len(log[day]) + Len(before)
      /\ Len(log[day]) \in Nat /\ Len(before) \in Nat
      /\ DOMAIN log[day] = 1 .. Len(log[day]) /\ DOMAIN before = 1 .. Len(before)
      /\ \A i \in 1 .. Len(log[day]) + Len(before) :
            both[i] = IF i <= Len(log[day]) THEN log[day][i] ELSE before[i - Len(log[day])]
  BY <1>3, ConcatProperties, LenProperties
<1>5. \A i \in DOMAIN both : both[i] \in Event
  BY <1>4, ElementOfSeq
<1>6. keys' \subseteq Keys
  BY <1>1, <1>5 DEF Range, Event
<1>7. \A i \in DOMAIN both : both[i].key \in keys'
  BY <1>1 DEF Range
<1>8. \A i \in DOMAIN log[day] : log[day][i].key \in keys'
  <2>1. ASSUME NEW i \in DOMAIN log[day] PROVE i \in DOMAIN both /\ both[i] = log[day][i]
    BY <1>4
  <2>. QED
    BY <1>7, <2>1
<1>9. \A i \in DOMAIN before : before[i].key \in keys'
  <2>1. ASSUME NEW i \in DOMAIN before
        PROVE  /\ i + Len(log[day]) \in DOMAIN both
               /\ both[i + Len(log[day])] = before[i]
    <3>1. /\ i \in Nat /\ i \in 1 .. Len(before)
          /\ i + Len(log[day]) \in 1 .. Len(log[day]) + Len(before)
          /\ ~(i + Len(log[day]) <= Len(log[day]))
          /\ (i + Len(log[day])) - Len(log[day]) = i
      BY <1>4
    <3>. QED
      BY <1>4, <3>1
  <2>. QED
    BY <1>7, <2>1
<1>10. Indexed'
  <2>1. \A d \in 0 .. MaxDay : d > day => log[d] = <<>>
    BY DEF IInv, Indexed
  <2>2. ASSUME NEW d \in 0 .. MaxDay, d = day \/ d + 1 = day, NEW i \in DOMAIN log[d]
        PROVE  log[d][i].key \in keys'
    <3>1. CASE d = day
      BY <1>8, <2>2, <3>1
    <3>2. CASE d + 1 = day
      <4>1. before = log[d]
        BY <1>2, <3>2 DEF before
      <4>. QED
        BY <1>9, <2>2, <4>1
    <3>. QED
      BY <2>2, <3>1, <3>2
  <2>. QED
    BY <1>1, <2>1, <2>2 DEF Indexed, Recent
<1>11. TypeOK'
  BY <1>1, <1>2, <1>4, <1>6 DEF IInv, TypeOK
<1>12. Ids' /\ TasksOnce' /\ NoDuplicateOnDisk'
  BY <1>1 DEF IInv, Ids, TasksOnce, NoDuplicateOnDisk
<1>13. IsFiniteSet(tasks')
  BY <1>1, FS_EmptySet
<1>. QED
  BY <1>10, <1>11, <1>12, <1>13 DEF IInv

LEMMA NextInv == IInv /\ [Next]_vars => IInv'
<1>. SUFFICES ASSUME IInv, [Next]_vars PROVE IInv'
  OBVIOUS
<1>1. ASSUME NEW k \in Keys, NEW p \in Priority, Publish(k, p) PROVE IInv'
  BY <1>1, PublishInv
<1>2. ASSUME NEW k \in Keys, NEW p \in Priority, NEW t \in Threads, ThreadAppend(t, k, p)
      PROVE  IInv'
  BY <1>2, ThreadAppendInv
<1>3. ASSUME NEW k \in Keys, NEW p \in Priority, PublishFails(k, p) PROVE IInv'
  BY <1>3, PublishFailsInv
<1>4. ASSUME NEW t \in Threads, ThreadFanOut(t) PROVE IInv'
  BY <1>4, ThreadFanOutInv
<1>5. ASSUME NEW task \in tasks, RunHandler(task) PROVE IInv'
  BY <1>5, RunHandlerInv
<1>6. CASE NextDay
  BY <1>6, NextDayInv
<1>7. CASE Restart
  BY <1>7, RestartInv
<1>8. CASE UNCHANGED vars
  BY <1>8 DEF vars, IInv, TypeOK, Indexed, Recent, Ids, NoDuplicateOnDisk, TasksOnce, StoredIds
<1>. QED
  BY <1>1, <1>2, <1>3, <1>4, <1>5, <1>6, <1>7, <1>8 DEF Next
-----------------------------------------------------------------------------
LEMMA Invariance == Spec => []IInv
<1>. QED
  BY InitInv, NextInv, PTL DEF Spec

(* Every reachable state of the bus and its store is well typed. *)
THEOREM TypeCorrect == Spec => []TypeOK
<1>1. IInv => TypeOK
  BY DEF IInv
<1>. QED
  BY <1>1, Invariance, PTL

(* Within two consecutive days the log holds a fingerprint once, whatever   *)
(* restarts, failed writes and publishing threads come between.             *)
THEOREM LogHasNoDuplicates == Spec => []NoDuplicateOnDisk
<1>1. IInv => NoDuplicateOnDisk
  BY DEF IInv
<1>. QED
  BY <1>1, Invariance, PTL

(* A waiting task is of an event on file, has not run, and was not shed.    *)
THEOREM TasksRunOnce == Spec => []TasksOnce
<1>1. IInv => TasksOnce
  BY DEF IInv
<1>. QED
  BY <1>1, Invariance, PTL
=============================================================================
