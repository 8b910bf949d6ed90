------------------------ MODULE ForecastTriggerProofs ------------------------
(***************************************************************************)
(* Type correctness of the forecast trigger, conservation of the updates   *)
(* it coalesces and agreement of the queue with the job states, for any    *)
(* windows, any queue size and any number of updates.                      *)
(***************************************************************************)
EXTENDS ForecastTrigger, SequenceTheorems, TLAPS

(* Neither property is inductive without the ranges of what refers to what. *)
References ==
    /\ pending \subseteq 1 .. received
    /\ lost \subseteq 1 .. received
    /\ \A i \in Jobs : jobs[i].updates \subseteq 1 .. received
    /\ \A n \in DOMAIN queue : queue[n] \in Jobs
    /\ current \in {0} \cup Jobs

IInv == TypeOK /\ References /\ UpdatesInOneJob /\ QueueMatchesStates
-----------------------------------------------------------------------------
(* What a submission does to jobs and queue, in terms of their elements. *)
LEMMA Submitted ==
    ASSUME IInv, SubmitJob
    PROVE  /\ jobs' \in Seq(Job) /\ queue' \in Seq(Nat)
           /\ Len(jobs') = Len(jobs) + 1
           /\ \A i \in Jobs : jobs'[i] = jobs[i]
           /\ jobs'[Len(jobs) + 1].updates = pending
           /\ \/ /\ jobs'[Len(jobs) + 1].state = "QUEUED"
                 /\ Len(queue') = Len(queue) + 1
                 /\ \A n \in DOMAIN queue : queue'[n] = queue[n]
                 /\ queue'[Len(queue) + 1] = Len(jobs) + 1
              \/ /\ jobs'[Len(jobs) + 1].state = "FAILED"
                 /\ queue' = queue
<1>1. jobs \in Seq(Job) /\ queue \in Seq(Nat) /\ Len(jobs) \in Nat
  BY LenProperties DEF IInv, TypeOK
<1>2. NewJob("QUEUED") \in Job /\ NewJob("FAILED") \in Job
  BY DEF IInv, TypeOK, NewJob, Job, JobState
<1>3. CASE /\ jobs' = Append(jobs, NewJob("QUEUED"))
           /\ queue' = Append(queue, Len(jobs'))
  <2>1. /\ jobs' \in Seq(Job)
        /\ Len(jobs') = Len(jobs) + 1
        /\ \A i \in 1 .. Len(jobs) : jobs'[i] = jobs[i]
        /\ jobs'[Len(jobs) + 1] = NewJob("QUEUED")
    BY <1>1, <1>2, <1>3, AppendProperties
  <2>2. /\ queue' \in Seq(Nat)
        /\ Len(queue') = Len(queue) + 1
        /\ \A n \in 1 .. Len(queue) : queue'[n] = queue[n]
        /\ queue'[Len(queue) + 1] = Len(jobs) + 1
    BY <1>1, <1>3, <2>1, AppendProperties
  <2>3. Jobs = 1 .. Len(jobs) /\ DOMAIN queue = 1 .. Len(queue)
    BY <1>1, LenProperties DEF Jobs
  <2>. QED
    BY <2>1, <2>2, <2>3 DEF NewJob
<1>4. CASE jobs' = Append(jobs, NewJob("FAILED")) /\ UNCHANGED queue
  <2>1. /\ jobs' \in Seq(Job)
        /\ Len(jobs') = Len(jobs) + 1
        /\ \A i \in 1 .. Len(jobs) : jobs'[i] = jobs[i]
        /\ jobs'[Len(jobs) + 1] = NewJob("FAILED")
    BY <1>1, <1>2, <1>4, AppendProperties
  <2>2. Jobs = 1 .. Len(jobs)
    BY <1>1, LenProperties DEF Jobs
  <2>. QED
    BY <1>1, <1>4, <2>1, <2>2 DEF NewJob
<1>. QED
  BY <1>3, <1>4 DEF SubmitJob

(* What an assignment of one job's state does. *)
LEMMA StateWritten ==
    ASSUME IInv, NEW k \in Jobs, NEW s \in JobState,
           jobs' = [jobs EXCEPT ![k].state = s]
    PROVE  /\ jobs' \in Seq(Job)
           /\ Jobs' = Jobs
           /\ jobs'[k].state = s
           /\ \A i \in Jobs : jobs'[i].updates = jobs[i].updates
           /\ \A i \in Jobs \ {k} : jobs'[i] = jobs[i]
<1>1. jobs \in Seq(Job)
  BY DEF IInv, TypeOK
<1>2. jobs[k] \in Job
  BY <1>1, ElementOfSeq, LenProperties DEF Jobs
<1>3. [jobs[k] EXCEPT !.state = s] \in Job
  BY <1>2 DEF Job
<1>4. jobs' \in Seq(Job)
  BY <1>1, <1>3, ExceptSeq, LenProperties DEF Jobs
<1>. QED
  BY <1>1, <1>2, <1>4 DEF Jobs, Job

(* What the invariant says of the queue, with DOMAINs written as intervals. *)
LEMMA QueueFacts ==
    ASSUME IInv
    PROVE  /\ Len(queue) \in Nat /\ DOMAIN queue = 1 .. Len(queue)
           /\ Len(jobs) \in Nat /\ Jobs = 1 .. Len(jobs)
           /\ \A n \in 1 .. Len(queue) : queue[n] \in 1 .. Len(jobs)
           /\ \A m, n \in 1 .. Len(queue) : m < n => queue[m] < queue[n]
           /\ \A i \in Jobs : (jobs[i].state = "QUEUED") <=>
                                  \E n \in 1 .. Len(queue) : queue[n] = i
           /\ \A i \in Jobs : (jobs[i].state = "RUNNING") <=> current = i
<1>1. jobs \in Seq(Job) /\ queue \in Seq(Nat)
  BY DEF IInv, TypeOK
<1>2. /\ Len(queue) \in Nat /\ DOMAIN queue = 1 .. Len(queue)
      /\ Len(jobs) \in Nat /\ Jobs = 1 .. Len(jobs)
  BY <1>1, LenProperties DEF Jobs
<1>3. \A n \in DOMAIN queue : queue[n] \in Jobs
  BY DEF IInv, References
<1>4. QueueMatchesStates
  BY DEF IInv
<1>. QED
  BY <1>2, <1>3, <1>4 DEF QueueMatchesStates
-----------------------------------------------------------------------------
LEMMA InitInv == Init => IInv
<1>. SUFFICES ASSUME Init PROVE IInv
  OBVIOUS
<1>1. /\ jobs \in Seq(Job) /\ queue \in Seq(Nat)
      /\ DOMAIN jobs = {} /\ DOMAIN queue = {}
  BY DEF Init
<1>2. TypeOK
  BY <1>1, QueueAssumption, TicksAssumption DEF Init, TypeOK
<1>3. References /\ QueueMatchesStates
  BY <1>1 DEF Init, References, QueueMatchesStates, Jobs
<1>4. UpdatesInOneJob
  BY DEF Init, UpdatesInOneJob
<1>. QED
  BY <1>2, <1>3, <1>4 DEF IInv

LEMMA ReceiveUpdateInv ==
    ASSUME IInv, ReceiveUpdate PROVE IInv'
<1>. received \in Nat /\ MaxUpdates \in Nat /\ DebounceTicks \in Nat
  BY QueueAssumption, TicksAssumption DEF IInv, TypeOK
<1>1. TypeOK'
  BY DEF IInv, TypeOK, ReceiveUpdate, Updates
<1>2. References'
  BY DEF IInv, References, ReceiveUpdate, Jobs
<1>3. UpdatesInOneJob'
  <2>1. \A i \in Jobs : received + 1 \notin jobs[i].updates
    BY DEF IInv, References
  <2>. QED
    BY <2>1 DEF IInv, UpdatesInOneJob, References, ReceiveUpdate, Jobs, JobsOf
<1>4. QueueMatchesStates'
  BY DEF IInv, QueueMatchesStates, ReceiveUpdate, Jobs
<1>. QED
  BY <1>1, <1>2, <1>3, <1>4 DEF IInv

LEMMA TriggerRunInv ==
    ASSUME IInv, TriggerRun PROVE IInv'
<1>. DEFINE new == Len(jobs) + 1
<1>1. jobs \in Seq(Job) /\ queue \in Seq(Nat) /\ Len(jobs) \in Nat
      /\ Len(queue) \in Nat /\ received \in Nat
      /\ Jobs = 1 .. Len(jobs) /\ DOMAIN queue = 1 .. Len(queue)
  BY LenProperties, QueueAssumption DEF IInv, TypeOK, Jobs
<1>2. SubmitJob
  BY DEF TriggerRun
<1>3. /\ jobs' \in Seq(Job) /\ queue' \in Seq(Nat)
      /\ Jobs' = Jobs \cup {new}
      /\ new \notin Jobs
      /\ \A i \in Jobs : jobs'[i] = jobs[i]
      /\ jobs'[new].updates = pending
  BY <1>1, <1>2, Submitted, LenProperties DEF Jobs
<1>4. TypeOK'
  BY <1>3, TicksAssumption DEF IInv, TypeOK, TriggerRun
<1>5. References'
  <2>1. \A n \in DOMAIN queue' : queue'[n] \in Jobs'
    <3>1. CASE queue' = queue
      BY <1>1, <1>3, <3>1, QueueFacts
    <3>2. CASE /\ Len(queue') = Len(queue) + 1
               /\ \A n \in DOMAIN queue : queue'[n] = queue[n]
               /\ queue'[Len(queue) + 1] = new
      <4>1. DOMAIN queue' = DOMAIN queue \cup {Len(queue) + 1}
        BY <1>1, <1>3, <3>2, LenProperties
      <4>2. \A n \in DOMAIN queue : queue[n] \in Jobs
        BY DEF IInv, References
      <4>. HIDE DEF new
      <4>. QED
        BY <1>3, <3>2, <4>1, <4>2
    <3>. QED
      BY <1>2, <3>1, <3>2, Submitted
  <2>. QED
    BY <1>3, <2>1 DEF IInv, References, TriggerRun
<1>6. UpdatesInOneJob'
  <2>. SUFFICES ASSUME NEW u \in 1 .. received
                PROVE  \/ u \in lost /\ JobsOf(u)' = {}
                       \/ u \notin lost /\ \E i \in Jobs' : JobsOf(u)' = {i}
    BY DEF UpdatesInOneJob, TriggerRun
  <2>1. JobsOf(u)' = IF u \in pending THEN JobsOf(u) \cup {new} ELSE JobsOf(u)
    <3>. HIDE DEF new
    <3>. QED
      BY <1>3 DEF JobsOf
  <2>. HIDE DEF new
  <2>2. CASE u \in pending
    BY <1>3, <2>1, <2>2 DEF IInv, UpdatesInOneJob
  <2>3. CASE u \notin pending
    BY <1>3, <2>1, <2>3 DEF IInv, UpdatesInOneJob
  <2>. QED
    BY <2>2, <2>3
<1>7. QueueMatchesStates'
  <2>1. current' = current /\ current # new
    BY <1>1, <1>3 DEF TriggerRun, IInv, References
  <2>2. /\ jobs'[new].state \in {"QUEUED", "FAILED"}
        /\ \A i \in Jobs' : (jobs'[i].state = "RUNNING") <=> current' = i
    BY <1>2, <1>3, <2>1, Submitted, QueueFacts
  <2>3. CASE /\ jobs'[new].state = "QUEUED"
             /\ Len(queue') = Len(queue) + 1
             /\ \A n \in DOMAIN queue : queue'[n] = queue[n]
             /\ queue'[Len(queue) + 1] = new
    <3>1. /\ DOMAIN queue' = 1 .. Len(queue) + 1
          /\ DOMAIN queue' = DOMAIN queue \cup {Len(queue) + 1}
          /\ \A n \in 1 .. Len(queue) : queue'[n] = queue[n]
      <4>1. DOMAIN queue' = 1 .. Len(queue) + 1
        BY <1>3, <2>3, LenProperties
      <4>2. 1 .. Len(queue) + 1 = 1 .. Len(queue) \cup {Len(queue) + 1}
        BY <1>1
      <4>. QED
        BY <1>1, <2>3, <4>1, <4>2
    <3>2. \A i \in Jobs' : (jobs'[i].state = "QUEUED") <=>
              \E n \in DOMAIN queue' : queue'[n] = i
      <4>1. \A i \in Jobs : (jobs[i].state = "QUEUED") <=>
                                 \E n \in DOMAIN queue : queue[n] = i
        BY DEF IInv, QueueMatchesStates
      <4>. HIDE DEF new
      <4>2. ASSUME NEW i \in Jobs
            PROVE  (\E n \in DOMAIN queue' : queue'[n] = i) <=>
                       \E n \in DOMAIN queue : queue[n] = i
        <5>1. i # new
          BY <1>3
        <5>. QED
          BY <2>3, <3>1, <5>1
      <4>3. \E n \in DOMAIN queue' : queue'[n] = new
        BY <2>3, <3>1
      <4>. QED
        BY <1>3, <2>3, <4>1, <4>2, <4>3
    <3>3. \A m, n \in DOMAIN queue' : m < n => queue'[m] < queue'[n]
      <4>1. \A m, n \in 1 .. Len(queue) : m < n => queue'[m] < queue'[n]
        BY <3>1, QueueFacts
      <4>2. \A m \in 1 .. Len(queue) : queue'[m] < queue'[Len(queue) + 1]
        BY <1>1, <2>3, <3>1, QueueFacts
      <4>. QED
        BY <1>1, <3>1, <4>1, <4>2
    <3>. QED
      BY <2>2, <3>2, <3>3 DEF QueueMatchesStates
  <2>4. CASE jobs'[new].state = "FAILED" /\ queue' = queue
    <3>1. ~\E n \in 1 .. Len(queue) : queue[n] = new
      BY <1>1, QueueFacts
    <3>2. \A i \in Jobs' : (jobs'[i].state = "QUEUED") <=>
              \E n \in DOMAIN queue' : queue'[n] = i
      BY <1>1, <1>3, <2>4, <3>1, QueueFacts
    <3>. QED
      BY <1>1, <2>2, <2>4, <3>2, QueueFacts DEF QueueMatchesStates
  <2>. QED
    BY <1>2, <2>3, <2>4, Submitted
<1>. QED
  BY <1>4, <1>5, <1>6, <1>7 DEF IInv

(* The updates of a trigger that raised move from the pending to the lost.  *)
LEMMA TriggerFailsInv ==
    ASSUME IInv, TriggerFails PROVE IInv'
<1>1. TypeOK'
  BY TicksAssumption DEF IInv, TypeOK, TriggerFails
<1>2. References'
  BY DEF IInv, References, TriggerFails, Jobs
<1>3. UpdatesInOneJob'
  BY DEF IInv, UpdatesInOneJob, TriggerFails, JobsOf, Jobs
<1>4. QueueMatchesStates'
  BY DEF IInv, QueueMatchesStates, TriggerFails, Jobs
<1>. QED
  BY <1>1, <1>2, <1>3, <1>4 DEF IInv

LEMMA StartJobInv ==
    ASSUME IInv, StartJob PROVE IInv'
<1>. DEFINE k == Head(queue)
<1>1. queue \in Seq(Nat) /\ queue # <<>> /\ Len(queue) \in Nat
      /\ DOMAIN queue = 1 .. Len(queue) /\ Len(queue) > 0
  BY LenProperties, EmptySeq DEF IInv, TypeOK, StartJob
<1>2. /\ k = queue[1] /\ queue' \in Seq(Nat)
      /\ DOMAIN queue' = 1 .. Len(queue) - 1
      /\ \A n \in 1 .. Len(queue) - 1 : queue'[n] = queue[n + 1]
  BY <1>1, HeadTailProperties, LenProperties DEF StartJob
<1>3. k \in Jobs /\ k \in Nat
  <2>1. queue[1] \in Jobs
    BY <1>1, QueueFacts
  <2>. QED
    BY <1>2, <2>1, QueueFacts
<1>4. /\ jobs' \in Seq(Job)
      /\ Jobs' = Jobs
      /\ jobs'[k].state = "RUNNING"
      /\ \A i \in Jobs : jobs'[i].updates = jobs[i].updates
      /\ \A i \in Jobs \ {k} : jobs'[i] = jobs[i]
  BY <1>3, StateWritten DEF StartJob, JobState
<1>5. TypeOK'
  BY <1>2, <1>3, <1>4 DEF IInv, TypeOK, StartJob
<1>6. References'
  BY <1>1, <1>2, <1>3, <1>4 DEF IInv, References, StartJob
<1>7. UpdatesInOneJob'
  BY <1>4 DEF IInv, UpdatesInOneJob, StartJob, JobsOf
<1>8. QueueMatchesStates'
  <2>1. \A n \in DOMAIN queue' : n + 1 \in 1 .. Len(queue) /\ n + 1 > 1
                                /\ queue'[n] = queue[n + 1]
    BY <1>1, <1>2
  <2>2. \A n \in DOMAIN queue' : queue'[n] # k
    <3>1. \A n \in 2 .. Len(queue) : queue[1] < queue[n]
      BY <1>1, QueueFacts
    <3>. QED
      BY <1>2, <1>3, <2>1, <3>1, QueueFacts
  <2>3. \A i \in Jobs \ {k} : (\E n \in 1 .. Len(queue) : queue[n] = i) <=>
            \E n \in DOMAIN queue' : queue'[n] = i
    <3>1. \A n \in 1 .. Len(queue) : n = 1 \/ n - 1 \in DOMAIN queue'
      BY <1>1, <1>2
    <3>2. \A n \in 1 .. Len(queue) : n # 1 => queue[n] = queue'[n - 1]
      BY <1>1, <1>2
    <3>. QED
      BY <1>2, <2>1, <3>1, <3>2
  <2>4. \A m, n \in DOMAIN queue' : m < n => queue'[m] < queue'[n]
    <3>. SUFFICES ASSUME NEW m \in DOMAIN queue', NEW n \in DOMAIN queue', m < n
                  PROVE  queue[m + 1] < queue[n + 1]
      BY <2>1
    <3>1. m \in 1 .. Len(queue) - 1 /\ n \in 1 .. Len(queue) - 1
      BY <1>2
    <3>2. m + 1 \in 1 .. Len(queue) /\ n + 1 \in 1 .. Len(queue) /\ m + 1 < n + 1
      BY <1>1, <3>1
    <3>. QED
      BY <3>2, QueueFacts
  <2>5. \A i \in Jobs : jobs[i].state # "RUNNING"
    <3>1. \A i \in Jobs : current # i
      BY QueueFacts DEF StartJob
    <3>. QED
      BY <3>1, QueueFacts
  <2>6. current' = k
    BY DEF StartJob
  <2>7. \A i \in Jobs' : (jobs'[i].state = "RUNNING") <=> current' = i
    BY <1>3, <1>4, <2>5, <2>6
  <2>8. \A i \in Jobs' : (jobs'[i].state = "QUEUED") <=>
            \E n \in DOMAIN queue' : queue'[n] = i
    BY <1>3, <1>4, <2>2, <2>3, QueueFacts
  <2>. QED
    BY <2>4, <2>7, <2>8 DEF QueueMatchesStates
<1>. QED
  BY <1>5, <1>6, <1>7, <1>8 DEF IInv

LEMMA EndJobInv ==
    ASSUME IInv, NEW s \in {"COMPLETED", "FAILED"}, EndJob(s) PROVE IInv'
<1>1. current \in Jobs /\ s \in JobState
  BY DEF IInv, References, EndJob, JobState
<1>2. /\ jobs' \in Seq(Job)
      /\ Jobs' = Jobs
      /\ jobs'[current].state = s
      /\ \A i \in Jobs : jobs'[i].updates = jobs[i].updates
      /\ \A i \in Jobs \ {current} : jobs'[i] = jobs[i]
  BY <1>1, StateWritten DEF EndJob
<1>3. TypeOK'
  BY <1>2 DEF IInv, TypeOK, EndJob
<1>4. References'
  BY <1>2 DEF IInv, References, EndJob
<1>5. UpdatesInOneJob'
  BY <1>2 DEF IInv, UpdatesInOneJob, EndJob, JobsOf
<1>6. QueueMatchesStates'
  <2>1. jobs[current].state = "RUNNING" /\ 0 \notin Jobs
    BY <1>1 DEF IInv, QueueMatchesStates, TypeOK, Jobs
  <2>2. queue' = queue /\ current' = 0
    BY DEF EndJob
  <2>. QED
    BY <1>1, <1>2, <2>1, <2>2 DEF IInv, QueueMatchesStates
<1>. QED
  BY <1>3, <1>4, <1>5, <1>6 DEF IInv

(* The steps that touch neither updates nor jobs. *)
LEMMA ClockInv ==
    ASSUME IInv, Throttle \/ Tick \/ StopWorker \/ UNCHANGED vars PROVE IInv'
<1>1. UNCHANGED <<received, pending, lost, jobs, queue, current>>
  BY DEF Throttle, Tick, StopWorker, vars
<1>2. DebounceTicks \in Nat /\ MinIntervalTicks \in Nat
  BY TicksAssumption
<1>3. timer' \in {Off} \cup 0 .. DebounceTicks
  BY <1>2 DEF IInv, TypeOK, Throttle, Tick, StopWorker, vars, Off
<1>4. cooldown' \in 0 .. MinIntervalTicks /\ working' \in BOOLEAN
  <2>1. cooldown \in 0 .. MinIntervalTicks /\ working \in BOOLEAN
    BY DEF IInv, TypeOK
  <2>2. working' \in BOOLEAN
    BY <2>1 DEF Throttle, Tick, StopWorker, vars
  <2>3. CASE Tick
    BY <1>2, <2>1, <2>3 DEF Tick
  <2>4. CASE Throttle \/ StopWorker \/ UNCHANGED vars
    BY <2>1, <2>4 DEF Throttle, StopWorker, vars
  <2>. QED
    BY <2>2, <2>3, <2>4
<1>5. TypeOK'
  BY <1>1, <1>3, <1>4 DEF IInv, TypeOK, Off
<1>. QED
  BY <1>1, <1>5
     DEF IInv, References, UpdatesInOneJob, QueueMatchesStates, Jobs, JobsOf
-----------------------------------------------------------------------------
LEMMA NextInv == IInv /\ [Next]_vars => IInv'
<1>. SUFFICES ASSUME IInv, [Next]_vars PROVE IInv'
  OBVIOUS
<1>1. CASE ReceiveUpdate
  BY <1>1, ReceiveUpdateInv
<1>2. CASE TriggerRun
  BY <1>2, TriggerRunInv
<1>6. CASE TriggerFails
  BY <1>6, TriggerFailsInv
<1>3. CASE StartJob
  BY <1>3, StartJobInv
<1>4. CASE EndJob("COMPLETED") \/ EndJob("FAILED")
  BY <1>4, EndJobInv
<1>5. CASE Throttle \/ Tick \/ StopWorker \/ UNCHANGED vars
  BY <1>5, ClockInv
<1>. QED
  BY <1>1, <1>2, <1>3, <1>4, <1>5, <1>6 DEF Next

(* Every reachable state of the trigger and its queue is well typed. *)
THEOREM TypeCorrect == Spec => []TypeOK
<1>1. IInv => TypeOK
  BY DEF IInv
<1>. QED
  BY InitInv, NextInv, <1>1, PTL DEF Spec

(* Every update is pending, in exactly one job or lost with a trigger whose *)
(* event could not be logged, whatever the windows, the queue size and the  *)
(* order of updates, triggers and runs.                                     *)
THEOREM UpdatesConserved == Spec => []UpdatesInOneJob
<1>1. IInv => UpdatesInOneJob
  BY DEF IInv
<1>. QED
  BY InitInv, NextInv, <1>1, PTL DEF Spec

(* The queue's contents and the jobs' states always agree; in particular    *)
(* at most one job is RUNNING and the queue keeps the order of submission.  *)
THEOREM QueueAgrees == Spec => []QueueMatchesStates
<1>1. IInv => QueueMatchesStates
  BY DEF IInv
<1>. QED
  BY InitInv, NextInv, <1>1, PTL DEF Spec
=============================================================================
