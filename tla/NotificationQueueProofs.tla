----------------------- MODULE NotificationQueueProofs -----------------------
(***************************************************************************)
(* The notification queue's accounting, the single outcome of a message    *)
(* and the order of first attempts, for any number of messages and retries.*)
(***************************************************************************)
EXTENDS NotificationQueue, SequenceTheorems, TLAPS

Q == 1 .. Len(queue)
R == 1 .. Len(records)
Busy == phase # "idle"

(* Messages in flight are distinct and were enqueued. *)
Distinct ==
    /\ \A n \in Q : queue[n].id \in 1 .. queued
    /\ \A m, n \in Q : queue[m].id = queue[n].id => m = n
    /\ Busy => hand.id \in 1 .. queued /\ \A n \in Q : queue[n].id # hand.id
    /\ \A k \in R : records[k].id \in 1 .. queued

(* What waits for its first attempt is younger than anything ahead of it,   *)
(* anything retried and anything attempted.                                 *)
FirstAttempts ==
    /\ \A m, n \in Q : (queue[n].retries = 0 /\ (m < n \/ queue[m].retries > 0))
           => queue[m].id < queue[n].id
    /\ Busy => \A n \in Q : queue[n].retries = 0 => hand.id < queue[n].id
    /\ phase = "backoff" => hand.retries > 0

(* The two properties with their DOMAINs written as intervals. *)
Outcomes ==
    /\ \A m, n \in R : records[m].id = records[n].id => m = n
    /\ \A k \in R : Busy => records[k].id # hand.id
    /\ \A k \in R, n \in Q : records[k].id # queue[n].id
Order ==
    /\ \A n \in Q : queue[n].retries = 0 => \A k \in R : records[k].id < queue[n].id
    /\ (Busy /\ hand.retries = 0) => \A k \in R : records[k].id < hand.id

IInv == TypeOK /\ MetricsBalance /\ Distinct /\ FirstAttempts /\ Outcomes /\ Order
-----------------------------------------------------------------------------
LEMMA Intervals ==
    ASSUME TypeOK
    PROVE  /\ DOMAIN queue = Q /\ DOMAIN records = R
           /\ Len(queue) \in Nat /\ Len(records) \in Nat
           /\ \A n \in Q : queue[n] \in Message
           /\ \A k \in R : records[k] \in Record
<1>1. queue \in Seq(Message) /\ records \in Seq(Record)
  BY DEF TypeOK
<1>. QED
  BY <1>1, LenProperties, ElementOfSeq DEF Q, R

LEMMA Restated ==
    ASSUME TypeOK
    PROVE  /\ OneOutcome <=> Outcomes
           /\ OvertakenOnlyInRetry <=> Order
<1>1. DOMAIN queue = Q /\ DOMAIN records = R
  BY Intervals
<1>. QED
  BY <1>1 DEF OneOutcome, OvertakenOnlyInRetry, Outcomes, Order, InFlight, Busy

(* What an append to the queue and to the records does. *)
LEMMA QueueAppended ==
    ASSUME TypeOK, NEW x \in Message, queue' = Append(queue, x)
    PROVE  /\ queue' \in Seq(Message)
           /\ Len(queue') = Len(queue) + 1
           /\ Q' = Q \cup {Len(queue) + 1}
           /\ \A n \in Q : queue'[n] = queue[n] /\ n < Len(queue) + 1
           /\ queue'[Len(queue) + 1] = x
<1>1. queue \in Seq(Message) /\ Len(queue) \in Nat
  BY LenProperties DEF TypeOK
<1>2. /\ queue' \in Seq(Message)
      /\ Len(queue') = Len(queue) + 1
      /\ \A n \in 1 .. Len(queue) : queue'[n] = queue[n]
      /\ queue'[Len(queue) + 1] = x
  BY <1>1, AppendProperties
<1>. QED
  BY <1>1, <1>2 DEF Q

LEMMA OutcomeRecorded ==
    ASSUME TypeOK, NEW status \in Status, RecordOutcome(status)
    PROVE  /\ records' \in Seq(Record)
           /\ R' = R \cup {Len(records) + 1}
           /\ Len(records) + 1 \notin R
           /\ \A k \in R : records'[k] = records[k]
           /\ records'[Len(records) + 1].id = hand.id
<1>. DEFINE r == [id |-> hand.id, status |-> status]
<1>1. records \in Seq(Record) /\ Len(records) \in Nat /\ r \in Record
  BY LenProperties DEF TypeOK, Message, Record
<1>2. /\ records' \in Seq(Record)
      /\ Len(records') = Len(records) + 1
      /\ \A k \in 1 .. Len(records) : records'[k] = records[k]
      /\ records'[Len(records) + 1] = r
  <2>. HIDE DEF r
  <2>1. records' = Append(records, r)
    BY DEF RecordOutcome, r
  <2>. QED
    BY <1>1, <2>1, AppendProperties
<1>. QED
  BY <1>1, <1>2 DEF R
-----------------------------------------------------------------------------
LEMMA InitInv == Init => IInv
<1>. SUFFICES ASSUME Init PROVE IInv
  OBVIOUS
<1>1. TypeOK
  BY BoundsAssumption DEF Init, TypeOK, Message, None
<1>2. Len(queue) = 0 /\ Len(records) = 0
  BY EmptySeq DEF Init
<1>3. Q = {} /\ R = {}
  BY <1>2 DEF Q, R
<1>4. MetricsBalance
  BY <1>2 DEF Init, MetricsBalance, Held
<1>. QED
  BY <1>1, <1>3, <1>4 DEF IInv, Init, Distinct, FirstAttempts, Outcomes, Order, Busy

LEMMA EnqueueInv ==
    ASSUME IInv, Enqueue PROVE IInv'
<1>. DEFINE new == [id |-> queued + 1, retries |-> 0]
<1>1. TypeOK /\ queued \in Nat /\ Len(queue) \in Nat /\ sent \in Nat /\ failed \in Nat
  BY LenProperties DEF IInv, TypeOK
<1>2. new \in Message
  BY <1>1, BoundsAssumption DEF Message
<1>3. /\ queue' \in Seq(Message)
      /\ Len(queue') = Len(queue) + 1
      /\ Q' = Q \cup {Len(queue) + 1}
      /\ \A n \in Q : queue'[n] = queue[n] /\ n < Len(queue) + 1
      /\ queue'[Len(queue) + 1] = new
  BY <1>1, <1>2, QueueAppended DEF Enqueue
<1>4. UNCHANGED <<hand, phase, sent, failed, records, running>> /\ queued' = queued + 1
  BY DEF Enqueue
<1>5. R' = R /\ Busy' = Busy
  BY <1>4 DEF R, Busy
<1>6. TypeOK'
  BY <1>1, <1>3, <1>4 DEF TypeOK
<1>7. MetricsBalance'
  BY <1>1, <1>3, <1>4 DEF IInv, MetricsBalance, Held
<1>8. Distinct'
  BY <1>1, <1>3, <1>4, <1>5 DEF IInv, Distinct
<1>9. FirstAttempts'
  <2>1. \A n \in Q : queue[n].id < queued + 1
    BY <1>1 DEF IInv, Distinct
  <2>2. Busy => hand.id < queued + 1
    BY <1>1 DEF IInv, Distinct
  <2>3. ASSUME NEW m \in Q', NEW n \in Q', queue'[n].retries = 0,
               m < n \/ queue'[m].retries > 0
        PROVE  queue'[m].id < queue'[n].id
    <3>1. CASE m \in Q /\ n \in Q
      BY <1>3, <2>3, <3>1 DEF IInv, FirstAttempts
    <3>2. CASE m \in Q /\ n = Len(queue) + 1
      BY <1>3, <2>1, <3>2
    <3>3. CASE m = Len(queue) + 1
      <4>1. queue'[m].retries = 0 /\ m \in Nat
        BY <1>1, <1>3, <3>3
      <4>2. ~(m < n)
        BY <1>1, <1>3, <3>3 DEF Q
      <4>. QED
        BY <2>3, <4>1, <4>2
    <3>. QED
      BY <1>3, <3>1, <3>2, <3>3
  <2>. QED
    BY <1>3, <1>4, <1>5, <2>2, <2>3 DEF IInv, FirstAttempts
<1>10. Outcomes' /\ Order'
  <2>1. \A k \in R : records[k].id < queued + 1 /\ records[k].id # queued + 1
    BY <1>1 DEF IInv, Distinct
  <2>. QED
    BY <1>3, <1>4, <1>5, <2>1 DEF IInv, Outcomes, Order
<1>. QED
  BY <1>6, <1>7, <1>8, <1>9, <1>10 DEF IInv

LEMMA TakeInv ==
    ASSUME IInv, Take PROVE IInv'
<1>1. TypeOK /\ queue \in Seq(Message) /\ queue # <<>> /\ Len(queue) \in Nat
      /\ Len(queue) > 0 /\ records' = records
  BY LenProperties, EmptySeq DEF IInv, TypeOK, Take
<1>2. /\ hand' = queue[1] /\ queue' \in Seq(Message)
      /\ Len(queue') = Len(queue) - 1
      /\ \A n \in 1 .. Len(queue) - 1 : queue'[n] = queue[n + 1]
  BY <1>1, HeadTailProperties DEF Take
<1>3. /\ 1 \in Q
      /\ \A n \in Q' : queue'[n] = queue[n + 1] /\ n + 1 \in Q /\ 1 < n + 1 /\ n \in Nat
  BY <1>1, <1>2 DEF Q
<1>4. /\ phase = "idle" /\ phase' = "sending" /\ R' = R /\ Busy'
      /\ UNCHANGED <<queued, sent, failed, records, running>>
  BY DEF Take, R, Busy
<1>5. hand' \in Message
  BY <1>1, <1>2, <1>3, Intervals
<1>6. TypeOK'
  BY <1>2, <1>4, <1>5 DEF IInv, TypeOK
<1>7. MetricsBalance'
  BY <1>1, <1>2, <1>4 DEF IInv, TypeOK, MetricsBalance, Held
<1>8. Distinct'
  <2>1. \A m, n \in Q' : queue'[m].id = queue'[n].id => m = n
    BY <1>3 DEF IInv, Distinct
  <2>2. \A n \in Q' : queue'[n].id # hand'.id
    BY <1>2, <1>3 DEF IInv, Distinct
  <2>. QED
    BY <1>2, <1>3, <1>4, <2>1, <2>2 DEF IInv, Distinct
<1>9. FirstAttempts'
  <2>1. ASSUME NEW m \in Q', NEW n \in Q', queue'[n].retries = 0,
               m < n \/ queue'[m].retries > 0
        PROVE  queue'[m].id < queue'[n].id
    <3>1. m + 1 < n + 1 \/ queue[m + 1].retries > 0
      BY <1>3, <2>1
    <3>. QED
      BY <1>3, <2>1, <3>1 DEF IInv, FirstAttempts
  <2>2. \A n \in Q' : queue'[n].retries = 0 => hand'.id < queue'[n].id
    BY <1>2, <1>3 DEF IInv, FirstAttempts
  <2>. QED
    BY <1>4, <2>1, <2>2 DEF FirstAttempts
<1>10. Outcomes'
  <2>1. /\ \A m, n \in R : records[m].id = records[n].id => m = n
        /\ \A k \in R : records[k].id # queue[1].id
    BY <1>3 DEF IInv, Outcomes
  <2>2. \A k \in R, n \in Q' : records[k].id # queue'[n].id
    BY <1>3 DEF IInv, Outcomes
  <2>. QED
    BY <1>2, <1>4, <2>1, <2>2 DEF Outcomes
<1>11. Order'
  <2>1. queue[1].retries = 0 => \A k \in R : records[k].id < queue[1].id
    BY <1>3 DEF IInv, Order
  <2>2. \A n \in Q' : queue'[n].retries = 0
            => \A k \in R : records[k].id < queue'[n].id
    BY <1>3 DEF IInv, Order
  <2>. QED
    BY <1>2, <1>4, <2>1, <2>2 DEF Order
<1>. QED
  BY <1>6, <1>7, <1>8, <1>9, <1>10, <1>11 DEF IInv

(* A message leaves the worker's hands with a record or without one. *)
LEMMA SettledInv ==
    ASSUME IInv, phase = "sending", Done, UNCHANGED <<queue, queued, running>>,
           \/ sent' = sent + 1 /\ failed' = failed
           \/ sent' = sent /\ failed' = failed + 1,
           records' = records \/ \E status \in Status : RecordOutcome(status)
    PROVE  IInv'
<1>1. TypeOK /\ queued \in Nat /\ sent \in Nat /\ failed \in Nat /\ Len(queue) \in Nat
  BY LenProperties DEF IInv, TypeOK
<1>2. Q' = Q /\ Busy /\ ~Busy' /\ phase' = "idle" /\ hand' \in Message
  BY BoundsAssumption DEF Q, Busy, Done, None, Message
<1>3. /\ records' \in Seq(Record)
      /\ \A k \in R' : (k \in R /\ records'[k] = records[k])
                       \/ (k = Len(records) + 1 /\ k \notin R /\ records'[k].id = hand.id)
  <2>1. CASE records' = records
    BY <1>1, <2>1 DEF R, TypeOK
  <2>2. CASE \E status \in Status : RecordOutcome(status)
    BY <1>1, <2>2, OutcomeRecorded
  <2>. QED
    BY <2>1, <2>2
<1>4. TypeOK'
  BY <1>1, <1>2, <1>3 DEF TypeOK
<1>5. MetricsBalance'
  BY <1>1, <1>2 DEF IInv, MetricsBalance, Held, Busy
<1>6. Distinct' /\ FirstAttempts'
  BY <1>1, <1>2, <1>3 DEF IInv, Distinct, FirstAttempts
<1>7. Outcomes'
  <2>1. ASSUME NEW m \in R', NEW n \in R', records'[m].id = records'[n].id PROVE m = n
    BY <1>2, <1>3, <2>1 DEF IInv, Outcomes
  <2>2. \A k \in R', n \in Q : records'[k].id # queue[n].id
    BY <1>2, <1>3 DEF IInv, Outcomes, Distinct
  <2>. QED
    BY <1>2, <2>1, <2>2 DEF Outcomes
<1>8. Order'
  BY <1>2, <1>3 DEF IInv, Order, FirstAttempts
<1>. QED
  BY <1>4, <1>5, <1>6, <1>7, <1>8 DEF IInv

LEMMA BackOffInv ==
    ASSUME IInv, BackOff PROVE IInv'
<1>1. /\ hand \in Message /\ hand.retries < MaxRetries
      /\ hand' = [hand EXCEPT !.retries = hand.retries + 1]
      /\ phase = "sending" /\ phase' = "backoff"
      /\ UNCHANGED <<queue, queued, sent, failed, records, running>>
  BY DEF IInv, TypeOK, BackOff
<1>2. hand' \in Message /\ hand'.id = hand.id /\ hand'.retries > 0
  BY <1>1, BoundsAssumption DEF Message
<1>3. Q' = Q /\ R' = R /\ Busy /\ Busy'
  BY <1>1 DEF Q, R, Busy
<1>4. TypeOK' /\ MetricsBalance'
  BY <1>1, <1>2 DEF IInv, TypeOK, MetricsBalance, Held
<1>5. Distinct' /\ FirstAttempts'
  BY <1>1, <1>2, <1>3 DEF IInv, Distinct, FirstAttempts
<1>6. Outcomes' /\ Order'
  BY <1>1, <1>2, <1>3 DEF IInv, Outcomes, Order
<1>. QED
  BY <1>4, <1>5, <1>6 DEF IInv

LEMMA RequeueInv ==
    ASSUME IInv, Requeue PROVE IInv'
<1>1. TypeOK /\ hand \in Message /\ Len(queue) \in Nat /\ hand.retries > 0
      /\ queued \in Nat /\ sent \in Nat /\ failed \in Nat
  BY LenProperties DEF IInv, TypeOK, FirstAttempts, Requeue
<1>2. /\ queue' \in Seq(Message)
      /\ Len(queue') = Len(queue) + 1
      /\ Q' = Q \cup {Len(queue) + 1}
      /\ \A n \in Q : queue'[n] = queue[n] /\ n < Len(queue) + 1
      /\ queue'[Len(queue) + 1] = hand
  BY <1>1, QueueAppended DEF Requeue
<1>3. /\ phase = "backoff" /\ phase' = "idle" /\ Busy /\ ~Busy' /\ R' = R
      /\ UNCHANGED <<queued, sent, failed, records, running>>
      /\ hand' \in Message
  BY BoundsAssumption DEF Requeue, Done, Busy, R, None, Message
<1>4. TypeOK'
  BY <1>1, <1>2, <1>3 DEF TypeOK
<1>5. MetricsBalance'
  BY <1>1, <1>2, <1>3 DEF IInv, MetricsBalance, Held
<1>6. Distinct'
  BY <1>1, <1>2, <1>3 DEF IInv, Distinct
<1>7. FirstAttempts'
  <2>1. ASSUME NEW m \in Q', NEW n \in Q', queue'[n].retries = 0,
               m < n \/ queue'[m].retries > 0
        PROVE  queue'[m].id < queue'[n].id
    <3>1. n \in Q /\ queue'[n] = queue[n]
      BY <1>1, <1>2, <2>1
    <3>2. CASE m \in Q
      BY <1>2, <2>1, <3>1, <3>2 DEF IInv, FirstAttempts
    <3>3. CASE m = Len(queue) + 1
      BY <1>2, <1>3, <2>1, <3>1, <3>3 DEF IInv, FirstAttempts
    <3>. QED
      BY <1>2, <3>2, <3>3
  <2>. QED
    BY <1>3, <2>1 DEF FirstAttempts
<1>8. Outcomes' /\ Order'
  BY <1>1, <1>2, <1>3 DEF IInv, Outcomes, Order
<1>. QED
  BY <1>4, <1>5, <1>6, <1>7, <1>8 DEF IInv

LEMMA NextInv == IInv /\ [Next]_vars => IInv'
<1>. SUFFICES ASSUME IInv, [Next]_vars PROVE IInv'
  OBVIOUS
<1>1. CASE Enqueue
  BY <1>1, EnqueueInv
<1>2. CASE Take
  BY <1>2, TakeInv
<1>3. ASSUME NEW status \in Status, Accepted(status) PROVE IInv'
  BY <1>3, SettledInv DEF Accepted
<1>4. CASE GiveUp
  <2>1. "FAILED" \in Status
    BY DEF Status
  <2>. QED
    BY <1>4, <2>1, SettledInv DEF GiveUp
<1>5. CASE Raised
  BY <1>5, SettledInv DEF Raised
<1>6. CASE BackOff
  BY <1>6, BackOffInv
<1>7. CASE Requeue
  BY <1>7, RequeueInv
<1>8. CASE StopWorker \/ UNCHANGED vars
  <2>1. UNCHANGED <<queue, hand, phase, queued, sent, failed, records>>
    BY <1>8 DEF StopWorker, vars
  <2>2. running' \in BOOLEAN
    BY <1>8 DEF IInv, TypeOK, StopWorker, vars
  <2>3. TypeOK' /\ MetricsBalance'
    BY <2>1, <2>2 DEF IInv, TypeOK, MetricsBalance, Held
  <2>. QED
    BY <2>1, <2>3 DEF IInv, Distinct, FirstAttempts, Outcomes, Order, Q, R, Busy
<1>. QED
  BY <1>1, <1>2, <1>3, <1>4, <1>5, <1>6, <1>7, <1>8 DEF Next, Answered, Status,
      AnswersOn, SmsAnswers, PushAnswers, InAppAnswers

(* Every reachable state of the notification queue is well typed. *)
THEOREM TypeCorrect == Spec => []TypeOK
<1>1. IInv => TypeOK
  BY DEF IInv
<1>. QED
  BY InitInv, NextInv, <1>1, PTL DEF Spec

(* total_queued accounts for every message, whatever the providers answer   *)
(* and wherever a shutdown cancels the worker.                              *)
THEOREM CountersBalance == Spec => []MetricsBalance
<1>1. IInv => MetricsBalance
  BY DEF IInv
<1>. QED
  BY InitInv, NextInv, <1>1, PTL DEF Spec

(* No message gets a second record, nor one while it is still in flight. *)
THEOREM SingleOutcome == Spec => []OneOutcome
<1>1. IInv => OneOutcome
  BY Restated DEF IInv
<1>. QED
  BY InitInv, NextInv, <1>1, PTL DEF Spec

(* Messages overtake each other only through a provider's failure. *)
THEOREM FirstAttemptsInOrder == Spec => []OvertakenOnlyInRetry
<1>1. IInv => OvertakenOnlyInRetry
  BY Restated DEF IInv
<1>. QED
  BY InitInv, NextInv, <1>1, PTL DEF Spec
=============================================================================
