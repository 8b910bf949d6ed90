-------------------------- MODULE NotificationQueue --------------------------
(***************************************************************************)
(* services/notifications/notification_queue.py: the queue of messages and *)
(* its worker, which asks the provider of a message's channel, retries a   *)
(* failed attempt after a back-off and records the outcome.                *)
(*                                                                         *)
(* It runs on the event loop; the worker waits for a provider's answer and *)
(* for a back-off to pass, and messages may be enqueued meanwhile. What a  *)
(* provider answers is its interface's contract: those in the tree deliver *)
(* or accept every message.                                                *)
(***************************************************************************)
EXTENDS Integers, Sequences

CONSTANTS
    MaxRetries,  \* max_retries
    MaxMessages  \* bound: messages ever enqueued

ASSUME BoundsAssumption == MaxRetries \in Nat /\ MaxMessages \in Nat

VARIABLES
    queue,    \* _queue
    hand,     \* the message the worker holds, None when there is none
    phase,    \* what the worker waits for
    queued,   \* metrics["total_queued"]
    sent,     \* metrics["total_sent"]
    failed,   \* metrics["total_failed"]
    records,  \* _delivery_history
    running   \* the worker's task has not been cancelled

vars == <<queue, hand, phase, queued, sent, failed, records, running>>

(* A message is named by its number in the order of enqueue. *)
Message == [id : Nat, retries : 0 .. MaxRetries]
Status == {"SENT", "DELIVERED", "FAILED"}
Record == [id : Nat, status : Status]
None == [id |-> 0, retries |-> 0]

TypeOK ==
    /\ queue \in Seq(Message)
    /\ hand \in Message
    /\ phase \in {"idle", "sending", "backoff"}
    /\ queued \in Nat /\ sent \in Nat /\ failed \in Nat
    /\ records \in Seq(Record)
    /\ running \in BOOLEAN

Init ==
    /\ queue = <<>> /\ hand = None /\ phase = "idle"
    /\ queued = 0 /\ sent = 0 /\ failed = 0
    /\ records = <<>>
    /\ running = TRUE

Enqueue ==
    /\ queued < MaxMessages
    /\ queued' = queued + 1
    /\ queue' = Append(queue, [id |-> queued', retries |-> 0])
    /\ UNCHANGED <<hand, phase, sent, failed, records, running>>

(* Mutant: the queue is a LifoQueue. *)
TakeLatest ==
    /\ running /\ phase = "idle" /\ queue # <<>>
    /\ hand' = queue[Len(queue)]
    /\ queue' = SubSeq(queue, 1, Len(queue) - 1)
    /\ phase' = "sending"
    /\ UNCHANGED <<queued, sent, failed, records, running>>
(* start_worker takes the next message and asks its provider. *)
Take ==
    /\ running /\ phase = "idle" /\ queue # <<>>
    /\ hand' = Head(queue)
    /\ queue' = Tail(queue)
    /\ phase' = "sending"
    /\ UNCHANGED <<queued, sent, failed, records, running>>

RecordOutcome(status) ==
    records' = Append(records, [id |-> hand.id, status |-> status])
Done == hand' = None /\ phase' = "idle"

(* _process_message, by what the provider answers. *)
Accepted(status) ==
    /\ running /\ phase = "sending"
    /\ sent' = sent + 1
    /\ RecordOutcome(status)
    /\ Done
    /\ UNCHANGED <<queue, queued, failed, running>>

GiveUp ==
    /\ running /\ phase = "sending"
    /\ hand.retries = MaxRetries
    /\ failed' = failed + 1
    /\ RecordOutcome("FAILED")
    /\ Done
    /\ UNCHANGED <<queue, queued, sent, running>>

(* An exception is counted, and leaves no record. *)
Raised ==
    /\ running /\ phase = "sending"
    /\ failed' = failed + 1
    /\ Done
    /\ UNCHANGED <<queue, queued, sent, records, running>>

(* Mutant: an attempt that will be repeated is recorded as well. *)
BackOffRecorded ==
    /\ running /\ phase = "sending"
    /\ hand.retries < MaxRetries
    /\ hand' = [hand EXCEPT !.retries = @ + 1]
    /\ phase' = "backoff"
    /\ RecordOutcome("FAILED")
    /\ UNCHANGED <<queue, queued, sent, failed, running>>
(* Mutant: the number of retries is not compared with max_retries. *)
BackOffUnlimited ==
    /\ running /\ phase = "sending"
    /\ hand' = [hand EXCEPT !.retries = @ + 1]
    /\ phase' = "backoff"
    /\ UNCHANGED <<queue, queued, sent, failed, records, running>>
(* Mutant: the attempts are not counted. *)
BackOffUncounted ==
    /\ running /\ phase = "sending"
    /\ phase' = "backoff"
    /\ UNCHANGED <<queue, hand, queued, sent, failed, records, running>>
BackOff ==
    /\ running /\ phase = "sending"
    /\ hand.retries < MaxRetries
    /\ hand' = [hand EXCEPT !.retries = @ + 1]
    /\ phase' = "backoff"
    /\ UNCHANGED <<queue, queued, sent, failed, records, running>>

(* Mutant: the message goes through enqueue again. *)
RequeueCounted ==
    /\ running /\ phase = "backoff"
    /\ queue' = Append(queue, hand)
    /\ queued' = queued + 1
    /\ Done
    /\ UNCHANGED <<sent, failed, records, running>>
(* The worker sleeps through the back-off; the message goes to the back. *)
Requeue ==
    /\ running /\ phase = "backoff"
    /\ queue' = Append(queue, hand)
    /\ Done
    /\ UNCHANGED <<queued, sent, failed, records, running>>

(* The server's shutdown cancels the worker, wherever it is. *)
StopWorker ==
    /\ running
    /\ running' = FALSE
    /\ UNCHANGED <<queue, hand, phase, queued, sent, failed, records>>

(* What the providers of the tree answer: a sink and the inbox deliver, a   *)
(* gateway, asked only when it has its credentials, accepts.                *)
SmsAnswers == {"DELIVERED", "SENT"}
PushAnswers == {"DELIVERED", "SENT"}
InAppAnswers == {"DELIVERED"}
AnswersOn == [IN_APP |-> InAppAnswers, SMS |-> SmsAnswers, PUSH |-> PushAnswers]

(* The interface also allows a provider to fail or to raise.                *)
Answered ==
    \/ \E channel \in DOMAIN AnswersOn : \E status \in AnswersOn[channel] : Accepted(status)
    \/ GiveUp \/ Raised \/ BackOff

Next == Enqueue \/ Take \/ Answered \/ Requeue \/ StopWorker

(* A provider answers, a sleep ends, and the loop runs what is ready. *)
Fairness == WF_vars(Take) /\ WF_vars(Answered) /\ WF_vars(Requeue)

Spec == Init /\ [][Next]_vars /\ Fairness
-----------------------------------------------------------------------------
(***************************************************************************)
(* Properties.                                                             *)
(***************************************************************************)

Held == IF phase = "idle" THEN 0 ELSE 1
InFlight(id) ==
    \/ phase # "idle" /\ hand.id = id
    \/ \E n \in DOMAIN queue : queue[n].id = id

(* The counters that the operators read account for every message, through  *)
(* retries, exceptions and a shutdown that cancels the worker anywhere.     *)
MetricsBalance == queued = sent + failed + Len(queue) + Held

(* One outcome for a message: it has at most one record, and none while it  *)
(* is still queued or in the worker's hands.                                *)
OneOutcome ==
    /\ \A m, n \in DOMAIN records : records[m].id = records[n].id => m = n
    /\ \A n \in DOMAIN records : ~InFlight(records[n].id)

(* A citizen may hear of alerts out of order only if a provider failed: no  *)
(* outcome is recorded before the first attempt of an earlier message.      *)
OvertakenOnlyInRetry ==
    /\ \A n \in DOMAIN queue : queue[n].retries = 0
           => \A k \in DOMAIN records : records[k].id < queue[n].id
    /\ (phase # "idle" /\ hand.retries = 0)
           => \A k \in DOMAIN records : records[k].id < hand.id

(* Every message is sent or given up, unless the server shuts down first:   *)
(* a provider that never works does not keep the worker for ever.           *)
EveryMessageSettles ==
    \A id \in 1 .. MaxMessages : InFlight(id) ~> ~InFlight(id) \/ ~running
=============================================================================
