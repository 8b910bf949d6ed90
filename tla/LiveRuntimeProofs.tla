-------------------------- MODULE LiveRuntimeProofs --------------------------
(* Theorems of the live sources and of what runs on them: ImdAws, then      *)
(* LiveRuntime that uses it, then the sockets of WebSocketClients, for any  *)
(* number of threads, stations, records, requests, sockets and messages.    *)
EXTENDS LiveRuntime, WebSocketClients, FiniteSetTheorems, SequenceTheorems, TLAPS
-----------------------------------------------------------------------------
(*                          The weather stations                           *)

(* What the client holds since a fetch has made an attempt was met after    *)
(* that attempt, and a fetch that failed carries a category of its time.    *)
RequestsMet ==
    \A t \in Threads :
        /\ calls[t].at = "request" /\ calls[t].attempt > 0 => client.category \in met[t]
        /\ calls[t].at = "failed" =>
               \E category \in met[t] : StateOf(calls[t].category) = StateOf(category)

(* The station is stored before its row, and stations stay. *)
StationsFirst ==
    \A t \in Threads : calls[t].at = "row" =>
        calls[t].todo # <<>> /\ Head(calls[t].todo).sign \in stations

ResultsGiven ==
    \A t \in Threads : calls[t].at = "done" => calls[t].result # "NONE"

ImdInv ==
    /\ ImdTypeOK /\ RequestsMet /\ ResultOfItsTime /\ StationsFirst /\ ResultsGiven
    /\ RowsTraceable

LEMMA HeadAndTail ==
    ASSUME NEW S, NEW s \in Seq(S), s # <<>>
    PROVE  Head(s) \in S /\ Tail(s) \in Seq(S)
  BY HeadTailProperties

LEMMA FailureNames == Failures \subseteq {"NOT_CONFIGURED", "RATE_LIMITED", "TIMEOUT", "OFFLINE"}
  BY DEF Failures, StateOf

LEMMA ImdInitInv == ImdInit => ImdInv
<1>. SUFFICES ASSUME ImdInit PROVE ImdInv
  OBVIOUS
<1>1. Idle \in Call
  BY ImdAssumption DEF Idle, Call, Categories, Results
<1>2. ImdTypeOK
  BY <1>1 DEF ImdInit, EnsureSchema, ImdTypeOK, Categories
<1>3. RequestsMet /\ ResultOfItsTime /\ StationsFirst /\ ResultsGiven
  BY DEF ImdInit, EnsureSchema, RequestsMet, ResultOfItsTime, StationsFirst, ResultsGiven, Idle
<1>4. RowsTraceable
  BY DEF ImdInit, EnsureSchema, RowsTraceable
<1>. QED
  BY <1>2, <1>3, <1>4 DEF ImdInv

(* The steps of a fetch that store nothing                                  *)
LEMMA RequestSteps ==
    ASSUME ImdInv, NEW t \in Threads,
           \/ StartFetch(t) \/ Answered(t) \/ Refused(t) \/ RetriesExhausted(t)
           \/ FetchFailed(t) \/ FetchSucceeded(t) \/ FetchEnded(t) \/ Returned(t)
    PROVE  /\ UNCHANGED <<clock, stations, rows>>
           /\ \E call \in Call :
                  /\ calls' = [calls EXCEPT ![t] = call]
                  /\ call.at # "row"
                  /\ call.at = "done" => call.result # "NONE"
           /\ client' \in [success : BOOLEAN, failure : BOOLEAN, category : Categories]
           /\ failures' \in Nat
<1>1. calls[t] \in Call /\ Idle \in Call
  BY ImdAssumption DEF ImdInv, ImdTypeOK, Idle, Call, Categories, Results
<1>2. CASE StartFetch(t)
  <2>. DEFINE call == [Idle EXCEPT !.at = "request"]
  <2>1. call \in Call /\ call.at = "request"
    BY <1>1 DEF Idle, Call
  <2>2. calls' = [calls EXCEPT ![t] = call]
    BY <1>2 DEF StartFetch
  <2>. HIDE DEF call
  <2>. QED
    BY <1>2, <2>1, <2>2 DEF StartFetch, ImdInv, ImdTypeOK
<1>3. CASE Answered(t)
  <2>1. PICK payload \in Payloads :
            calls' = [calls EXCEPT ![t] = [Idle EXCEPT !.at = "answered",
                                                      !.todo = payload]]
    BY <1>3 DEF Answered
  <2>2. payload \in Seq(Records)
    BY ImdAssumption
  <2>3. [Idle EXCEPT !.at = "answered", !.todo = payload] \in Call
    BY <1>1, <2>2 DEF Idle, Call
  <2>. QED
    BY <1>3, <2>1, <2>3 DEF Answered, ImdInv, ImdTypeOK, Idle, Categories
<1>4. CASE Refused(t)
  <2>1. PICK answer \in Answers \ {"payload"} :
           /\ client' = [client EXCEPT !.failure = TRUE,
                                       !.category = CategoryOf(answer)]
           /\ calls' = [calls EXCEPT ![t] =
                  IF GivesUp(answer, calls[t].attempt + 1)
                  THEN [Idle EXCEPT !.at = "failed",
                                    !.category = CategoryOf(answer)]
                  ELSE Attempted(t)]
    BY <1>4 DEF Refused
  <2>2. CategoryOf(answer) \in Categories
    BY DEF CategoryOf, Categories
  <2>3. [Idle EXCEPT !.at = "failed", !.category = CategoryOf(answer)] \in Call
    BY <1>1, <2>2 DEF Idle, Call
  <2>4. Attempted(t) \in Call /\ Attempted(t).at = "request"
    <3>1. calls[t].at = "request" /\ calls[t].attempt < MaxRetries
      BY <1>4 DEF Refused
    <3>2. calls[t].attempt \in 0 .. MaxRetries /\ MaxRetries \in Nat
      BY <1>1, ImdAssumption DEF Call
    <3>3. calls[t].attempt + 1 \in 0 .. MaxRetries
      BY <3>1, <3>2
    <3>. QED
      BY <1>1, <3>1, <3>3 DEF Attempted, Call
  <2>. DEFINE call == IF GivesUp(answer, calls[t].attempt + 1)
                      THEN [Idle EXCEPT !.at = "failed",
                                        !.category = CategoryOf(answer)]
                      ELSE Attempted(t)
  <2>5. calls' = [calls EXCEPT ![t] = call]
    BY <2>1
  <2>6. call \in Call /\ call.at \in {"failed", "request"}
    BY <2>3, <2>4 DEF Idle
  <2>7. /\ client' \in [success : BOOLEAN, failure : BOOLEAN, category : Categories]
        /\ client'.success = client.success
    BY <2>1, <2>2 DEF ImdInv, ImdTypeOK
  <2>8. UNCHANGED <<clock, failures, stations, rows>>
    BY <1>4 DEF Refused
  <2>. HIDE DEF call
  <2>. QED
    BY <2>5, <2>6, <2>7, <2>8 DEF ImdInv, ImdTypeOK
<1>5. CASE RetriesExhausted(t)
  <2>. DEFINE call == [Idle EXCEPT !.at = "failed",
           !.category = IF client.category = "NONE"
                        THEN "PROVIDER_UNAVAILABLE" ELSE client.category]
  <2>1. call \in Call /\ call.at = "failed"
    BY <1>1 DEF ImdInv, ImdTypeOK, Idle, Call, Categories
  <2>2. calls' = [calls EXCEPT ![t] = call]
    BY <1>5 DEF RetriesExhausted
  <2>. QED
    BY <1>5, <2>1, <2>2 DEF RetriesExhausted, ImdInv, ImdTypeOK
<1>6. CASE FetchFailed(t)
  <2>1. StateOf(calls[t].category) \in Results \ {"NONE"}
    BY DEF StateOf, Results
  <2>2. Ended(StateOf(calls[t].category)) \in Call
        /\ Ended(StateOf(calls[t].category)).at = "done"
        /\ Ended(StateOf(calls[t].category)).result # "NONE"
    BY <1>1, <2>1 DEF Ended, Idle, Call
  <2>3. calls' = [calls EXCEPT ![t] = Ended(StateOf(calls[t].category))]
    BY <1>6 DEF FetchFailed
  <2>4. failures \in Nat /\ failures' = failures + 1
        /\ UNCHANGED <<clock, client, stations, rows>>
    BY <1>6 DEF FetchFailed, ImdInv, ImdTypeOK
  <2>5. failures' \in Nat
    BY <2>4
  <2>. QED
    BY <2>2, <2>3, <2>4, <2>5 DEF ImdInv, ImdTypeOK
<1>7. CASE FetchSucceeded(t)
  <2>. DEFINE call == [calls[t] EXCEPT !.at = "record", !.retrieved = clock]
  <2>1. call \in Call /\ call.at = "record"
    BY <1>1 DEF ImdInv, ImdTypeOK, Call
  <2>2. calls' = [calls EXCEPT ![t] = call]
    BY <1>7 DEF FetchSucceeded
  <2>. QED
    BY <1>7, <2>1, <2>2 DEF FetchSucceeded, ImdInv, ImdTypeOK
<1>8. CASE FetchEnded(t)
  <2>. DEFINE call == Ended(IF calls[t].accepted THEN "OBSERVED_IMD_AWS" ELSE "NO_DATA")
  <2>1. call \in Call /\ call.at = "done" /\ call.result # "NONE"
    BY <1>1 DEF Ended, Idle, Call, Results
  <2>2. calls' = [calls EXCEPT ![t] = call]
    BY <1>8 DEF FetchEnded
  <2>. QED
    BY <1>8, <2>1, <2>2 DEF FetchEnded, ImdInv, ImdTypeOK
<1>9. CASE Returned(t)
  BY <1>1, <1>9 DEF Returned, ImdInv, ImdTypeOK, Idle
<1>. QED
  BY <1>2, <1>3, <1>4, <1>5, <1>6, <1>7, <1>8, <1>9

(* What the steps of a fetch note of each other's requests                  *)
LEMMA RefusedMet ==
    ASSUME ImdInv, NEW t \in Threads, Refused(t)
    PROVE  met' \in [Threads -> SUBSET Categories] /\ RequestsMet' /\ ResultOfItsTime'
<1>1. PICK answer \in Answers \ {"payload"} :
         /\ client' = [client EXCEPT !.failure = TRUE,
                                     !.category = CategoryOf(answer)]
         /\ met' = Noted(CategoryOf(answer))
         /\ calls' = [calls EXCEPT ![t] =
                IF GivesUp(answer, calls[t].attempt + 1)
                THEN [Idle EXCEPT !.at = "failed",
                                  !.category = CategoryOf(answer)]
                ELSE Attempted(t)]
  BY DEF Refused
<1>. DEFINE noted == CategoryOf(answer)
<1>2. noted \in Categories
  BY DEF CategoryOf, Categories
<1>3. client'.category = noted /\ calls[t].at = "request" /\ calls[t] \in Call
      /\ calls \in [Threads -> Call] /\ met \in [Threads -> SUBSET Categories]
  BY <1>1 DEF ImdInv, ImdTypeOK, Refused
<1>4. /\ \A u \in Threads : calls[u].at = "request" => met'[u] = met[u] \cup {noted}
      /\ \A u \in Threads : calls[u].at # "request" => met'[u] = met[u]
  BY <1>1 DEF Noted
<1>5. met' \in [Threads -> SUBSET Categories]
  BY <1>1, <1>2, <1>3 DEF Noted
<1>6. \A u \in Threads \ {t} : calls'[u] = calls[u]
  BY <1>1, <1>3
<1>7. /\ calls'[t].at \in {"failed", "request"}
      /\ calls'[t].at = "failed" => calls'[t].category = noted
  <2>1. CASE GivesUp(answer, calls[t].attempt + 1)
    BY <1>1, <1>3, <2>1 DEF Idle
  <2>2. CASE ~GivesUp(answer, calls[t].attempt + 1)
    BY <1>1, <1>3, <2>2 DEF Attempted, Call
  <2>. QED
    BY <2>1, <2>2
<1>. HIDE DEF noted
<1>8. RequestsMet'
  <2>. SUFFICES ASSUME NEW u \in Threads
                PROVE  /\ calls'[u].at = "request" /\ calls'[u].attempt > 0 =>
                              client'.category \in met'[u]
                       /\ calls'[u].at = "failed" =>
                              \E category \in met'[u] :
                                  StateOf(calls'[u].category) = StateOf(category)
    BY DEF RequestsMet, StateOf
  <2>1. CASE u = t
    BY <1>3, <1>4, <1>7, <2>1
  <2>2. CASE u # t
    BY <1>3, <1>4, <1>6, <2>2 DEF ImdInv, RequestsMet
  <2>. QED
    BY <2>1, <2>2
<1>9. ResultOfItsTime'
  BY <1>3, <1>4, <1>6, <1>7 DEF ImdInv, ResultOfItsTime
<1>. QED
  BY <1>5, <1>8, <1>9

LEMMA RequestMet ==
    ASSUME ImdInv, NEW t \in Threads,
           \/ StartFetch(t) \/ Answered(t) \/ Refused(t) \/ RetriesExhausted(t)
           \/ FetchFailed(t) \/ FetchSucceeded(t) \/ FetchEnded(t) \/ Returned(t)
    PROVE  met' \in [Threads -> SUBSET Categories] /\ RequestsMet' /\ ResultOfItsTime'
<1>1. /\ calls \in [Threads -> Call] /\ met \in [Threads -> SUBSET Categories]
      /\ client \in [success : BOOLEAN, failure : BOOLEAN, category : Categories]
      /\ MaxRetries \in Nat \ {0}
  BY ImdAssumption DEF ImdInv, ImdTypeOK
<1>2. CASE Answered(t)
  <2>1. /\ client'.category = "NONE"
        /\ met' = [Noted("NONE") EXCEPT ![t] = {}]
        /\ calls'[t].at = "answered"
        /\ \A u \in Threads \ {t} : calls'[u] = calls[u]
    BY <1>1, <1>2 DEF Answered, Idle
  <2>2. "NONE" \in Categories
    BY DEF Categories
  <2>3. \A u \in Threads \ {t} :
            met'[u] = IF calls[u].at = "request" THEN met[u] \cup {"NONE"} ELSE met[u]
    BY <2>1 DEF Noted
  <2>4. met' \in [Threads -> SUBSET Categories]
    BY <1>1, <2>1, <2>2 DEF Noted
  <2>5. RequestsMet'
    <3>. SUFFICES ASSUME NEW u \in Threads
                  PROVE  /\ calls'[u].at = "request" /\ calls'[u].attempt > 0 =>
                                client'.category \in met'[u]
                         /\ calls'[u].at = "failed" =>
                                \E category \in met'[u] :
                                    StateOf(calls'[u].category) = StateOf(category)
      BY DEF RequestsMet, StateOf
    <3>1. CASE u = t
      BY <2>1, <3>1
    <3>2. CASE u # t
      <4>1. /\ calls'[u] = calls[u]
            /\ calls[u].at = "request" => "NONE" \in met'[u]
            /\ calls[u].at = "failed" => met'[u] = met[u]
        <5>1. u \in Threads \ {t}
          BY <3>2
        <5>2. met'[u] = IF calls[u].at = "request" THEN met[u] \cup {"NONE"} ELSE met[u]
          BY <2>3, <5>1
        <5>3. calls'[u] = calls[u]
          BY <2>1, <5>1
        <5>. QED
          BY <5>2, <5>3
      <4>2. calls[u].at = "failed" =>
                \E category \in met[u] : StateOf(calls[u].category) = StateOf(category)
        BY DEF ImdInv, RequestsMet
      <4>3. CASE calls[u].at = "failed"
        BY <4>1, <4>2, <4>3
      <4>. QED
        BY <2>1, <4>1, <4>3
    <3>. QED
      BY <3>1, <3>2
  <2>6. ResultOfItsTime'
    BY <2>1, <2>3 DEF ImdInv, ResultOfItsTime
  <2>. QED
    BY <2>4, <2>5, <2>6
<1>3. CASE RetriesExhausted(t)
  <2>1. /\ calls[t].at = "request" /\ calls[t].attempt > 0
        /\ UNCHANGED <<client, met>>
        /\ calls'[t].at = "failed"
        /\ calls'[t].category = IF client.category = "NONE"
                                THEN "PROVIDER_UNAVAILABLE" ELSE client.category
        /\ \A u \in Threads \ {t} : calls'[u] = calls[u]
    BY <1>1, <1>3 DEF RetriesExhausted, Idle
  <2>2. StateOf("PROVIDER_UNAVAILABLE") = StateOf("NONE")
    BY DEF StateOf
  <2>3. client.category \in met[t] /\ StateOf(calls'[t].category) = StateOf(client.category)
    BY <2>1, <2>2 DEF ImdInv, RequestsMet
  <2>4. RequestsMet'
    BY <2>1, <2>3 DEF ImdInv, RequestsMet, StateOf
  <2>5. ResultOfItsTime'
    BY <2>1 DEF ImdInv, ResultOfItsTime
  <2>. QED
    BY <1>1, <2>1, <2>4, <2>5
<1>4. CASE FetchFailed(t)
  <2>1. /\ calls[t].at = "failed" /\ UNCHANGED <<client, met>>
        /\ calls'[t].at = "done" /\ calls'[t].result = StateOf(calls[t].category)
        /\ \A u \in Threads \ {t} : calls'[u] = calls[u]
    BY <1>1, <1>4 DEF FetchFailed, Ended, Idle
  <2>2. RequestsMet'
    BY <2>1 DEF ImdInv, RequestsMet, StateOf
  <2>3. ResultOfItsTime'
    BY <2>1 DEF ImdInv, ResultOfItsTime, RequestsMet
  <2>. QED
    BY <1>1, <2>1, <2>2, <2>3
<1>5. CASE StartFetch(t) \/ FetchSucceeded(t) \/ FetchEnded(t)
  <2>1. /\ UNCHANGED <<client, met>>
        /\ calls'[t].at \in {"request", "record", "done"}
        /\ calls'[t].at = "request" => calls'[t].attempt = 0
        /\ calls'[t].at = "done" => calls'[t].result \in {"OBSERVED_IMD_AWS", "NO_DATA"}
        /\ \A u \in Threads \ {t} : calls'[u] = calls[u]
    <3>1. CASE StartFetch(t)
      BY <1>1, <3>1 DEF StartFetch, Idle
    <3>2. CASE FetchSucceeded(t)
      BY <1>1, <3>2 DEF FetchSucceeded, Call
    <3>3. CASE FetchEnded(t)
      BY <1>1, <3>3 DEF FetchEnded, Ended, Idle
    <3>. QED
      BY <1>5, <3>1, <3>2, <3>3
  <2>2. RequestsMet'
    BY <2>1 DEF ImdInv, RequestsMet, StateOf
  <2>3. ResultOfItsTime'
    BY <2>1, FailureNames DEF ImdInv, ResultOfItsTime
  <2>. QED
    BY <1>1, <2>1, <2>2, <2>3
<1>6. CASE Returned(t)
  <2>1. /\ calls'[t].at = "idle" /\ client' = client
        /\ met' = [met EXCEPT ![t] = {}]
        /\ \A u \in Threads \ {t} : calls'[u] = calls[u]
    BY <1>1, <1>6 DEF Returned, Idle
  <2>2. RequestsMet'
    BY <1>1, <2>1 DEF ImdInv, RequestsMet, StateOf
  <2>3. ResultOfItsTime'
    BY <1>1, <2>1 DEF ImdInv, ResultOfItsTime
  <2>. QED
    BY <1>1, <2>1, <2>2, <2>3
<1>. QED
  BY <1>2, <1>3, <1>4, <1>5, <1>6, RefusedMet

LEMMA RequestKeeps ==
    ASSUME ImdInv, NEW t \in Threads,
           \/ StartFetch(t) \/ Answered(t) \/ Refused(t) \/ RetriesExhausted(t)
           \/ FetchFailed(t) \/ FetchSucceeded(t) \/ FetchEnded(t) \/ Returned(t)
    PROVE  ImdInv' /\ RowsKept
<1>1. PICK call \in Call :
          /\ calls' = [calls EXCEPT ![t] = call]
          /\ call.at # "row"
          /\ call.at = "done" => call.result # "NONE"
  BY RequestSteps
<1>2. UNCHANGED <<clock, stations, rows>>
  BY RequestSteps
<1>3. /\ client' \in [success : BOOLEAN, failure : BOOLEAN, category : Categories]
      /\ failures' \in Nat /\ met' \in [Threads -> SUBSET Categories]
  BY RequestSteps, RequestMet
<1>4. ImdTypeOK'
  BY <1>1, <1>2, <1>3 DEF ImdInv, ImdTypeOK
<1>5. RequestsMet' /\ ResultOfItsTime'
  BY RequestMet
<1>6. StationsFirst' /\ ResultsGiven'
  BY <1>1, <1>2 DEF ImdInv, ImdTypeOK, StationsFirst, ResultsGiven
<1>7. RowsTraceable'
  BY <1>2 DEF ImdInv, RowsTraceable, Key, ObservedAt
<1>8. RowsKept
  BY <1>2 DEF RowsKept
<1>. QED
  BY <1>3, <1>4, <1>5, <1>6, <1>7, <1>8 DEF ImdInv

LEMMA RecordKeeps ==
    ASSUME ImdInv, NEW t \in Threads,
           Rejected(t) \/ FetchRaised(t) \/ StoreStation(t)
    PROVE  ImdInv' /\ RowsKept
<1>0. Idle \in Call
  BY ImdAssumption DEF Idle, Call, Categories, Results
<1>1. calls[t] \in Call /\ calls[t].todo \in Seq(Records) /\ calls[t].todo # <<>>
  BY DEF ImdInv, ImdTypeOK, Call, Rejected, FetchRaised, StoreStation
<1>2. Head(calls[t].todo) \in Records /\ Tail(calls[t].todo) \in Seq(Records)
  BY <1>1, HeadAndTail
<1>3. Head(calls[t].todo).sign \in Signs
  BY <1>2, ImdAssumption DEF Record
<1>4. UNCHANGED <<clock, client, failures, rows, met>>
  BY DEF Rejected, FetchRaised, StoreStation
<1>5. /\ stations \subseteq stations' /\ stations' \subseteq Signs
      /\ \E call \in Call :
             /\ calls' = [calls EXCEPT ![t] = call]
             /\ call.at \notin {"request", "failed"}
             /\ call.at = "done" => call.result = "RAISED"
             /\ call.at = "row" =>
                    call.todo # <<>> /\ Head(call.todo).sign \in stations'
  <2>1. CASE Rejected(t)
    <3>. DEFINE call == [calls[t] EXCEPT !.todo = Tail(@)]
    <3>1. call \in Call /\ call.at = "record"
      BY <1>1, <1>2, <2>1 DEF Call, Rejected
    <3>. QED
      BY <2>1, <3>1 DEF Rejected, ImdInv, ImdTypeOK
  <2>2. CASE FetchRaised(t)
    <3>1. Ended("RAISED") \in Call /\ Ended("RAISED").at = "done"
          /\ Ended("RAISED").result = "RAISED"
      BY <1>0 DEF Ended, Idle, Call, Results
    <3>. QED
      BY <2>2, <3>1 DEF FetchRaised, ImdInv, ImdTypeOK
  <2>3. CASE StoreStation(t)
    <3>. DEFINE call == [calls[t] EXCEPT !.at = "row"]
    <3>1. call \in Call /\ call.at = "row" /\ call.todo = calls[t].todo
      BY <1>1 DEF Call
    <3>2. stations' = stations \cup {Head(calls[t].todo).sign}
          /\ calls' = [calls EXCEPT ![t] = call]
      BY <2>3 DEF StoreStation, NextRecord
    <3>. HIDE DEF call
    <3>. QED
      BY <1>1, <1>3, <3>1, <3>2 DEF ImdInv, ImdTypeOK
  <2>. QED
    BY <2>1, <2>2, <2>3
<1>6. PICK call \in Call :
             /\ calls' = [calls EXCEPT ![t] = call]
             /\ call.at \notin {"request", "failed"}
             /\ call.at = "done" => call.result = "RAISED"
             /\ call.at = "row" =>
                    call.todo # <<>> /\ Head(call.todo).sign \in stations'
  BY <1>5
<1>7. ImdTypeOK'
  BY <1>4, <1>5, <1>6 DEF ImdInv, ImdTypeOK
<1>8. RequestsMet' /\ ResultOfItsTime'
  BY <1>4, <1>6, FailureNames DEF ImdInv, ImdTypeOK, RequestsMet, ResultOfItsTime, StateOf
<1>9. StationsFirst' /\ ResultsGiven'
  BY <1>5, <1>6 DEF ImdInv, ImdTypeOK, StationsFirst, ResultsGiven
<1>10. RowsTraceable'
  BY <1>4, <1>5 DEF ImdInv, RowsTraceable, Key, ObservedAt
<1>11. RowsKept
  BY <1>4 DEF RowsKept
<1>. QED
  BY <1>7, <1>8, <1>9, <1>10, <1>11 DEF ImdInv

LEMMA KeyTyped ==
    ASSUME NEW raw \in Record, NEW now \in Nat
    PROVE  Key(raw, now) \in Signs \X Int /\ Key(raw, now)[1] = raw.sign
<1>1. raw.sign \in Signs /\ raw.stamp \in Int
  BY DEF Record
<1>2. ObservedAt(raw, now) \in Int
  BY <1>1 DEF ObservedAt, IstOffset
<1>. QED
  BY <1>1, <1>2 DEF Key

LEMMA ObservationKeeps ==
    ASSUME ImdInv, NEW t \in Threads, StoreObservation(t)
    PROVE  ImdInv' /\ RowsKept
<1>. DEFINE raw == Head(calls[t].todo)
            now == calls[t].retrieved
            key == Key(raw, now)
            row == [raw |-> raw, retrieved |-> now, quality |-> Quality(raw, now)]
<1>1. /\ calls[t] \in Call /\ calls[t].todo \in Seq(Records) /\ calls[t].todo # <<>>
      /\ raw.sign \in stations
  BY DEF ImdInv, ImdTypeOK, Call, StoreObservation, StationsFirst
<1>2. raw \in Record /\ Tail(calls[t].todo) \in Seq(Records) /\ now \in Nat
  BY <1>1, HeadAndTail, ImdAssumption DEF Call
<1>3. key \in Signs \X Int /\ key[1] = raw.sign
  BY <1>2, KeyTyped
<1>4. row \in Row
  BY <1>2 DEF Row, Quality
<1>5. row.raw = raw /\ row.retrieved = now
  OBVIOUS
<1>6. /\ rows' = Inserted(key, row)
      /\ calls' = [calls EXCEPT ![t].at = "record", ![t].todo = Tail(@),
                                ![t].accepted = TRUE]
      /\ UNCHANGED <<clock, client, failures, stations, met>>
  BY DEF StoreObservation, NextRecord
<1>. HIDE DEF row
<1>7. /\ DOMAIN rows' = DOMAIN rows \cup {key}
      /\ \A k \in DOMAIN rows : rows'[k] = rows[k]
      /\ key \notin DOMAIN rows => rows'[key] = row
  BY <1>6 DEF Inserted
<1>. HIDE DEF key
<1>8. RowsKept
  BY <1>7 DEF RowsKept
<1>9. DOMAIN rows' \subseteq Signs \X Int /\ \A k \in DOMAIN rows' : rows'[k] \in Row
  BY <1>3, <1>4, <1>7 DEF ImdInv, ImdTypeOK
<1>10. \E call \in Call : calls' = [calls EXCEPT ![t] = call] /\ call.at = "record"
  <2>. DEFINE call == [calls[t] EXCEPT !.at = "record", !.todo = Tail(@),
                                       !.accepted = TRUE]
  <2>1. call \in Call /\ call.at = "record"
    BY <1>1, <1>2 DEF Call
  <2>2. calls' = [calls EXCEPT ![t] = call]
    BY <1>6
  <2>. HIDE DEF call
  <2>. QED
    BY <2>1, <2>2
<1>11. ImdTypeOK'
  BY <1>6, <1>9, <1>10 DEF ImdInv, ImdTypeOK
<1>12. RequestsMet' /\ ResultOfItsTime' /\ StationsFirst' /\ ResultsGiven'
  <2>1. /\ calls \in [Threads -> Call] /\ UNCHANGED <<client, stations, met>>
        /\ calls'[t].at = "record"
        /\ \A u \in Threads \ {t} : calls'[u] = calls[u]
    BY <1>6, <1>10 DEF ImdInv, ImdTypeOK
  <2>2. RequestsMet'
    BY <2>1 DEF ImdInv, RequestsMet, StateOf
  <2>3. ResultOfItsTime'
    BY <2>1 DEF ImdInv, ResultOfItsTime
  <2>4. StationsFirst' /\ ResultsGiven'
    BY <2>1 DEF ImdInv, StationsFirst, ResultsGiven
  <2>. QED
    BY <2>2, <2>3, <2>4
<1>13. RowsTraceable'
  <2>. SUFFICES ASSUME NEW k \in DOMAIN rows'
                PROVE  k[1] \in stations' /\ k = Key(rows'[k].raw, rows'[k].retrieved)
    BY DEF RowsTraceable, Key, ObservedAt
  <2>1. CASE k \in DOMAIN rows
    BY <1>6, <1>7, <2>1 DEF ImdInv, RowsTraceable
  <2>2. CASE k \notin DOMAIN rows
    BY <1>1, <1>3, <1>5, <1>6, <1>7, <2>2 DEF key
  <2>. QED
    BY <2>1, <2>2
<1>. QED
  BY <1>8, <1>11, <1>12, <1>13 DEF ImdInv

LEMMA ImdStep == ImdInv /\ [ImdNext]_imdVars => ImdInv' /\ RowsKept
<1>. SUFFICES ASSUME ImdInv, [ImdNext]_imdVars PROVE ImdInv' /\ RowsKept
  OBVIOUS
<1>1. CASE Tick
  BY <1>1 DEF Tick, ImdInv, ImdTypeOK, RequestsMet, ResultOfItsTime,
              StateOf, StationsFirst, ResultsGiven, RowsTraceable, RowsKept, Key, ObservedAt
<1>2. ASSUME NEW t \in Threads, StartFetch(t) \/ FetchStep(t) \/ Returned(t)
      PROVE  ImdInv' /\ RowsKept
  BY <1>2, RequestKeeps, RecordKeeps, ObservationKeeps DEF FetchStep
<1>3. CASE UNCHANGED imdVars
  BY <1>3 DEF imdVars, ImdInv, ImdTypeOK, RequestsMet, ResultOfItsTime,
              StateOf, StationsFirst, ResultsGiven, RowsTraceable, RowsKept, Key, ObservedAt
<1>. QED
  BY <1>1, <1>2, <1>3 DEF ImdNext

(* The sources keep their invariant whoever calls them: any specification   *)
(* whose steps are steps of ImdAws may cite this.                           *)
LEMMA ImdInvariant == ImdSpec => []ImdInv
<1>1. ImdInv /\ [ImdNext]_imdVars => ImdInv'
  BY ImdStep
<1>. QED
  BY ImdInitInv, <1>1, PTL DEF ImdSpec
-----------------------------------------------------------------------------
(*                              Live operation                             *)

Underway == {"system", "data", "read", "iterate", "release"}

JobsShaped ==
    \A t \in Threads :
        /\ jobs[t].at = "idle" <=> jobs[t].kind = "none"
        /\ jobs[t].at = "fetch" => jobs[t].polls # <<>>
        /\ jobs[t].at = "mode" => jobs[t].kind \in Switches /\ jobs[t].fields # <<>>

(* Forecasts that did not overlap are one at most. *)
Coalesced ==
    /\ FlagTellsRunning
    /\ ~overlapped => \A t, u \in Forecasting : t = u

(* While no switch met another, the one under way has still to write every  *)
(* field that is not yet as it will leave it.                               *)
Pending(job, f) == \E i \in 1 .. Len(job.fields) : job.fields[i] = f
SwitchesApart ==
    ~crossed =>
        /\ \A t, u \in Switching : t = u
        /\ \A t \in Switching : \A f \in Fields :
               Pending(jobs[t], f) \/ mode[f] = Target(jobs[t].kind)[f]

(* What a request that no switch has disturbed knows of the mode *)
Undisturbed ==
    \A t \in Threads : jobs[t].quiet =>
        /\ ~crossed /\ Switching \subseteq {t}
        /\ jobs[t].kind = "connect" /\ jobs[t].at # "mode" => mode = LiveMode
        /\ jobs[t].at \in {"data", "read", "iterate"} => jobs[t].system = mode.system
        /\ jobs[t].at \in {"read", "iterate"} => jobs[t].data = mode.data

LiveInv ==
    /\ ImdInv /\ TypeOK /\ JobsShaped /\ Coalesced
    /\ SwitchesApart /\ ModeSettles /\ Undisturbed /\ ChainTellsMode

LEMMA SourceFacts ==
    /\ IMD \in AllSources /\ SourceSet \subseteq AllSources
    /\ \A kind : PollsOf(kind) \in Seq(AllSources)
    /\ \A s \in AllSources : AnswerOf(s) \in AnswerStates
<1>1. IMD \in AllSources
  BY DEF AllSources
<1>2. Sources \in Seq(AllSources)
  BY LiveAssumption
<1>3. SourceSet \subseteq AllSources
  BY <1>2, ElementOfSeq DEF SourceSet
<1>4. ASSUME NEW kind PROVE PollsOf(kind) \in Seq(AllSources)
  BY <1>1, <1>2 DEF PollsOf
<1>5. \A s \in AllSources : AnswerOf(s) \in AnswerStates
  BY DEF AnswerOf, ImergFetch, InsatFetch, NwpFetch, CwcFetch, GlofasFetch,
         RadarFetch, MockFetch, AnswerStates
<1>. QED
  BY <1>1, <1>3, <1>4, <1>5

LEMMA NoJobTyped ==
    /\ NoJob \in Job /\ NoJob.at = "idle" /\ NoJob.kind = "none" /\ ~NoJob.quiet
    /\ \A job \in Job : /\ Leaving(job) \in Job /\ Leaving(job).at = "release"
                        /\ Leaving(job).kind = job.kind /\ ~Leaving(job).quiet
<1>1. <<>> \in Seq(Fields) /\ <<>> \in Seq(AllSources)
  OBVIOUS
<1>2. NoJob \in Job
  BY <1>1 DEF NoJob, Job
<1>3. ASSUME NEW job \in Job PROVE Leaving(job) \in Job
  BY <1>2, <1>3 DEF Leaving, NoJob, Job
<1>. QED
  BY <1>2, <1>3 DEF Leaving, NoJob

LEMMA InitLive == Init => LiveInv
<1>. SUFFICES ASSUME Init PROVE LiveInv
  OBVIOUS
<1>1. ImdInv
  BY ImdInitInv DEF Init
<1>2. \A t \in Threads : jobs[t] = NoJob
  BY DEF Init
<1>3. Forecasting = {} /\ Switching = {}
  BY <1>2, NoJobTyped DEF Forecasting, Switching
<1>4. TypeOK
  <2>1. ImdTypeOK /\ jobs \in [Threads -> Job]
    BY <1>1, NoJobTyped DEF Init, ImdInv
  <2>2. mode \in [system : {"LIVE", "SIMULATION"}, data : {"HEALTHY", "SYNTHETIC"},
                  ingesting : BOOLEAN, confidence : {"MEDIUM", "HIGH"}]
    BY DEF Init, SimulationMode
  <2>3. history \in Seq(Run)
    BY DEF Init
  <2>. QED
    BY <2>1, <2>2, <2>3 DEF Init, TypeOK
<1>5. JobsShaped /\ Undisturbed
  BY <1>2, NoJobTyped DEF JobsShaped, Undisturbed
<1>6. Coalesced /\ SwitchesApart /\ ModeSettles /\ ChainTellsMode
  BY <1>3 DEF Init, Coalesced, FlagTellsRunning, SwitchesApart, ModeSettles,
              ChainTellsMode
<1>. QED
  BY <1>1, <1>4, <1>5, <1>6 DEF LiveInv

(* Every step of live operation is a step of its weather stations or leaves *)
(* them alone.                                                              *)
LEMMA StepIsImd == clock \in Nat /\ [Next]_vars => [ImdNext]_imdVars
<1>. SUFFICES ASSUME clock \in Nat, [Next]_vars PROVE [ImdNext]_imdVars
  OBVIOUS
<1>1. CASE Elapse
  <2>1. PICK d \in Ticks : clock' = clock + d
    BY <1>1 DEF Elapse
  <2>2. d \in Nat \ {0}
    BY LiveAssumption
  <2>3. Tick
    BY <1>1, <2>1, <2>2 DEF Elapse, Tick
  <2>. QED
    BY <2>3 DEF ImdNext
<1>2. ASSUME NEW t \in Threads, Step(t) PROVE [ImdNext]_imdVars
  <2>1. CASE \/ WriteField(t) \/ SkipPoll(t) \/ RecordOther(t) \/ EndWithout(t)
             \/ StartForecast(t) \/ ReadSystem(t) \/ ReadData(t)
             \/ StartIteration(t) \/ KeepChain(t) \/ ForecastRaised(t) \/ Release(t)
    BY <2>1 DEF WriteField, SkipPoll, RecordOther, EndWithout, StartForecast,
                ReadSystem, ReadData, StartIteration, KeepChain, ForecastRaised,
                Release
  <2>2. CASE StartPoll(t) \/ RecordImd(t) \/ DropImd(t) \/ Fetching(t)
    BY <2>2 DEF StartPoll, RecordImd, DropImd, Fetching, ImdNext
  <2>. QED
    BY <1>2, <2>1, <2>2 DEF Step
<1>3. ASSUME NEW t \in Threads, NEW kind \in Kinds, Begin(t, kind)
      PROVE  [ImdNext]_imdVars
  BY <1>3 DEF Begin
<1>4. CASE UNCHANGED vars
  BY <1>4 DEF vars
<1>. QED
  BY <1>1, <1>2, <1>3, <1>4 DEF Next

(* How a request goes on that is not writing the mode: it stays as it was   *)
(* or learns what the mode is.                                              *)
Advance(old, new) ==
    /\ old.at # "mode" /\ new.at # "mode"
    /\ new.at = "idle" <=> new.kind = "none"
    /\ new.at = "fetch" => new.polls # <<>>
    /\ new.quiet =>
        /\ old.quiet /\ new.kind = old.kind
        /\ new.at \in {"data", "read", "iterate"} =>
            \/ new.system = mode.system
            \/ old.at \in {"data", "read", "iterate"} /\ new.system = old.system
        /\ new.at \in {"read", "iterate"} =>
            \/ new.data = mode.data
            \/ old.at \in {"read", "iterate"} /\ new.data = old.data

Bookkeeping ==
    /\ lastFetch' \in [SourceSet -> Nat \cup {Never}]
    /\ history' \in Seq(Run)
    /\ latest' \in [SourceSet -> RunStates \cup {Unseen}]
    /\ lastRun' \in Nat \cup {Never}

Moves(t, job) ==
    /\ job \in Job /\ jobs' = [jobs EXCEPT ![t] = job] /\ Advance(jobs[t], job)
    /\ UNCHANGED <<mode, begun, crossed>> /\ Bookkeeping

(* A move of which neither the flag nor the chains of the forecasts tell *)
Silent(t) ==
    \E job : /\ Moves(t, job)
             /\ job.at \in Underway <=> jobs[t].at \in Underway
             /\ UNCHANGED <<running, chains, overlapped>>

LEMMA JobFacts ==
    ASSUME LiveInv, NEW t \in Threads
    PROVE  /\ jobs[t] \in Job
           /\ jobs[t].polls \in Seq(AllSources)
           /\ jobs[t].polls # <<>> =>
                  Polled(t) \in AllSources /\ Tail(jobs[t].polls) \in Seq(AllSources)
           /\ jobs[t].at = "idle" <=> jobs[t].kind = "none"
           /\ jobs[t].at = "fetch" => jobs[t].polls # <<>>
           /\ clock \in Nat /\ mode.system \in {"LIVE", "SIMULATION"}
           /\ mode.data \in {"HEALTHY", "SYNTHETIC"}
<1>1. jobs[t] \in Job
  BY DEF LiveInv, TypeOK
<1>2. jobs[t].polls \in Seq(AllSources)
  BY <1>1 DEF Job
<1>3. jobs[t].polls # <<>> =>
          Polled(t) \in AllSources /\ Tail(jobs[t].polls) \in Seq(AllSources)
  BY <1>2, HeadAndTail DEF Polled
<1>4. clock \in Nat
  BY DEF LiveInv, TypeOK, ImdTypeOK
<1>5. mode.system \in {"LIVE", "SIMULATION"} /\ mode.data \in {"HEALTHY", "SYNTHETIC"}
  BY DEF LiveInv, TypeOK
<1>. QED
  BY <1>1, <1>2, <1>3, <1>4, <1>5 DEF LiveInv, JobsShaped

LEMMA Unrecorded ==
    ASSUME LiveInv, UNCHANGED <<lastFetch, history, latest, lastRun>>
    PROVE  Bookkeeping
  BY DEF LiveInv, TypeOK, Bookkeeping

LEMMA PollSteps ==
    ASSUME LiveInv, NEW t \in Threads, SkipPoll(t) \/ StartPoll(t) \/ EndWithout(t)
    PROVE  Silent(t)
<1>1. UNCHANGED <<mode, lastFetch, history, latest, running, lastRun, chains,
                  begun, crossed, overlapped>>
  BY DEF SkipPoll, StartPoll, EndWithout
<1>2. Bookkeeping
  BY <1>1, Unrecorded
<1>3. CASE SkipPoll(t)
  <2>. DEFINE job == [jobs[t] EXCEPT !.polls = Tail(@)]
  <2>1. jobs[t].at = "poll" /\ jobs[t].polls # <<>> /\ jobs' = [jobs EXCEPT ![t] = job]
    BY <1>3 DEF SkipPoll
  <2>0. /\ jobs[t] \in Job /\ Tail(jobs[t].polls) \in Seq(AllSources)
        /\ jobs[t].kind # "none"
    BY <2>1, JobFacts
  <2>2. job \in Job /\ Advance(jobs[t], job) /\ job.at = "poll"
    BY <2>0, <2>1 DEF Job, Advance
  <2>. QED
    BY <1>1, <1>2, <2>1, <2>2 DEF Silent, Moves
<1>4. CASE StartPoll(t)
  <2>. DEFINE job == [jobs[t] EXCEPT !.at = "fetch", !.now = clock]
  <2>1. jobs[t].at = "poll" /\ jobs[t].polls # <<>> /\ jobs' = [jobs EXCEPT ![t] = job]
    BY <1>4 DEF StartPoll
  <2>2. job \in Job /\ Advance(jobs[t], job) /\ job.at = "fetch"
    BY <2>1, JobFacts DEF Job, Advance
  <2>. QED
    BY <1>1, <1>2, <2>1, <2>2 DEF Silent, Moves, Underway
<1>5. CASE EndWithout(t)
  <2>1. jobs[t].at = "poll" /\ jobs' = [jobs EXCEPT ![t] = NoJob]
    BY <1>5 DEF EndWithout
  <2>2. NoJob \in Job /\ Advance(jobs[t], NoJob) /\ NoJob.at = "idle"
    BY <2>1, NoJobTyped DEF Advance
  <2>. QED
    BY <1>1, <1>2, <2>1, <2>2 DEF Silent, Moves, Underway
<1>. QED
  BY <1>3, <1>4, <1>5

LEMMA PollEnds ==
    ASSUME LiveInv, NEW t \in Threads, jobs[t].at = "fetch",
           NEW got \in BOOLEAN, EndPoll(t, got)
    PROVE  \E job \in Job : /\ jobs' = [jobs EXCEPT ![t] = job]
                            /\ Advance(jobs[t], job) /\ job.at = "poll"
<1>. DEFINE job == [jobs[t] EXCEPT !.at = "poll", !.polls = Tail(@),
                                   !.got = @ \/ got, !.now = 0]
<1>1. jobs' = [jobs EXCEPT ![t] = job]
  BY DEF EndPoll
<1>2. jobs[t].polls # <<>> /\ jobs[t] \in Job
  BY JobFacts
<1>3. Tail(jobs[t].polls) \in Seq(AllSources) /\ (jobs[t].got \/ got) \in BOOLEAN
  BY <1>2, JobFacts
<1>4. job \in Job /\ job.at = "poll"
  BY <1>2, <1>3 DEF Job
<1>5. Advance(jobs[t], job)
  BY <1>2, JobFacts DEF Job, Advance
<1>. HIDE DEF job
<1>. QED
  BY <1>1, <1>4, <1>5

LEMMA RunRecorded ==
    ASSUME LiveInv, NEW t \in Threads, jobs[t].at = "fetch",
           NEW state \in RunStates, RecordRun(t, state), UNCHANGED lastRun
    PROVE  Bookkeeping
<1>1. Polled(t) \in AllSources /\ jobs[t].now \in Nat
  BY JobFacts DEF Job
<1>. DEFINE run == [source |-> Polled(t), state |-> state]
            all == Append(history, run)
<1>2. run \in Run
  BY <1>1 DEF Run
<1>3. history \in Seq(Run)
  BY DEF LiveInv, TypeOK
<1>4. all \in Seq(Run) /\ Len(all) = Len(history) + 1 /\ Len(history) \in Nat
  BY <1>2, <1>3, AppendProperties, LenProperties
<1>5. all # <<>>
  BY <1>4
<1>6. Tail(all) \in Seq(Run)
  BY <1>4, <1>5, HeadAndTail
<1>7. history' \in Seq(Run)
  BY <1>4, <1>6 DEF RecordRun
<1>8. /\ lastFetch' = [lastFetch EXCEPT ![Polled(t)] = jobs[t].now]
      /\ latest' = [latest EXCEPT ![Polled(t)] = state]
  BY DEF RecordRun
<1>. QED
  BY <1>1, <1>7, <1>8 DEF LiveInv, TypeOK, Bookkeeping

LEMMA FetchEnds ==
    ASSUME LiveInv, NEW t \in Threads, RecordOther(t) \/ RecordImd(t) \/ DropImd(t)
    PROVE  Silent(t)
<1>1. /\ jobs[t].at = "fetch"
      /\ UNCHANGED <<mode, running, lastRun, chains, begun, crossed, overlapped>>
  BY DEF RecordOther, RecordImd, DropImd
<1>2. CASE RecordOther(t)
  <2>1. AnswerOf(Polled(t)) \in RunStates /\ RecordRun(t, AnswerOf(Polled(t)))
    BY <1>1, <1>2, JobFacts, SourceFacts DEF RecordOther, RunStates
  <2>2. Bookkeeping /\ EndPoll(t, TRUE)
    BY <1>1, <2>1, RunRecorded DEF RecordRun
  <2>. QED
    BY <1>1, <2>2, PollEnds DEF Silent, Moves, Underway
<1>3. CASE RecordImd(t)
  <2>1. calls[t].result \in RunStates /\ RecordRun(t, calls[t].result)
    BY <1>3 DEF RecordImd, LiveInv, ImdInv, ImdTypeOK, ResultsGiven, Call, RunStates
  <2>2. Bookkeeping /\ EndPoll(t, TRUE)
    BY <1>1, <2>1, RunRecorded DEF RecordRun
  <2>. QED
    BY <1>1, <2>2, PollEnds DEF Silent, Moves, Underway
<1>4. CASE DropImd(t)
  <2>1. EndPoll(t, FALSE) /\ UNCHANGED <<lastFetch, history, latest>>
    BY <1>4 DEF DropImd
  <2>. QED
    BY <1>1, <2>1, Unrecorded, PollEnds DEF Silent, Moves, Underway
<1>. QED
  BY <1>2, <1>3, <1>4

LEMMA ForecastSteps ==
    ASSUME LiveInv, NEW t \in Threads,
           ReadSystem(t) \/ ReadData(t) \/ StartIteration(t) \/ ForecastRaised(t)
    PROVE  Silent(t)
<1>1. UNCHANGED <<mode, lastFetch, history, latest, running, lastRun, chains,
                  begun, crossed, overlapped>>
  BY DEF ReadSystem, ReadData, StartIteration, ForecastRaised
<1>2. Bookkeeping
  BY <1>1, Unrecorded
<1>0. /\ jobs[t] \in Job
      /\ jobs[t].kind = "none" <=> jobs[t].at = "idle"
      /\ mode.system \in {"LIVE", "SIMULATION"} /\ mode.data \in {"HEALTHY", "SYNTHETIC"}
  BY JobFacts
<1>3. CASE ReadSystem(t)
  <2>. DEFINE job == [jobs[t] EXCEPT !.at = "data", !.system = mode.system]
  <2>1. jobs[t].at = "system" /\ jobs' = [jobs EXCEPT ![t] = job]
    BY <1>3 DEF ReadSystem
  <2>2. job \in Job /\ job.at = "data"
    BY <1>0 DEF Job
  <2>3. Advance(jobs[t], job)
    BY <1>0, <2>1 DEF Job, Advance
  <2>. QED
    BY <1>1, <1>2, <2>1, <2>2, <2>3 DEF Silent, Moves, Underway
<1>4. CASE ReadData(t)
  <2>. DEFINE job == [jobs[t] EXCEPT !.at = "read", !.data = mode.data]
  <2>1. jobs[t].at = "data" /\ jobs' = [jobs EXCEPT ![t] = job]
    BY <1>4 DEF ReadData
  <2>2. job \in Job /\ job.at = "read"
    BY <1>0 DEF Job
  <2>3. Advance(jobs[t], job)
    BY <1>0, <2>1 DEF Job, Advance
  <2>. QED
    BY <1>1, <1>2, <2>1, <2>2, <2>3 DEF Silent, Moves, Underway
<1>5. CASE StartIteration(t)
  <2>. DEFINE job == [jobs[t] EXCEPT !.at = "iterate", !.seen = Known]
  <2>1. jobs[t].at = "read" /\ jobs' = [jobs EXCEPT ![t] = job]
    BY <1>5 DEF StartIteration
  <2>2. Known \subseteq AllSources
    BY SourceFacts DEF Known
  <2>3. job \in Job /\ job.at = "iterate"
    BY <1>0, <2>2 DEF Job
  <2>4. Advance(jobs[t], job)
    BY <1>0, <2>1 DEF Job, Advance
  <2>. QED
    BY <1>1, <1>2, <2>1, <2>3, <2>4 DEF Silent, Moves, Underway
<1>6. CASE ForecastRaised(t)
  <2>1. jobs[t].at = "iterate" /\ jobs' = [jobs EXCEPT ![t] = Leaving(jobs[t])]
    BY <1>6 DEF ForecastRaised
  <2>2. /\ Leaving(jobs[t]) \in Job /\ Advance(jobs[t], Leaving(jobs[t]))
        /\ Leaving(jobs[t]).at = "release"
    BY <2>1, JobFacts, NoJobTyped DEF Advance
  <2>. QED
    BY <1>1, <1>2, <2>1, <2>2 DEF Silent, Moves, Underway
<1>. QED
  BY <1>3, <1>4, <1>5, <1>6

LEMMA MoveKeepsMode ==
    ASSUME LiveInv, NEW t \in Threads, NEW job, Moves(t, job)
    PROVE  /\ jobs' \in [Threads -> Job] /\ jobs'[t] = job
           /\ \A u \in Threads \ {t} : jobs'[u] = jobs[u]
           /\ JobsShaped' /\ SwitchesApart' /\ ModeSettles' /\ Undisturbed'
<1>1. /\ job \in Job /\ jobs' = [jobs EXCEPT ![t] = job] /\ Advance(jobs[t], job)
      /\ UNCHANGED <<mode, crossed>> /\ jobs \in [Threads -> Job]
  BY DEF Moves, LiveInv, TypeOK
<1>2. /\ jobs' \in [Threads -> Job] /\ jobs'[t] = job
      /\ \A u \in Threads \ {t} : jobs'[u] = jobs[u]
  BY <1>1
<1>3. job.at # "mode" /\ jobs[t].at # "mode"
  BY <1>1 DEF Advance
<1>4. Switching' = Switching /\ t \notin Switching
  BY <1>2, <1>3 DEF Switching
<1>5. \A u \in Switching : jobs'[u] = jobs[u]
  BY <1>2, <1>4 DEF Switching
<1>6. JobsShaped'
  BY <1>1, <1>2, <1>3 DEF LiveInv, JobsShaped, Advance
<1>7. SwitchesApart'
  BY <1>1, <1>4, <1>5 DEF LiveInv, SwitchesApart, Pending
<1>8. ModeSettles'
  BY <1>1, <1>4 DEF LiveInv, ModeSettles
<1>9. Undisturbed'
  <2>. SUFFICES ASSUME NEW u \in Threads, jobs'[u].quiet
                PROVE  /\ ~crossed /\ Switching \subseteq {u}
                       /\ jobs'[u].kind = "connect" /\ jobs'[u].at # "mode" =>
                              mode = LiveMode
                       /\ jobs'[u].at \in {"data", "read", "iterate"} =>
                              jobs'[u].system = mode.system
                       /\ jobs'[u].at \in {"read", "iterate"} =>
                              jobs'[u].data = mode.data
    BY <1>1, <1>4 DEF Undisturbed
  <2>1. CASE u # t
    BY <1>2, <2>1 DEF LiveInv, Undisturbed
  <2>2. CASE u = t
    <3>1. /\ jobs[t].quiet /\ job.kind = jobs[t].kind
          /\ job.at \in {"data", "read", "iterate"} =>
              \/ job.system = mode.system
              \/ /\ jobs[t].at \in {"data", "read", "iterate"}
                 /\ job.system = jobs[t].system
          /\ job.at \in {"read", "iterate"} =>
              \/ job.data = mode.data
              \/ jobs[t].at \in {"read", "iterate"} /\ job.data = jobs[t].data
      BY <1>1, <1>2, <2>2 DEF Advance
    <3>2. /\ ~crossed /\ Switching \subseteq {t}
          /\ jobs[t].kind = "connect" => mode = LiveMode
          /\ jobs[t].at \in {"data", "read", "iterate"} => jobs[t].system = mode.system
          /\ jobs[t].at \in {"read", "iterate"} => jobs[t].data = mode.data
      BY <1>3, <3>1 DEF LiveInv, Undisturbed
    <3>. QED
      BY <1>2, <2>2, <3>1, <3>2
  <2>. QED
    BY <2>1, <2>2
<1>. QED
  BY <1>2, <1>6, <1>7, <1>8, <1>9

LEMMA SilentKeeps ==
    ASSUME LiveInv, ImdInv', NEW t \in Threads, Silent(t)
    PROVE  LiveInv'
<1>1. PICK job : /\ Moves(t, job)
                 /\ job.at \in Underway <=> jobs[t].at \in Underway
                 /\ UNCHANGED <<running, chains, overlapped>>
  BY DEF Silent
<1>2. /\ jobs' \in [Threads -> Job] /\ jobs'[t] = job
      /\ \A u \in Threads \ {t} : jobs'[u] = jobs[u]
      /\ JobsShaped' /\ SwitchesApart' /\ ModeSettles' /\ Undisturbed'
  BY <1>1, MoveKeepsMode
<1>3. UNCHANGED <<mode, begun, crossed>> /\ Bookkeeping
  BY <1>1 DEF Moves
<1>4. TypeOK'
  BY <1>1, <1>2, <1>3 DEF LiveInv, ImdInv, TypeOK, Bookkeeping
<1>5. Forecasting' = Forecasting
  BY <1>1, <1>2 DEF Forecasting, Underway
<1>6. Coalesced'
  BY <1>1, <1>5 DEF LiveInv, Coalesced, FlagTellsRunning
<1>7. ChainTellsMode'
  BY <1>1 DEF LiveInv, ChainTellsMode
<1>. QED
  BY <1>2, <1>4, <1>6, <1>7 DEF LiveInv

LEMMA StartForecastKeeps ==
    ASSUME LiveInv, ImdInv', NEW t \in Threads, StartForecast(t)
    PROVE  LiveInv'
<1>. DEFINE job == [jobs[t] EXCEPT !.at = "system", !.now = clock]
<1>1. /\ jobs[t].at = "poll" /\ jobs' = [jobs EXCEPT ![t] = job]
      /\ UNCHANGED <<mode, lastFetch, history, latest, lastRun, chains, begun, crossed>>
      /\ running' = TRUE /\ overlapped' = (Forecasting # {})
  BY DEF StartForecast
<1>2. job \in Job /\ Advance(jobs[t], job) /\ job.at = "system"
  <2>0. jobs[t] \in Job /\ clock \in Nat /\ jobs[t].kind # "none"
    BY <1>1, JobFacts
  <2>1. job \in Job /\ job.at = "system"
    BY <2>0 DEF Job
  <2>2. Advance(jobs[t], job)
    BY <1>1, <2>0 DEF Job, Advance
  <2>. QED
    BY <2>1, <2>2
<1>. HIDE DEF job
<1>3. Bookkeeping
  BY <1>1, Unrecorded
<1>4. Moves(t, job)
  BY <1>1, <1>2, <1>3 DEF Moves
<1>5. /\ jobs' \in [Threads -> Job] /\ jobs'[t] = job
      /\ \A u \in Threads \ {t} : jobs'[u] = jobs[u]
      /\ JobsShaped' /\ SwitchesApart' /\ ModeSettles' /\ Undisturbed'
  BY <1>4, MoveKeepsMode
<1>6. TypeOK'
  BY <1>1, <1>3, <1>5 DEF LiveInv, ImdInv, TypeOK, Bookkeeping
<1>7. Forecasting' = Forecasting \cup {t}
  BY <1>2, <1>5 DEF Forecasting
<1>8. Coalesced'
  BY <1>1, <1>7 DEF Coalesced, FlagTellsRunning
<1>9. ChainTellsMode'
  BY <1>1 DEF LiveInv, ChainTellsMode
<1>. QED
  BY <1>5, <1>6, <1>8, <1>9 DEF LiveInv

LEMMA KeepChainKeeps ==
    ASSUME LiveInv, ImdInv', NEW t \in Threads, KeepChain(t)
    PROVE  LiveInv'
<1>. DEFINE chain == [by |-> jobs[t].kind, at |-> jobs[t].now,
                      system |-> jobs[t].system, data |-> jobs[t].data,
                      quiet |-> jobs[t].quiet]
<1>1. /\ jobs[t].at = "iterate" /\ jobs' = [jobs EXCEPT ![t] = Leaving(jobs[t])]
      /\ UNCHANGED <<mode, lastFetch, history, latest, running, begun, crossed,
                     overlapped>>
      /\ lastRun' = jobs[t].now /\ chains' = chains \cup {chain}
  BY DEF KeepChain
<1>2. /\ Leaving(jobs[t]) \in Job /\ Advance(jobs[t], Leaving(jobs[t]))
      /\ Leaving(jobs[t]).at = "release"
  BY <1>1, JobFacts, NoJobTyped DEF Advance
<1>3. jobs[t] \in Job /\ jobs[t].kind # "none"
  BY <1>1, JobFacts
<1>4. chain \in Chain /\ jobs[t].now \in Nat
  BY <1>3 DEF Chain, Job
<1>5. Bookkeeping
  BY <1>1, <1>4 DEF LiveInv, TypeOK, Bookkeeping
<1>6. Moves(t, Leaving(jobs[t]))
  BY <1>1, <1>2, <1>5 DEF Moves
<1>7. /\ jobs' \in [Threads -> Job] /\ jobs'[t] = Leaving(jobs[t])
      /\ \A u \in Threads \ {t} : jobs'[u] = jobs[u]
      /\ JobsShaped' /\ SwitchesApart' /\ ModeSettles' /\ Undisturbed'
  BY <1>6, MoveKeepsMode
<1>8. TypeOK'
  BY <1>1, <1>4, <1>5, <1>7 DEF LiveInv, ImdInv, TypeOK, Bookkeeping
<1>9. Coalesced'
  <2>1. Forecasting' = Forecasting
    BY <1>1, <1>2, <1>7 DEF Forecasting
  <2>. QED
    BY <1>1, <2>1 DEF LiveInv, Coalesced, FlagTellsRunning
<1>10. jobs[t].quiet =>
        /\ \E m \in {LiveMode, SimulationMode} :
               jobs[t].system = m.system /\ jobs[t].data = m.data
        /\ jobs[t].kind = "connect" => jobs[t].system = "LIVE"
  <2>. SUFFICES ASSUME jobs[t].quiet
                PROVE  /\ \E m \in {LiveMode, SimulationMode} :
                              jobs[t].system = m.system /\ jobs[t].data = m.data
                       /\ jobs[t].kind = "connect" => jobs[t].system = "LIVE"
    OBVIOUS
  <2>1. /\ ~crossed /\ Switching \subseteq {t}
        /\ jobs[t].kind = "connect" => mode = LiveMode
        /\ jobs[t].system = mode.system /\ jobs[t].data = mode.data
    BY <1>1 DEF LiveInv, Undisturbed
  <2>2. Switching = {}
    BY <1>1, <2>1 DEF Switching
  <2>3. mode \in {LiveMode, SimulationMode}
    BY <2>1, <2>2 DEF LiveInv, ModeSettles
  <2>. QED
    BY <2>1, <2>3 DEF LiveMode
<1>11. ChainTellsMode'
  BY <1>1, <1>10 DEF LiveInv, ChainTellsMode
<1>. QED
  BY <1>7, <1>8, <1>9, <1>11 DEF LiveInv

LEMMA ReleaseKeeps ==
    ASSUME LiveInv, ImdInv', NEW t \in Threads, Release(t)
    PROVE  LiveInv'
<1>1. /\ jobs[t].at = "release" /\ jobs' = [jobs EXCEPT ![t] = NoJob]
      /\ UNCHANGED <<mode, lastFetch, history, latest, lastRun, chains, begun,
                     crossed, overlapped>>
      /\ running' = FALSE
  BY DEF Release
<1>2. NoJob \in Job /\ Advance(jobs[t], NoJob) /\ NoJob.at = "idle"
  BY <1>1, NoJobTyped DEF Advance
<1>3. Bookkeeping
  BY <1>1, Unrecorded
<1>4. Moves(t, NoJob)
  BY <1>1, <1>2, <1>3 DEF Moves
<1>5. /\ jobs' \in [Threads -> Job] /\ jobs'[t] = NoJob
      /\ \A u \in Threads \ {t} : jobs'[u] = jobs[u]
      /\ JobsShaped' /\ SwitchesApart' /\ ModeSettles' /\ Undisturbed'
  BY <1>4, MoveKeepsMode
<1>6. TypeOK'
  BY <1>1, <1>3, <1>5 DEF LiveInv, ImdInv, TypeOK, Bookkeeping
<1>7. Forecasting' = Forecasting \ {t} /\ t \in Forecasting
  BY <1>1, <1>2, <1>5 DEF Forecasting
<1>8. Coalesced'
  BY <1>1, <1>7 DEF LiveInv, Coalesced, FlagTellsRunning
<1>9. ChainTellsMode'
  BY <1>1 DEF LiveInv, ChainTellsMode
<1>. QED
  BY <1>5, <1>6, <1>8, <1>9 DEF LiveInv

LEMMA ModeFields ==
    /\ Fields = {"system", "data", "ingesting", "confidence"}
    /\ DOMAIN SimulationMode = Fields
    /\ \A kind : Target(kind) \in {LiveMode, SimulationMode}
  BY DEF Fields, LiveMode, SimulationMode, Target

LEMMA FieldWritten ==
    ASSUME TypeOK, NEW kind, NEW field \in Fields,
           mode' = [mode EXCEPT ![field] = Target(kind)[field]]
    PROVE  /\ mode' \in [system : {"LIVE", "SIMULATION"},
                         data : {"HEALTHY", "SYNTHETIC"},
                         ingesting : BOOLEAN, confidence : {"MEDIUM", "HIGH"}]
           /\ mode'[field] = Target(kind)[field]
           /\ \A f \in Fields \ {field} : mode'[f] = mode[f]
<1>1. mode \in [system : {"LIVE", "SIMULATION"}, data : {"HEALTHY", "SYNTHETIC"},
                ingesting : BOOLEAN, confidence : {"MEDIUM", "HIGH"}]
  BY DEF TypeOK
<1>2. /\ Target(kind).system \in {"LIVE", "SIMULATION"}
      /\ Target(kind).data \in {"HEALTHY", "SYNTHETIC"}
      /\ Target(kind).ingesting \in BOOLEAN
      /\ Target(kind).confidence \in {"MEDIUM", "HIGH"}
  BY DEF Target, LiveMode, SimulationMode
<1>3. CASE field = "system"
  BY <1>1, <1>2, <1>3, ModeFields
<1>4. CASE field = "data"
  BY <1>1, <1>2, <1>4, ModeFields
<1>5. CASE field = "ingesting"
  BY <1>1, <1>2, <1>5, ModeFields
<1>6. CASE field = "confidence"
  BY <1>1, <1>2, <1>6, ModeFields
<1>. QED
  BY <1>3, <1>4, <1>5, <1>6, ModeFields

(* A mode that agrees with a target in every field is that target. *)
LEMMA ModeWhole ==
    ASSUME NEW kind,
           NEW m \in [system : {"LIVE", "SIMULATION"}, data : {"HEALTHY", "SYNTHETIC"},
                      ingesting : BOOLEAN, confidence : {"MEDIUM", "HIGH"}],
           \A f \in Fields : m[f] = Target(kind)[f]
    PROVE  m = Target(kind)
<1>1. /\ m.system = Target(kind).system /\ m.data = Target(kind).data
      /\ m.ingesting = Target(kind).ingesting
      /\ m.confidence = Target(kind).confidence
  BY ModeFields
<1>. QED
  BY <1>1 DEF Target, LiveMode, SimulationMode

LEMMA OneFewer ==
    ASSUME NEW s \in Seq(Fields), s # <<>>, NEW f \in Fields,
           NEW i \in 1 .. Len(s), s[i] = f
    PROVE  /\ Len(s) \in Nat /\ Len(s) >= 1
           /\ f = Head(s) \/ \E j \in 1 .. Len(Tail(s)) : Tail(s)[j] = f
           /\ Len(s) > 1 => Tail(s) \in Seq(Fields) /\ Tail(s) # <<>>
<1>1. /\ Len(s) \in Nat /\ Len(s) >= 1 /\ Head(s) = s[1]
      /\ Tail(s) \in Seq(Fields) /\ Len(Tail(s)) = Len(s) - 1
      /\ \A j \in 1 .. Len(Tail(s)) : Tail(s)[j] = s[j + 1]
  BY HeadTailProperties, LenProperties
<1>2. i = 1 => f = Head(s)
  BY <1>1
<1>3. ASSUME i # 1 PROVE \E j \in 1 .. Len(Tail(s)) : Tail(s)[j] = f
  <2>1. i - 1 \in 1 .. Len(Tail(s)) /\ Tail(s)[i - 1] = s[i - 1 + 1]
    BY <1>1, <1>3
  <2>2. Tail(s)[i - 1] = f
    BY <2>1
  <2>. QED
    BY <2>1, <2>2
<1>4. ASSUME Len(s) > 1 PROVE Tail(s) # <<>>
  <2>1. Len(Tail(s)) # 0 /\ Len(<<>>) = 0
    BY <1>1, <1>4
  <2>. QED
    BY <2>1
<1>. QED
  BY <1>1, <1>2, <1>3, <1>4

LEMMA TailNonempty ==
    ASSUME NEW s \in Seq(Fields), Len(s) > 1
    PROVE  Tail(s) # <<>>
<1>1. s # <<>> /\ Len(s) \in Nat
  BY LenProperties, EmptySeq
<1>2. Len(Tail(s)) = Len(s) - 1
  BY <1>1, HeadTailProperties
<1>3. Len(<<>>) = 0
  BY EmptySeq
<1>. DEFINE tail == Tail(s)
            length == Len(s)
<1>4. length \in Nat /\ length > 1 /\ Len(tail) = length - 1
  BY <1>1, <1>2
<1>. HIDE DEF tail, length
<1>5. tail # <<>>
  BY <1>3, <1>4
<1>. QED
  BY <1>5 DEF tail

LEMMA SoleField ==
    ASSUME NEW s \in Seq(Fields), NEW i \in 1 .. Len(s), s[i] # Head(s), s # <<>>
    PROVE  Len(s) > 1
<1>1. Len(s) \in Nat /\ Head(s) = s[1]
  BY LenProperties, HeadTailProperties
<1>2. i # 1
  BY <1>1
<1>. QED
  BY <1>1, <1>2

LEMMA WriteFieldKeeps ==
    ASSUME LiveInv, ImdInv', NEW t \in Threads, WriteField(t)
    PROVE  LiveInv'
<1>. DEFINE job == jobs[t]
            field == Head(job.fields)
            left == Len(job.fields)
            next == CASE left > 1 -> [job EXCEPT !.fields = Tail(@)]
                      [] left = 1 /\ job.kind = "connect" ->
                             [job EXCEPT !.fields = <<>>, !.at = "poll"]
                      [] OTHER -> NoJob
<1>1. /\ job.at = "mode" /\ mode' = [mode EXCEPT ![field] = Target(job.kind)[field]]
      /\ jobs' = [jobs EXCEPT ![t] = next]
      /\ UNCHANGED <<imdVars, lastFetch, history, latest, running, lastRun,
                     chains, begun, crossed, overlapped>>
  BY DEF WriteField
<1>2. /\ job \in Job /\ job.kind \in Switches /\ job.fields # <<>>
      /\ job.fields \in Seq(Fields)
  BY <1>1, JobFacts DEF LiveInv, JobsShaped, Job
<1>3. field \in Fields
  BY <1>2, HeadTailProperties
<1>0. left \in Nat /\ left >= 1
  BY <1>2, LenProperties, HeadTailProperties
<1>. HIDE DEF left
<1>4. /\ mode' \in [system : {"LIVE", "SIMULATION"}, data : {"HEALTHY", "SYNTHETIC"},
                    ingesting : BOOLEAN, confidence : {"MEDIUM", "HIGH"}]
      /\ mode'[field] = Target(job.kind)[field]
      /\ \A f \in Fields \ {field} : mode'[f] = mode[f]
  <2>1. TypeOK
    BY DEF LiveInv
  <2>2. mode' = [mode EXCEPT ![field] = Target(job.kind)[field]]
    BY <1>1
  <2>. DEFINE kind == job.kind
  <2>3. mode' = [mode EXCEPT ![field] = Target(kind)[field]]
    BY <2>2
  <2>. HIDE DEF field, job, kind
  <2>4. /\ mode' \in [system : {"LIVE", "SIMULATION"}, data : {"HEALTHY", "SYNTHETIC"},
                      ingesting : BOOLEAN, confidence : {"MEDIUM", "HIGH"}]
        /\ mode'[field] = Target(kind)[field]
        /\ \A f \in Fields \ {field} : mode'[f] = mode[f]
    BY <1>3, <2>1, <2>3, FieldWritten
  <2>. QED
    BY <2>4 DEF kind
<1>5. \/ /\ left > 1 /\ next \in Job /\ next.fields = Tail(job.fields)
         /\ next.fields # <<>>
         /\ next.at = "mode" /\ next.kind = job.kind /\ next.quiet = job.quiet
      \/ /\ left = 1 /\ next \in Job /\ next.at = "poll"
         /\ job.kind = "connect" /\ next.kind = job.kind /\ next.quiet = job.quiet
      \/ /\ left = 1 /\ next = NoJob
  <2>1. CASE left > 1
    <3>1. next = [job EXCEPT !.fields = Tail(@)]
      BY <1>0, <2>1
    <3>2. Tail(job.fields) # <<>> /\ Tail(job.fields) \in Seq(Fields)
      BY <1>2, <2>1, TailNonempty, HeadTailProperties DEF left
    <3>. HIDE DEF next
    <3>3. next \in Job
      BY <1>2, <3>1, <3>2 DEF Job
    <3>. QED
      BY <1>1, <1>2, <2>1, <3>1, <3>2, <3>3 DEF Job
  <2>2. CASE left = 1 /\ job.kind = "connect"
    <3>1. next = [job EXCEPT !.fields = <<>>, !.at = "poll"]
      BY <1>0, <2>2
    <3>2. <<>> \in Seq(Fields)
      OBVIOUS
    <3>. HIDE DEF next
    <3>3. next \in Job /\ next.at = "poll" /\ next.kind = job.kind
          /\ next.quiet = job.quiet
      BY <1>2, <3>1, <3>2 DEF Job
    <3>. QED
      BY <2>2, <3>3
  <2>3. CASE left = 1 /\ job.kind # "connect"
    BY <1>0, <2>3
  <2>4. left > 1 \/ left = 1
    BY <1>0
  <2>. HIDE DEF next
  <2>. QED
    BY <2>1, <2>2, <2>3, <2>4
<1>. HIDE DEF next, field
<1>6. /\ next \in Job /\ jobs' \in [Threads -> Job] /\ jobs'[t] = next
      /\ \A u \in Threads \ {t} : jobs'[u] = jobs[u]
  BY <1>1, <1>5, NoJobTyped DEF LiveInv, TypeOK
<1>7. TypeOK'
  BY <1>1, <1>4, <1>6 DEF LiveInv, ImdInv, TypeOK
<1>8. JobsShaped'
  BY <1>2, <1>5, <1>6, NoJobTyped DEF LiveInv, JobsShaped, Switches
<1>9. Forecasting' = Forecasting
  BY <1>1, <1>5, <1>6, NoJobTyped DEF Forecasting
<1>10. Coalesced' /\ ChainTellsMode'
  BY <1>1, <1>9 DEF LiveInv, Coalesced, FlagTellsRunning, ChainTellsMode
<1>11. /\ t \in Switching
       /\ Switching' = IF left > 1 THEN Switching ELSE Switching \ {t}
  <2>1. t \in Switching
    BY <1>1 DEF Switching
  <2>2. next.at = "mode" <=> left > 1
    BY <1>0, <1>5, NoJobTyped
  <2>. QED
    BY <1>6, <2>1, <2>2 DEF Switching
<1>12. ~crossed => \A f \in Fields :
           \/ /\ left > 1
              /\ \E j \in 1 .. Len(Tail(job.fields)) : Tail(job.fields)[j] = f
           \/ mode'[f] = Target(job.kind)[f]
  <2>. SUFFICES ASSUME ~crossed, NEW f \in Fields, mode'[f] # Target(job.kind)[f]
                PROVE  /\ left > 1
                       /\ \E j \in 1 .. Len(Tail(job.fields)) : Tail(job.fields)[j] = f
    OBVIOUS
  <2>1. f # field /\ mode'[f] = mode[f]
    BY <1>4
  <2>2. Pending(job, f)
    BY <1>11, <2>1 DEF LiveInv, SwitchesApart
  <2>3. \E j \in 1 .. Len(Tail(job.fields)) : Tail(job.fields)[j] = f
    BY <1>2, <2>1, <2>2, OneFewer DEF Pending, field
  <2>4. left > 1
    BY <1>2, <2>1, <2>2, SoleField DEF Pending, field, left
  <2>. QED
    BY <2>3, <2>4
<1>13. ~crossed => \A u \in Switching : u = t
  BY <1>11 DEF LiveInv, SwitchesApart
<1>14. ~crossed /\ left = 1 => mode' = Target(job.kind)
  BY <1>4, <1>12, ModeWhole
<1>15. SwitchesApart'
  <2>. SUFFICES ASSUME ~crossed
                PROVE  /\ \A u, v \in Switching' : u = v
                       /\ \A u \in Switching' : \A f \in Fields :
                              \/ Pending(jobs'[u], f)
                              \/ mode'[f] = Target(jobs'[u].kind)[f]
    BY <1>1 DEF SwitchesApart, Pending
  <2>1. \A u \in Switching' : u = t /\ left > 1
    BY <1>11, <1>13
  <2>2. left > 1 =>
            /\ jobs'[t].fields = Tail(job.fields) /\ jobs'[t].kind = job.kind
    BY <1>0, <1>5, <1>6
  <2>3. left > 1 =>
            \A f \in Fields : \/ Pending(jobs'[t], f)
                             \/ mode'[f] = Target(jobs'[t].kind)[f]
    BY <1>12, <2>2 DEF Pending
  <2>. QED
    BY <2>1, <2>3
<1>16. ModeSettles'
  <2>. SUFFICES ASSUME Switching' = {}, ~crossed
                PROVE  mode' \in {LiveMode, SimulationMode}
    BY <1>1 DEF ModeSettles
  <2>1. left = 1
    BY <1>0, <1>11
  <2>2. mode' = Target(job.kind)
    BY <1>14, <2>1
  <2>. QED
    BY <2>2, ModeFields
<1>17. Undisturbed'
  <2>. SUFFICES ASSUME NEW u \in Threads, jobs'[u].quiet
                PROVE  /\ ~crossed /\ Switching' \subseteq {u}
                       /\ jobs'[u].kind = "connect" /\ jobs'[u].at # "mode" =>
                              mode' = LiveMode
                       /\ jobs'[u].at \notin {"data", "read", "iterate"}
    BY <1>1 DEF Undisturbed
  <2>1. u = t
    BY <1>6, <1>11 DEF LiveInv, Undisturbed
  <2>2. jobs[t].quiet /\ next # NoJob
    BY <1>5, <1>6, <2>1, NoJobTyped
  <2>3. ~crossed /\ Switching \subseteq {t}
    BY <2>2 DEF LiveInv, Undisturbed
  <2>4. job.kind = "connect" => Target(job.kind) = LiveMode
    BY DEF Target
  <2>. QED
    BY <1>5, <1>6, <1>11, <1>14, <2>1, <2>2, <2>3, <2>4
<1>. QED
  BY <1>7, <1>8, <1>10, <1>15, <1>16, <1>17 DEF LiveInv

LEMMA OrderComplete ==
    ASSUME NEW kind
    PROVE  /\ SwitchOrder(kind) \in Seq(Fields) /\ SwitchOrder(kind) # <<>>
           /\ \A f \in Fields : \E i \in 1 .. Len(SwitchOrder(kind)) :
                  SwitchOrder(kind)[i] = f
<1>1. CASE kind = "connect"
  BY <1>1, ModeFields DEF SwitchOrder
<1>2. CASE kind # "connect"
  BY <1>2, ModeFields DEF SwitchOrder
<1>. QED
  BY <1>1, <1>2

LEMMA Disturbed ==
    ASSUME NEW job \in Job, NEW new, new = [job EXCEPT !.quiet = FALSE]
    PROVE  /\ new \in Job /\ new.at = job.at /\ new.kind = job.kind
           /\ new.fields = job.fields /\ new.polls = job.polls
           /\ new.system = job.system /\ new.data = job.data /\ ~new.quiet
<1>1. new \in Job
  BY DEF Job
<1>. QED
  BY DEF Job

LEMMA BeginKeeps ==
    ASSUME LiveInv, ImdInv', NEW t \in Threads, NEW kind \in Kinds, Begin(t, kind)
    PROVE  LiveInv'
<1>. DEFINE quiet == Switching = {} /\ (kind \in Switches \/ ~crossed)
            job == Started(kind, quiet)
<1>1. /\ jobs[t].kind = "none" /\ begun' = begun + 1
      /\ crossed' = IF kind \in Switches THEN Switching # {} ELSE crossed
      /\ jobs' = [u \in Threads |->
             IF u = t THEN job
             ELSE IF kind \in Switches THEN [jobs[u] EXCEPT !.quiet = FALSE]
             ELSE jobs[u]]
      /\ UNCHANGED <<mode, lastFetch, history, latest, running, lastRun,
                     chains, overlapped>>
  BY DEF Begin
<1>2. jobs \in [Threads -> Job] /\ jobs[t].at = "idle" /\ clock \in Nat
  BY <1>1, JobFacts DEF LiveInv, TypeOK
<1>3. SwitchOrder(kind) \in Seq(Fields) /\ SwitchOrder(kind) # <<>>
  BY OrderComplete
<1>4. /\ job \in Job /\ job.kind = kind /\ job.quiet = quiet
      /\ job.at = IF kind \in Switches THEN "mode" ELSE "poll"
      /\ kind \in Switches => job.fields = SwitchOrder(kind)
  <2>1. PollsOf(kind) \in Seq(AllSources) /\ <<>> \in Seq(Fields)
    BY SourceFacts
  <2>2. (IF kind = "cycle" THEN clock ELSE 0) \in Nat
    BY <1>2
  <2>. HIDE DEF quiet
  <2>3. (quiet \in BOOLEAN) /\ NoJob \in Job
    BY NoJobTyped DEF quiet
  <2>4. job \in Job
    BY <1>3, <2>1, <2>2, <2>3 DEF Started, Job
  <2>5. /\ job.kind = kind /\ job.quiet = quiet
        /\ job.at = IF kind \in Switches THEN "mode" ELSE "poll"
        /\ job.fields = IF kind \in Switches THEN SwitchOrder(kind) ELSE <<>>
    BY <2>3 DEF Started, NoJob
  <2>. HIDE DEF job
  <2>. QED
    BY <2>4, <2>5
<1>. HIDE DEF job
<1>5. /\ jobs'[t] = job
      /\ \A u \in Threads \ {t} :
             /\ jobs'[u] \in Job /\ jobs'[u].at = jobs[u].at
             /\ jobs'[u].kind = jobs[u].kind /\ jobs'[u].fields = jobs[u].fields
             /\ jobs'[u].polls = jobs[u].polls /\ jobs'[u].system = jobs[u].system
             /\ jobs'[u].data = jobs[u].data
             /\ jobs'[u].quiet => kind \notin Switches /\ jobs[u].quiet
  <2>1. jobs'[t] = job
    BY <1>1
  <2>2. ASSUME NEW u \in Threads \ {t}
        PROVE  jobs'[u] = IF kind \in Switches THEN [jobs[u] EXCEPT !.quiet = FALSE]
                                               ELSE jobs[u]
    BY <1>1, <2>2
  <2>3. \A u \in Threads : jobs[u] \in Job
    BY <1>2
  <2>4. ASSUME NEW u \in Threads \ {t}, kind \in Switches
        PROVE  /\ jobs'[u] \in Job /\ jobs'[u].at = jobs[u].at
               /\ jobs'[u].kind = jobs[u].kind /\ jobs'[u].fields = jobs[u].fields
               /\ jobs'[u].polls = jobs[u].polls /\ jobs'[u].system = jobs[u].system
               /\ jobs'[u].data = jobs[u].data /\ ~jobs'[u].quiet
    <3>1. jobs'[u] = [jobs[u] EXCEPT !.quiet = FALSE] /\ jobs[u] \in Job
      BY <2>2, <2>3, <2>4
    <3>. QED
      BY <3>1, Disturbed
  <2>6. CASE kind \in Switches
    BY <2>1, <2>4, <2>6
  <2>7. CASE kind \notin Switches
    BY <2>1, <2>2, <2>3, <2>7
  <2>. QED
    BY <2>6, <2>7
<1>6. TypeOK'
  <2>1. jobs' \in [Threads -> Job]
    BY <1>1, <1>4, <1>5
  <2>2. begun' \in Nat /\ crossed' \in BOOLEAN
    <3>1. begun \in Nat /\ crossed \in BOOLEAN
      BY DEF LiveInv, TypeOK
    <3>2. begun' = begun + 1
      BY <1>1
    <3>3. CASE kind \in Switches
      <4>1. crossed' = (Switching # {})
        BY <1>1, <3>3
      <4>. QED
        BY <3>1, <3>2, <4>1
    <3>4. CASE kind \notin Switches
      <4>1. crossed' = crossed
        BY <1>1, <3>4
      <4>. QED
        BY <3>1, <3>2, <4>1
    <3>. QED
      BY <3>3, <3>4
  <2>. QED
    BY <1>1, <2>1, <2>2 DEF LiveInv, ImdInv, TypeOK
<1>7. JobsShaped'
  BY <1>3, <1>4, <1>5 DEF LiveInv, JobsShaped, Kinds, Switches
<1>8. Forecasting' = Forecasting
  BY <1>2, <1>4, <1>5 DEF Forecasting
<1>9. Coalesced' /\ ChainTellsMode'
  BY <1>1, <1>8 DEF LiveInv, Coalesced, FlagTellsRunning, ChainTellsMode
<1>10. /\ Switching' = IF kind \in Switches THEN Switching \cup {t} ELSE Switching
       /\ t \notin Switching
  BY <1>2, <1>4, <1>5 DEF Switching
<1>11. \A u \in Switching : \A f : Pending(jobs[u], f) => Pending(jobs'[u], f)
  BY <1>5, <1>10 DEF Switching, Pending
<1>12. SwitchesApart'
  <2>1. CASE kind \in Switches
    <3>1. ~crossed' => Switching' = {t}
      BY <1>1, <1>10, <2>1
    <3>2. \A f \in Fields : Pending(jobs'[t], f)
      BY <1>4, <1>5, <2>1, OrderComplete DEF Pending
    <3>. QED
      BY <3>1, <3>2 DEF SwitchesApart, Pending
  <2>2. CASE kind \notin Switches
    BY <1>1, <1>5, <1>10, <1>11, <2>2 DEF LiveInv, SwitchesApart, Switching, Pending
  <2>. QED
    BY <2>1, <2>2
<1>13. ModeSettles'
  BY <1>1, <1>10 DEF LiveInv, ModeSettles
<1>14. Undisturbed'
  <2>. SUFFICES ASSUME NEW u \in Threads, jobs'[u].quiet
                PROVE  /\ ~crossed' /\ Switching' \subseteq {u}
                       /\ jobs'[u].kind = "connect" /\ jobs'[u].at # "mode" =>
                              mode = LiveMode
                       /\ jobs'[u].at \in {"data", "read", "iterate"} =>
                              jobs'[u].system = mode.system
                       /\ jobs'[u].at \in {"read", "iterate"} =>
                              jobs'[u].data = mode.data
    BY <1>1 DEF Undisturbed
  <2>1. CASE u = t
    <3>1. Switching = {} /\ (kind \in Switches \/ ~crossed)
      BY <1>4, <1>5, <2>1
    <3>. QED
      BY <1>1, <1>4, <1>5, <1>10, <2>1, <3>1 DEF Switches
  <2>2. CASE u # t
    BY <1>1, <1>5, <1>10, <2>2 DEF LiveInv, Undisturbed
  <2>. QED
    BY <2>1, <2>2
<1>. QED
  BY <1>6, <1>7, <1>9, <1>12, <1>13, <1>14 DEF LiveInv

LEMMA RestKeeps ==
    ASSUME LiveInv, ImdInv', UNCHANGED liveVars
    PROVE  LiveInv'
<1>1. TypeOK'
  BY DEF LiveInv, ImdInv, TypeOK, liveVars
<1>. QED
  BY <1>1 DEF LiveInv, JobsShaped, Coalesced, FlagTellsRunning, Forecasting,
              SwitchesApart, Switching, Pending, ModeSettles, Undisturbed,
              ChainTellsMode, liveVars

LEMMA LiveStep == LiveInv /\ [Next]_vars => LiveInv' /\ RowsKept
<1>. SUFFICES ASSUME LiveInv, [Next]_vars PROVE LiveInv' /\ RowsKept
  OBVIOUS
<1>1. ImdInv' /\ RowsKept
  BY StepIsImd, ImdStep DEF LiveInv, ImdInv, ImdTypeOK
<1>2. CASE Elapse
  BY <1>1, <1>2, RestKeeps DEF Elapse
<1>3. ASSUME NEW t \in Threads, Step(t) PROVE LiveInv'
  BY <1>1, <1>3, PollSteps, FetchEnds, ForecastSteps, SilentKeeps, StartForecastKeeps,
     KeepChainKeeps, ReleaseKeeps, WriteFieldKeeps, RestKeeps DEF Step, Fetching
<1>4. ASSUME NEW t \in Threads, NEW kind \in Kinds, Begin(t, kind) PROVE LiveInv'
  BY <1>1, <1>4, BeginKeeps
<1>5. CASE UNCHANGED vars
  BY <1>1, <1>5, RestKeeps DEF vars
<1>. QED
  BY <1>1, <1>2, <1>3, <1>4, <1>5 DEF Next

LEMMA LiveInvariant == Spec => []LiveInv
<1>1. LiveInv /\ [Next]_vars => LiveInv'
  BY LiveStep
<1>. QED
  BY InitLive, <1>1, PTL DEF Spec
-----------------------------------------------------------------------------
(* Live operation uses the weather stations as ImdAws says they are used:   *)
(* every behaviour of it is one of ImdAws.                                  *)
THEOREM ImplementsImd == Spec => ImdSpec
<1>1. Init => ImdInit
  BY DEF Init
<1>2. LiveInv /\ [Next]_vars => [ImdNext]_imdVars
  BY StepIsImd DEF LiveInv, ImdInv, ImdTypeOK
<1>. QED
  BY <1>1, <1>2, LiveInvariant, PTL DEF Spec, ImdSpec

(* The variables of the sources and of live operation keep their types, in  *)
(* every state the interleavings of any number of requests reach.           *)
THEOREM TypeCorrect == Spec => []TypeOK
<1>1. LiveInv => TypeOK
  BY DEF LiveInv
<1>. QED
  BY <1>1, LiveInvariant, PTL

(* A fetch of the weather stations that fails reports a failure that some   *)
(* request met while it was requesting, though the category it takes when   *)
(* its attempts run out is kept in a client that every thread writes        *)
(* (IMDAWSClient.fetch_raw_data).                                           *)
THEOREM FailuresOfTheirTime == Spec => []ResultOfItsTime
<1>1. LiveInv => ResultOfItsTime
  BY DEF LiveInv, ImdInv
<1>. QED
  BY <1>1, LiveInvariant, PTL

(* A stored observation has its station, and the identity its own record    *)
(* had when it was retrieved.                                               *)
THEOREM RowsTraced == Spec => []RowsTraceable
<1>1. LiveInv => RowsTraceable
  BY DEF LiveInv, ImdInv
<1>. QED
  BY <1>1, LiveInvariant, PTL

(* No step deletes an observation or puts another in its place.             *)
THEOREM RowsStay == Spec => ObservationsKept
<1>1. LiveInv /\ [Next]_vars => [RowsKept]_rows
  BY LiveStep
<1>. QED
  BY <1>1, LiveInvariant, PTL DEF Spec, ObservationsKept

(* _is_forecast_running is set only while a forecast is under way, and      *)
(* while one is, unless forced ones overlapped.                             *)
THEOREM FlagTrue == Spec => []FlagTellsRunning
<1>1. LiveInv => FlagTellsRunning
  BY DEF LiveInv, Coalesced
<1>. QED
  BY <1>1, LiveInvariant, PTL

(* Switches of the mode that do not overlap leave it whole.                 *)
THEOREM ModeWholeAgain == Spec => []ModeSettles
<1>1. LiveInv => ModeSettles
  BY DEF LiveInv
<1>. QED
  BY <1>1, LiveInvariant, PTL

(* The provenance of a forecast that no switch disturbed names the one mode *)
(* the system was in; that of an operator's connect, the live one.          *)
THEOREM ProvenanceTrue == Spec => []ChainTellsMode
<1>1. LiveInv => ChainTellsMode
  BY DEF LiveInv
<1>. QED
  BY <1>1, LiveInvariant, PTL
-----------------------------------------------------------------------------
(*                     The sockets of the live feed                        *)

(* A client that is there is listed, so that every broadcast begun from now *)
(* on has it before it; no event is of a version to come.                   *)
LiveListed == \A s \in Sockets : phase[s] = "open" /\ s \notin gone => Listed(s)
VersionsPast == Len(log) <= MaxStored /\ \A i \in DOMAIN log : log[i] <= version
NotYetAsked == \A s \in Sockets : phase[s] \in {"new", "accepting"} => since[s] = Behind

ClientsInv ==
    ClientsTypeOK /\ LiveListed /\ VersionsPast /\ NotYetAsked /\ NothingMissed

LEMMA InTail ==
    ASSUME NEW S, NEW q \in Seq(S), q # <<>>, NEW x \in Range(q), x # Head(q)
    PROVE  x \in Range(Tail(q))
<1>1. PICK i \in DOMAIN q : q[i] = x
  BY DEF Range
<1>2. /\ Tail(q) \in Seq(S) /\ Len(Tail(q)) = Len(q) - 1 /\ Head(q) = q[1]
      /\ \A j \in 1 .. Len(Tail(q)) : Tail(q)[j] = q[j + 1]
  BY HeadTailProperties
<1>3. Len(q) \in Nat /\ DOMAIN q = 1 .. Len(q) /\ DOMAIN Tail(q) = 1 .. Len(Tail(q))
  BY <1>2, LenProperties
<1>4. i # 1
  BY <1>1, <1>2
<1>. DEFINE rest == Tail(q)
            length == Len(q)
<1>5. /\ length \in Nat /\ DOMAIN rest = 1 .. (length - 1) /\ i \in 1 .. length
      /\ \A j \in 1 .. (length - 1) : rest[j] = q[j + 1]
  BY <1>2, <1>3
<1>. HIDE DEF rest, length
<1>6. i - 1 \in DOMAIN rest /\ rest[i - 1] = q[i - 1 + 1]
  BY <1>4, <1>5
<1>7. rest[i - 1] = x
  BY <1>1, <1>5, <1>6
<1>. QED
  BY <1>6, <1>7 DEF Range, rest

LEMMA InAppend ==
    ASSUME NEW S, NEW q \in Seq(S), NEW e \in S
    PROVE  /\ Append(q, e) \in Seq(S) /\ e \in Range(Append(q, e))
           /\ Range(q) \subseteq Range(Append(q, e))
<1>1. /\ Append(q, e) \in Seq(S) /\ Len(Append(q, e)) = Len(q) + 1
      /\ \A i \in 1 .. Len(q) : Append(q, e)[i] = q[i]
      /\ Append(q, e)[Len(q) + 1] = e
  BY AppendProperties
<1>2. /\ Len(q) \in Nat /\ DOMAIN q = 1 .. Len(q)
      /\ DOMAIN Append(q, e) = 1 .. Len(Append(q, e))
  BY <1>1, LenProperties
<1>. DEFINE longer == Append(q, e)
            length == Len(q)
<1>3. /\ length \in Nat /\ DOMAIN q = 1 .. length /\ DOMAIN longer = 1 .. (length + 1)
      /\ \A i \in 1 .. length : longer[i] = q[i]
      /\ longer[length + 1] = e
  BY <1>1, <1>2
<1>. HIDE DEF longer, length
<1>4. e \in Range(longer)
  BY <1>3 DEF Range
<1>5. Range(q) \subseteq Range(longer)
  BY <1>3 DEF Range
<1>. QED
  BY <1>1, <1>4, <1>5 DEF longer

LEMMA InRemoveAt ==
    ASSUME NEW S, NEW q \in Seq(S), NEW i \in DOMAIN q
    PROVE  /\ RemoveAt(q, i) \in Seq(S)
           /\ \A x \in Range(q) : x # q[i] => x \in Range(RemoveAt(q, i))
<1>. DEFINE n == Len(q)
            before == SubSeq(q, 1, i - 1)
            after == SubSeq(q, i + 1, n)
<1>1. n \in Nat /\ i \in 1 .. n /\ DOMAIN q = 1 .. n /\ \A k \in 1 .. n : q[k] \in S
  BY LenProperties, ElementOfSeq
<1>2. /\ before \in Seq(S) /\ Len(before) = i - 1
      /\ \A k \in 1 .. (i - 1) : before[k] = q[k]
  <2>1. \A k \in 1 .. (i - 1) : q[k] \in S
    BY <1>1
  <2>2. 1 \in Int /\ i - 1 \in Int
    BY <1>1
  <2>3. /\ SubSeq(q, 1, i - 1) \in Seq(S)
        /\ Len(SubSeq(q, 1, i - 1)) = IF 1 <= i - 1 THEN (i - 1) - 1 + 1 ELSE 0
        /\ \A k \in 1 .. ((i - 1) - 1 + 1) : SubSeq(q, 1, i - 1)[k] = q[1 + k - 1]
    BY <2>1, <2>2, SubSeqProperties
  <2>. HIDE DEF before
  <2>4. before = SubSeq(q, 1, i - 1)
    BY DEF before
  <2>. QED
    BY <1>1, <2>3, <2>4
<1>3. /\ after \in Seq(S) /\ Len(after) = n - i
      /\ \A k \in 1 .. (n - i) : after[k] = q[i + k]
  <2>1. \A k \in (i + 1) .. n : q[k] \in S
    BY <1>1
  <2>2. i + 1 \in Int /\ n \in Int
    BY <1>1
  <2>3. /\ SubSeq(q, i + 1, n) \in Seq(S)
        /\ Len(SubSeq(q, i + 1, n)) = IF i + 1 <= n THEN n - (i + 1) + 1 ELSE 0
        /\ \A k \in 1 .. (n - (i + 1) + 1) : SubSeq(q, i + 1, n)[k] = q[(i + 1) + k - 1]
    BY <2>1, <2>2, SubSeqProperties
  <2>. HIDE DEF after, n
  <2>4. after = SubSeq(q, i + 1, n)
    BY DEF after
  <2>. QED
    BY <1>1, <2>3, <2>4
<1>. HIDE DEF before, after, n
<1>. DEFINE both == before \o after
<1>4. /\ both \in Seq(S) /\ Len(both) = (i - 1) + (n - i)
      /\ \A k \in 1 .. ((i - 1) + (n - i)) :
             both[k] = IF k <= i - 1 THEN before[k] ELSE after[k - (i - 1)]
  <2>1. /\ both \in Seq(S) /\ Len(both) = Len(before) + Len(after)
        /\ \A k \in 1 .. (Len(before) + Len(after)) :
               both[k] = IF k <= Len(before) THEN before[k] ELSE after[k - Len(before)]
    BY <1>2, <1>3, ConcatProperties
  <2>. HIDE DEF both
  <2>. QED
    BY <1>2, <1>3, <2>1
<1>5. DOMAIN both = 1 .. (n - 1)
  <2>1. DOMAIN both = 1 .. Len(both)
    BY <1>4, LenProperties
  <2>2. Len(both) = n - 1
    BY <1>1, <1>4
  <2>. QED
    BY <2>1, <2>2
<1>. HIDE DEF both
<1>6. ASSUME NEW x \in Range(q), x # q[i] PROVE x \in Range(both)
  <2>1. PICK k \in 1 .. n : q[k] = x
    BY <1>1 DEF Range
  <2>2. CASE k < i
    <3>1. k \in 1 .. (n - 1) /\ both[k] = before[k] /\ before[k] = q[k]
      BY <1>1, <1>2, <1>4, <2>2
    <3>. QED
      BY <1>5, <2>1, <3>1 DEF Range
  <2>3. CASE k > i
    <3>1. k - 1 \in 1 .. (n - 1) /\ both[k - 1] = after[(k - 1) - (i - 1)]
      BY <1>1, <1>4, <2>3
    <3>2. (k - 1) - (i - 1) = k - i /\ k - i \in 1 .. (n - i)
      BY <1>1, <2>3
    <3>3. after[k - i] = q[i + (k - i)]
      BY <1>3, <3>2
    <3>4. i + (k - i) = k
      BY <1>1
    <3>. QED
      BY <1>5, <2>1, <3>1, <3>2, <3>3, <3>4 DEF Range
  <2>4. k # i
    BY <1>6, <2>1
  <2>. QED
    BY <1>1, <2>2, <2>3, <2>4
<1>7. RemoveAt(q, i) = both
  BY DEF RemoveAt, both, before, after, n
<1>. QED
  BY <1>4, <1>6, <1>7

(* disconnect unlists the socket and no other *)
LEMMA OnlyUnlisted ==
    ASSUME ClientsInv, NEW s \in Sockets
    PROVE  /\ Unlisted(s) \in Seq(Sockets)
           /\ \A u : Listed(u) /\ u # s => u \in Range(Unlisted(s))
<1>1. active \in Seq(Sockets)
  BY DEF ClientsInv, ClientsTypeOK
<1>2. CASE Listed(s)
  <2>. DEFINE i == CHOOSE k \in DOMAIN active : active[k] = s
  <2>1. i \in DOMAIN active /\ active[i] = s
    BY <1>2 DEF Listed, Range
  <2>2. Unlisted(s) = RemoveAt(active, i)
    BY <1>2 DEF Unlisted
  <2>. HIDE DEF i
  <2>. QED
    BY <1>1, <2>1, <2>2, InRemoveAt DEF Listed
<1>3. CASE ~Listed(s)
  BY <1>1, <1>3 DEF Unlisted, Listed
<1>. QED
  BY <1>2, <1>3

LEMMA ClientsInitInv == ClientsInit => ClientsInv
<1>. SUFFICES ASSUME ClientsInit PROVE ClientsInv
  OBVIOUS
<1>1. ClientsTypeOK
  <2>1. NoCast \in Cast
    BY DEF NoCast, Cast
  <2>. QED
    BY <2>1 DEF ClientsInit, ClientsTypeOK
<1>2. LiveListed /\ NotYetAsked /\ NothingMissed
  BY DEF ClientsInit, LiveListed, NotYetAsked, NothingMissed
<1>3. VersionsPast
  BY ClientsAssumption DEF ClientsInit, VersionsPast
<1>. QED
  BY <1>1, <1>2, <1>3 DEF ClientsInv

(* What NothingMissed asks of one client and one event *)
Owed(s, i) ==
    /\ phase[s] = "open" /\ s \notin gone /\ since[s] # Behind
    /\ i \in Newer(since[s]) /\ casts[i].at # "none"

LEMMA OwedReached ==
    /\ NothingMissed <=> \A s \in Sockets : \A i : Owed(s, i) => Reaches(i, s)
    /\ NothingMissed' <=> \A s \in Sockets : \A i : Owed(s, i)' => Reaches(i, s)'
  BY DEF NothingMissed, Owed

LEMMA ClientsFacts ==
    ASSUME ClientsInv
    PROVE  /\ version \in Nat /\ Len(log) \in Nat /\ DOMAIN log = 1 .. Len(log)
           /\ DOMAIN log \subseteq Messages \ {Periodic}
           /\ Messages = 0 .. MaxStored /\ active \in Seq(Sockets)
           /\ casts \in [Messages -> Cast]
           /\ \A m \in Messages : casts[m].todo \in Seq(Sockets)
<1>1. version \in Nat /\ log \in Seq(Nat) /\ active \in Seq(Sockets)
      /\ casts \in [Messages -> Cast]
  BY DEF ClientsInv, ClientsTypeOK
<1>2. Len(log) \in Nat /\ DOMAIN log = 1 .. Len(log)
  BY <1>1, LenProperties
<1>3. MaxStored \in Nat /\ Messages = 0 .. MaxStored
  BY ClientsAssumption DEF Messages, Periodic
<1>4. Len(log) <= MaxStored
  BY DEF ClientsInv, VersionsPast
<1>5. DOMAIN log \subseteq Messages \ {Periodic}
  BY <1>2, <1>3, <1>4 DEF Periodic
<1>6. \A m \in Messages : casts[m].todo \in Seq(Sockets)
  BY <1>1 DEF Cast
<1>. QED
  BY <1>1, <1>2, <1>3, <1>5, <1>6

(* Clients that come and go, and versions: no event is sent or stored       *)
LEMMA ComingAndGoing ==
    ASSUME ClientsInv,
           \/ NewVersion
           \/ \E s \in Sockets : \/ Arrive(s) \/ Accept(s) \/ AcceptFails(s)
                                 \/ EndpointEnds(s) \/ PeerLeaves(s)
    PROVE  ClientsInv'
<1>1. CASE NewVersion
  <2>1. /\ version' = version + 1
        /\ UNCHANGED <<phase, gone, active, log, casts, catching, since, inbox>>
    BY <1>1 DEF NewVersion
  <2>2. ClientsTypeOK' /\ VersionsPast'
    <3>1. \A i \in DOMAIN log : log[i] \in Nat
      BY ElementOfSeq, ClientsFacts DEF ClientsInv, ClientsTypeOK
    <3>2. version' \in Nat /\ version <= version'
      BY <2>1, ClientsFacts
    <3>3. \A i \in DOMAIN log : log[i] <= version'
      BY <3>1, <3>2, ClientsFacts DEF ClientsInv, VersionsPast
    <3>. QED
      BY <2>1, <3>2, <3>3 DEF ClientsInv, ClientsTypeOK, VersionsPast
  <2>3. LiveListed' /\ NotYetAsked'
    BY <2>1 DEF ClientsInv, LiveListed, NotYetAsked, Listed
  <2>4. NothingMissed'
    BY <2>1 DEF ClientsInv, NothingMissed, Newer, Reaches, Listed
  <2>. QED
    BY <2>2, <2>3, <2>4 DEF ClientsInv
<1>2. ASSUME NEW s \in Sockets,
             \/ Arrive(s) \/ Accept(s) \/ AcceptFails(s)
             \/ EndpointEnds(s) \/ PeerLeaves(s)
      PROVE  ClientsInv'
  <2>1. UNCHANGED <<version, log, casts, catching>>
    BY <1>2 DEF Arrive, Accept, AcceptFails, EndpointEnds, PeerLeaves
  <2>2. /\ phase' \in [Sockets -> {"new", "accepting", "open", "closed"}]
        /\ gone' \subseteq Sockets /\ gone \subseteq gone'
        /\ active' \in Seq(Sockets)
        /\ since' \in [Sockets -> Nat \cup {Behind}]
        /\ inbox' \in [Sockets -> SUBSET (Messages \ {Periodic})]
    <3>1. active' \in Seq(Sockets)
      <4>1. active \in Seq(Sockets) /\ Append(active, s) \in Seq(Sockets)
            /\ Unlisted(s) \in Seq(Sockets)
        BY ClientsFacts, OnlyUnlisted, InAppend
      <4>2. active' \in {active, Append(active, s), Unlisted(s)}
        BY <1>2 DEF Arrive, Accept, AcceptFails, EndpointEnds, PeerLeaves
      <4>. QED
        BY <4>1, <4>2
    <3>. QED
      BY <1>2, <3>1
      DEF Arrive, Accept, AcceptFails, EndpointEnds, PeerLeaves, ClientsInv, ClientsTypeOK
  <2>3. ClientsTypeOK' /\ VersionsPast'
    BY <2>1, <2>2 DEF ClientsInv, ClientsTypeOK, VersionsPast
  <2>4. \A u \in Sockets \ gone' : Listed(u) => Listed(u)'
    <3>1. CASE Accept(s)
      BY <3>1, ClientsFacts, InAppend DEF Accept, Listed
    <3>2. CASE EndpointEnds(s)
      BY <3>2, OnlyUnlisted DEF EndpointEnds, Listed
    <3>3. CASE Arrive(s) \/ AcceptFails(s) \/ PeerLeaves(s)
      BY <3>3 DEF Arrive, AcceptFails, PeerLeaves, Listed
    <3>. QED
      BY <1>2, <3>1, <3>2, <3>3
  <2>5. \A u \in Sockets \ gone' :
            /\ since'[u] = since[u] /\ inbox'[u] = inbox[u]
            /\ phase'[u] = "open" =>
                   phase[u] = "open" \/ (Listed(u)' /\ since[u] = Behind)
    <3>. SUFFICES ASSUME NEW u \in Sockets \ gone'
                  PROVE  /\ since'[u] = since[u] /\ inbox'[u] = inbox[u]
                         /\ phase'[u] = "open" =>
                              phase[u] = "open" \/ (u \in Range(active') /\ since[u] = Behind)
      BY DEF Listed
    <3>0. /\ phase \in [Sockets -> {"new", "accepting", "open", "closed"}]
          /\ since \in [Sockets -> Nat \cup {Behind}]
          /\ inbox \in [Sockets -> SUBSET (Messages \ {Periodic})]
      BY DEF ClientsInv, ClientsTypeOK
    <3>1. CASE Accept(s)
      <4>1. /\ phase' = [phase EXCEPT ![s] = "open"] /\ phase[s] = "accepting"
            /\ active' = Append(active, s) /\ UNCHANGED <<since, inbox>>
        BY <3>1 DEF Accept
      <4>2. s \in Range(active') /\ since[s] = Behind
        BY <4>1, ClientsFacts, InAppend DEF ClientsInv, NotYetAsked
      <4>. QED
        BY <3>0, <4>1, <4>2
    <3>2. CASE PeerLeaves(s)
      <4>1. /\ since' = [since EXCEPT ![s] = Behind] /\ inbox' = [inbox EXCEPT ![s] = {}]
            /\ s \in gone' /\ UNCHANGED phase
        BY <3>2 DEF PeerLeaves
      <4>. QED
        BY <3>0, <4>1
    <3>3. CASE Arrive(s) \/ AcceptFails(s) \/ EndpointEnds(s)
      <4>1. /\ UNCHANGED <<since, inbox>>
            /\ \E p \in {"closed", "accepting"} : phase' = [phase EXCEPT ![s] = p]
        BY <3>3 DEF Arrive, AcceptFails, EndpointEnds
      <4>. QED
        BY <3>0, <4>1
    <3>. QED
      BY <1>2, <3>1, <3>2, <3>3
  <2>6. LiveListed'
    BY <2>2, <2>4, <2>5 DEF ClientsInv, LiveListed
  <2>7. NotYetAsked'
    BY <1>2
    DEF Arrive, Accept, AcceptFails, EndpointEnds, PeerLeaves, ClientsInv, ClientsTypeOK,
        NotYetAsked
  <2>8. NothingMissed'
    <3>. SUFFICES ASSUME NEW u \in Sockets, NEW i, Owed(u, i)' PROVE Reaches(i, u)'
      BY OwedReached
    <3>1. u \in Sockets \ gone' /\ since'[u] # Behind /\ phase'[u] = "open"
      BY DEF Owed
    <3>2. Owed(u, i)
      BY <2>1, <2>2, <2>5, <3>1 DEF Owed, Newer
    <3>3. Reaches(i, u)
      BY <3>2, OwedReached DEF ClientsInv
    <3>. QED
      BY <2>1, <2>4, <2>5, <3>1, <3>3 DEF Reaches
  <2>. QED
    BY <2>3, <2>6, <2>7, <2>8 DEF ClientsInv
<1>. QED
  BY <1>1, <1>2

(* A new event, and broadcasts: whoever is listed is before them            *)
LEMMA Broadcasting ==
    ASSUME ClientsInv,
           \/ \E v \in 0 .. version, shed \in BOOLEAN : StoreEvent(v, shed)
           \/ PeriodicDue
           \/ \E m \in Messages : StartCast(m)
    PROVE  ClientsInv'
<1>0. /\ casts \in [Messages -> Cast] /\ active \in Seq(Sockets) /\ log \in Seq(Nat)
      /\ Messages = 0 .. MaxStored /\ MaxStored \in Nat
  BY ClientsAssumption, ClientsFacts DEF ClientsInv, ClientsTypeOK
<1>1. ASSUME NEW v \in 0 .. version, NEW shed \in BOOLEAN, StoreEvent(v, shed)
      PROVE  ClientsInv'
  <2>. DEFINE new == Len(log) + 1
  <2>1. /\ Len(log) < MaxStored /\ log' = Append(log, v)
        /\ casts' = [casts EXCEPT ![new].at = IF shed THEN "none" ELSE "queued"]
        /\ UNCHANGED <<phase, gone, active, version, catching, since, inbox>>
    BY <1>1 DEF StoreEvent
  <2>2. v \in Nat /\ v <= version /\ version \in Nat /\ Len(log) \in Nat
    BY ClientsFacts
  <2>3. /\ log' \in Seq(Nat) /\ Len(log') = new /\ DOMAIN log' = 1 .. new
        /\ \A i \in 1 .. Len(log) : log'[i] = log[i]
        /\ log'[new] = v /\ DOMAIN log = 1 .. Len(log)
    BY <1>0, <2>1, <2>2, AppendProperties, LenProperties
  <2>4. new \in Messages
    BY <1>0, <2>1, <2>2
  <2>. HIDE DEF new
  <2>5. /\ casts' \in [Messages -> Cast]
        /\ \A m \in Messages \ {new} : casts'[m] = casts[m]
        /\ casts'[new].at \in {"none", "queued"} /\ casts'[new].todo = casts[new].todo
    BY <1>0, <2>1, <2>4 DEF Cast
  <2>6. ClientsTypeOK'
    BY <2>1, <2>3, <2>5 DEF ClientsInv, ClientsTypeOK
  <2>7. VersionsPast'
    <3>1. Len(log') <= MaxStored
      BY <1>0, <2>1, <2>2, <2>3 DEF new
    <3>2. \A i \in 1 .. new : log'[i] <= version
      <4>. SUFFICES ASSUME NEW i \in 1 .. new PROVE log'[i] <= version
        OBVIOUS
      <4>1. CASE i = new
        BY <2>2, <2>3, <4>1
      <4>2. CASE i # new
        <5>1. i \in 1 .. Len(log)
          BY <2>2, <4>2 DEF new
        <5>. QED
          BY <2>3, <5>1 DEF ClientsInv, VersionsPast
      <4>. QED
        BY <4>1, <4>2
    <3>. QED
      BY <2>1, <2>3, <3>1, <3>2 DEF VersionsPast
  <2>8. LiveListed' /\ NotYetAsked'
    BY <2>1 DEF ClientsInv, LiveListed, NotYetAsked, Listed
  <2>9. NothingMissed'
    <3>. SUFFICES ASSUME NEW s \in Sockets, NEW i, Owed(s, i)' PROVE Reaches(i, s)'
      BY OwedReached
    <3>1. /\ phase[s] = "open" /\ s \notin gone /\ since[s] # Behind
          /\ i \in 1 .. new /\ log'[i] > since[s] /\ casts'[i].at # "none"
      BY <2>1, <2>3 DEF Owed, Newer
    <3>2. Listed(s)
      BY <3>1 DEF ClientsInv, LiveListed
    <3>3. CASE i = new
      BY <2>1, <2>5, <3>1, <3>2, <3>3 DEF Reaches, Listed
    <3>4. CASE i # new
      <4>1. i \in 1 .. Len(log) /\ i \in Messages
        BY <1>0, <2>1, <2>2, <3>1, <3>4 DEF new
      <4>2. Owed(s, i)
        BY <2>3, <2>5, <3>1, <3>4, <4>1 DEF Owed, Newer
      <4>3. Reaches(i, s)
        BY <4>2, OwedReached DEF ClientsInv
      <4>. QED
        BY <2>1, <2>5, <3>4, <4>1, <4>3 DEF Reaches, Listed
    <3>. QED
      BY <3>3, <3>4
  <2>. QED
    BY <2>6, <2>7, <2>8, <2>9 DEF ClientsInv
<1>2. ASSUME NEW m \in Messages, NEW cast \in Cast,
             casts' = [casts EXCEPT ![m] = cast], cast.todo = active,
             cast.at # "none" => casts[m].at # "none" \/ m = Periodic,
             UNCHANGED <<phase, gone, active, version, log, catching, since, inbox>>
      PROVE  ClientsInv'
  <2>1. /\ casts' \in [Messages -> Cast] /\ casts'[m] = cast
        /\ \A k \in Messages \ {m} : casts'[k] = casts[k]
    BY <1>0, <1>2
  <2>2. ClientsTypeOK' /\ VersionsPast' /\ LiveListed' /\ NotYetAsked'
    BY <1>2, <2>1
    DEF ClientsInv, ClientsTypeOK, VersionsPast, LiveListed, NotYetAsked, Listed
  <2>3. NothingMissed'
    <3>. SUFFICES ASSUME NEW s \in Sockets, NEW i, Owed(s, i)' PROVE Reaches(i, s)'
      BY OwedReached
    <3>1. /\ phase[s] = "open" /\ s \notin gone /\ since[s] # Behind
          /\ i \in Newer(since[s]) /\ casts'[i].at # "none"
      BY <1>2 DEF Owed, Newer
    <3>2. i \in Messages /\ i # Periodic
      BY <3>1, ClientsFacts DEF Newer
    <3>3. Listed(s)
      BY <3>1 DEF ClientsInv, LiveListed
    <3>4. CASE i = m
      BY <1>2, <2>1, <3>3, <3>4 DEF Reaches, Listed
    <3>5. CASE i # m
      <4>1. Owed(s, i)
        BY <2>1, <3>1, <3>2, <3>5 DEF Owed
      <4>2. Reaches(i, s)
        BY <4>1, OwedReached DEF ClientsInv
      <4>. QED
        BY <1>2, <2>1, <3>2, <3>5, <4>2 DEF Reaches, Listed
    <3>. QED
      BY <3>4, <3>5
  <2>. QED
    BY <2>2, <2>3 DEF ClientsInv
<1>3. CASE PeriodicDue
  <2>1. Periodic \in Messages /\ casts[Periodic] \in Cast
    BY <1>0 DEF Periodic
  <2>2. /\ casts' = [casts EXCEPT ![Periodic] = [casts[Periodic] EXCEPT !.todo = active]]
        /\ UNCHANGED <<phase, gone, active, version, log, catching, since, inbox>>
    BY <1>3 DEF PeriodicDue
  <2>3. /\ [casts[Periodic] EXCEPT !.todo = active] \in Cast
        /\ [casts[Periodic] EXCEPT !.todo = active].todo = active
    BY <1>0, <2>1 DEF Cast
  <2>. QED
    BY <1>2, <2>1, <2>2, <2>3
<1>4. ASSUME NEW m \in Messages, StartCast(m) PROVE ClientsInv'
  <2>. DEFINE cast == [at |-> "sending", todo |-> active]
  <2>1. cast \in Cast /\ cast.todo = active
    BY <1>0 DEF Cast
  <2>2. /\ casts[m].at = "queued" /\ casts' = [casts EXCEPT ![m] = cast]
        /\ UNCHANGED <<phase, gone, active, version, log, catching, since, inbox>>
    BY <1>4 DEF StartCast
  <2>. HIDE DEF cast
  <2>. QED
    BY <1>2, <2>1, <2>2
<1>. QED
  BY <1>1, <1>3, <1>4

LEMMA Sending ==
    ASSUME ClientsInv, NEW m \in Messages, Send(m)
    PROVE  ClientsInv'
<1>. DEFINE first == Head(casts[m].todo)
            rest == Tail(casts[m].todo)
<1>1. /\ casts \in [Messages -> Cast] /\ casts[m].todo \in Seq(Sockets)
      /\ inbox \in [Sockets -> SUBSET (Messages \ {Periodic})]
      /\ casts[m].todo # <<>>
  BY ClientsFacts DEF ClientsInv, ClientsTypeOK, Send
<1>2. first \in Sockets /\ rest \in Seq(Sockets)
  BY <1>1, HeadTailProperties
<1>3. \A s \in Range(casts[m].todo) : s # first => s \in Range(rest)
  BY <1>1, InTail
<1>4. /\ casts' = [casts EXCEPT ![m].todo = rest]
      /\ IF first \in gone THEN active' = Unlisted(first) /\ UNCHANGED inbox
         ELSE /\ inbox' = [inbox EXCEPT ![first] = @ \cup ({m} \ {Periodic})]
              /\ UNCHANGED active
      /\ UNCHANGED <<phase, gone, version, log, catching, since>>
  BY DEF Send
<1>. HIDE DEF first, rest
<1>5. /\ casts' \in [Messages -> Cast]
      /\ casts'[m].at = casts[m].at /\ casts'[m].todo = rest
      /\ \A k \in Messages \ {m} : casts'[k] = casts[k]
  BY <1>1, <1>2, <1>4 DEF Cast
<1>6. /\ inbox' \in [Sockets -> SUBSET (Messages \ {Periodic})]
      /\ \A u \in Sockets : inbox[u] \subseteq inbox'[u]
      /\ first \notin gone /\ m # Periodic => m \in inbox'[first]
  <2>1. CASE first \in gone
    BY <1>1, <1>4, <2>1
  <2>2. CASE first \notin gone
    <3>1. inbox' = [inbox EXCEPT ![first] = inbox[first] \cup ({m} \ {Periodic})]
      BY <1>4, <2>2
    <3>. QED
      BY <1>1, <1>2, <3>1
  <2>. QED
    BY <2>1, <2>2
<1>7. /\ active' \in Seq(Sockets)
      /\ \A u : u \notin gone /\ Listed(u) => u \in Range(active')
  <2>1. CASE first \in gone
    <3>1. active' = Unlisted(first)
      BY <1>4, <2>1
    <3>. QED
      BY <1>2, <2>1, <3>1, OnlyUnlisted
  <2>2. CASE first \notin gone
    BY <1>4, <2>2, ClientsFacts DEF Listed
  <2>. QED
    BY <2>1, <2>2
<1>8. ClientsTypeOK'
  BY <1>4, <1>5, <1>6, <1>7 DEF ClientsInv, ClientsTypeOK
<1>9. VersionsPast' /\ NotYetAsked'
  BY <1>4 DEF ClientsInv, VersionsPast, NotYetAsked
<1>10. LiveListed'
  BY <1>4, <1>7 DEF ClientsInv, LiveListed, Listed
<1>11. NothingMissed'
  <2>. SUFFICES ASSUME NEW s \in Sockets, NEW i, Owed(s, i)' PROVE Reaches(i, s)'
    BY OwedReached
  <2>1. /\ phase[s] = "open" /\ s \notin gone /\ since[s] # Behind
        /\ i \in Newer(since[s]) /\ casts'[i].at # "none"
    BY <1>4 DEF Owed, Newer
  <2>2. i \in Messages /\ i # Periodic
    BY <2>1, ClientsFacts DEF Newer
  <2>3. Owed(s, i)
    BY <1>5, <2>1, <2>2 DEF Owed
  <2>4. Reaches(i, s)
    BY <2>3, OwedReached DEF ClientsInv
  <2>5. CASE i \in inbox[s]
    BY <1>6, <2>5 DEF Reaches
  <2>6. CASE i \in catching[s]
    BY <1>4, <2>6 DEF Reaches
  <2>7. CASE casts[i].at = "queued" /\ Listed(s)
    BY <1>5, <1>7, <2>1, <2>2, <2>7 DEF Reaches, Listed
  <2>8. CASE s \in Range(casts[i].todo)
    BY <1>3, <1>5, <1>6, <2>1, <2>2, <2>8 DEF Reaches
  <2>. QED
    BY <2>4, <2>5, <2>6, <2>7, <2>8 DEF Reaches
<1>. QED
  BY <1>8, <1>9, <1>10, <1>11 DEF ClientsInv

LEMMA NewerFinite ==
    ASSUME ClientsInv, NEW v
    PROVE  /\ IsFiniteSet(Newer(v))
           /\ Cardinality(Newer(v)) \in Nat
           /\ Newer(v) \subseteq DOMAIN log
<1>1. Len(log) \in Nat /\ DOMAIN log = 1 .. Len(log)
  BY ClientsFacts
<1>2. \A n \in Nat : IsFiniteSet(1 .. n)
  <2>. TAKE n \in Nat
  <2>1. 1 \in Int /\ n \in Int
    OBVIOUS
  <2>. QED
    BY <2>1, FS_Interval
<1>3. Newer(v) \subseteq DOMAIN log
  BY DEF Newer
<1>4. IsFiniteSet(DOMAIN log)
  BY <1>1, <1>2
<1>5. IsFiniteSet(Newer(v))
  BY <1>3, <1>4, FS_Subset
<1>. QED
  BY <1>3, <1>5, FS_CardinalityType

(* A client that missed no more than the limit is sent all of it.           *)
LEMMA AllMissed ==
    ASSUME ClientsInv, NEW v, Cardinality(Newer(v)) <= ReplayLimit
    PROVE  Newer(v) \subseteq Missed(v)
<1>. SUFFICES ASSUME NEW i \in Newer(v)
              PROVE  Cardinality({j \in Newer(v) : j > i}) < ReplayLimit
  BY DEF Missed
<1>. DEFINE later == {j \in Newer(v) : j > i}
<1>1. Len(log) \in Nat /\ DOMAIN log = 1 .. Len(log)
  BY ClientsFacts
<1>3. IsFiniteSet(Newer(v)) /\ Newer(v) \subseteq DOMAIN log
  BY NewerFinite
<1>4. i \notin later /\ later \subseteq Newer(v) \ {i}
  BY <1>1, <1>3
<1>5. /\ IsFiniteSet(Newer(v) \ {i})
      /\ Cardinality(Newer(v) \ {i}) = Cardinality(Newer(v)) - 1
  BY <1>3, FS_RemoveElement
<1>6. Cardinality(later) <= Cardinality(Newer(v) \ {i}) /\ IsFiniteSet(later)
  BY <1>4, <1>5, FS_Subset
<1>7. Cardinality(later) \in Nat /\ Cardinality(Newer(v)) \in Nat
  BY <1>3, <1>6, FS_CardinalityType
<1>. HIDE DEF later
<1>8. Cardinality(later) < ReplayLimit
  BY <1>5, <1>6, <1>7, ClientsAssumption
<1>. QED
  BY <1>8 DEF later

LEMMA CatchingUp ==
    ASSUME ClientsInv, NEW s \in Sockets,
           SendMissed(s) \/ \E v \in 0 .. version : SyncState(s, v)
    PROVE  ClientsInv'
<1>0. /\ catching \in [Sockets -> SUBSET (Messages \ {Periodic})]
      /\ inbox \in [Sockets -> SUBSET (Messages \ {Periodic})]
      /\ since \in [Sockets -> Nat \cup {Behind}]
  BY DEF ClientsInv, ClientsTypeOK
<1>1. CASE SendMissed(s)
  <2>1. UNCHANGED <<phase, gone, active, version, log, casts, since>>
    BY <1>1 DEF SendMissed
  <2>2. /\ catching' \in [Sockets -> SUBSET (Messages \ {Periodic})]
        /\ inbox' \in [Sockets -> SUBSET (Messages \ {Periodic})]
        /\ \A u \in Sockets \ gone :
               /\ inbox[u] \subseteq inbox'[u]
               /\ catching[u] \subseteq catching'[u] \cup inbox'[u]
    <3>1. CASE s \in gone
      <4>1. catching' = [catching EXCEPT ![s] = {}] /\ UNCHANGED inbox
        BY <1>1, <3>1 DEF SendMissed
      <4>. QED
        BY <1>0, <3>1, <4>1
    <3>2. CASE s \notin gone
      <4>1. PICK i \in catching[s] :
                /\ catching' = [catching EXCEPT ![s] = @ \ {i}]
                /\ inbox' = [inbox EXCEPT ![s] = @ \cup {i}]
        BY <1>1, <3>2 DEF SendMissed
      <4>. QED
        BY <1>0, <4>1
    <3>. QED
      BY <3>1, <3>2
  <2>3. ClientsTypeOK' /\ VersionsPast' /\ NotYetAsked' /\ LiveListed'
    BY <2>1, <2>2
    DEF ClientsInv, ClientsTypeOK, VersionsPast, NotYetAsked, LiveListed, Listed
  <2>4. NothingMissed'
    <3>. SUFFICES ASSUME NEW u \in Sockets, NEW i, Owed(u, i)' PROVE Reaches(i, u)'
      BY OwedReached
    <3>1. Owed(u, i) /\ u \notin gone
      BY <2>1 DEF Owed, Newer
    <3>2. Reaches(i, u)
      BY <3>1, OwedReached DEF ClientsInv
    <3>. QED
      BY <2>1, <2>2, <3>1, <3>2 DEF Reaches, Listed
  <2>. QED
    BY <2>3, <2>4 DEF ClientsInv
<1>2. ASSUME NEW v \in 0 .. version, SyncState(s, v) PROVE ClientsInv'
  <2>1. /\ phase[s] = "open" /\ catching[s] = {} /\ since[s] = Behind
        /\ UNCHANGED <<phase, gone, active, version, log, casts, inbox>>
    BY <1>2 DEF SyncState
  <2>2. version \in Nat /\ v \in Nat /\ Missed(v) \subseteq Messages \ {Periodic}
    BY ClientsFacts DEF Missed, Newer
  <2>3. /\ catching' \in [Sockets -> SUBSET (Messages \ {Periodic})]
        /\ since' \in [Sockets -> Nat \cup {Behind}]
        /\ \A u \in Sockets \ {s} : catching'[u] = catching[u] /\ since'[u] = since[u]
        /\ since'[s] # Behind /\ s \notin gone =>
               \/ since'[s] = version
               \/ since'[s] = v /\ Newer(v) \subseteq catching'[s]
    <3>1. CASE version - v > Gap
      <4>1. since' = [since EXCEPT ![s] = IF s \in gone THEN @ ELSE version]
            /\ UNCHANGED catching
        BY <1>2, <3>1 DEF SyncState
      <4>. QED
        BY <1>0, <2>1, <2>2, <4>1
    <3>2. CASE ~(version - v > Gap)
      <4>1. /\ catching' = [catching EXCEPT ![s] = Missed(v)]
            /\ since' = [since EXCEPT ![s] =
                   IF Cardinality(Newer(v)) > ReplayLimit THEN @ ELSE v]
        BY <1>2, <3>2 DEF SyncState
      <4>2. CASE Cardinality(Newer(v)) > ReplayLimit
        BY <1>0, <2>1, <2>2, <4>1, <4>2
      <4>3. CASE ~(Cardinality(Newer(v)) > ReplayLimit)
        <5>2. Cardinality(Newer(v)) \in Nat
          BY NewerFinite
        <5>3. Newer(v) \subseteq Missed(v)
          BY <4>3, <5>2, AllMissed, ClientsAssumption
        <5>. QED
          BY <1>0, <2>1, <2>2, <4>1, <4>3, <5>3
      <4>. QED
        BY <4>2, <4>3
    <3>. QED
      BY <3>1, <3>2
  <2>4. ClientsTypeOK' /\ VersionsPast' /\ LiveListed'
    BY <2>1, <2>3 DEF ClientsInv, ClientsTypeOK, VersionsPast, LiveListed, Listed
  <2>5. NotYetAsked'
    BY <2>1, <2>3 DEF ClientsInv, NotYetAsked
  <2>6. NothingMissed'
    <3>. SUFFICES ASSUME NEW u \in Sockets, NEW i, Owed(u, i)' PROVE Reaches(i, u)'
      BY OwedReached
    <3>1. /\ phase[u] = "open" /\ u \notin gone /\ since'[u] # Behind
          /\ i \in Newer(since'[u]) /\ casts[i].at # "none"
      BY <2>1 DEF Owed, Newer
    <3>2. CASE u # s
      <4>1. Owed(u, i)
        BY <2>3, <3>1, <3>2 DEF Owed
      <4>2. Reaches(i, u)
        BY <4>1, OwedReached DEF ClientsInv
      <4>. QED
        BY <2>1, <2>3, <3>2, <4>2 DEF Reaches, Listed
    <3>3. CASE u = s
      <4>1. i \in DOMAIN log /\ log[i] > since'[s] /\ log[i] <= version /\ log[i] \in Nat
        BY <3>1, <3>3, ElementOfSeq, ClientsFacts
        DEF Newer, ClientsInv, VersionsPast, ClientsTypeOK
      <4>2. since'[s] = v /\ Newer(v) \subseteq catching'[s]
        BY <2>2, <2>3, <3>1, <3>3, <4>1
      <4>. QED
        BY <3>1, <3>3, <4>2 DEF Reaches
    <3>. QED
      BY <3>2, <3>3
  <2>. QED
    BY <2>4, <2>5, <2>6 DEF ClientsInv
<1>. QED
  BY <1>1, <1>2

LEMMA ClientsStep == ClientsInv /\ [ClientsNext]_clientVars => ClientsInv'
<1>. SUFFICES ASSUME ClientsInv, [ClientsNext]_clientVars PROVE ClientsInv'
  OBVIOUS
<1>1. CASE UNCHANGED clientVars
  BY <1>1 DEF clientVars, ClientsInv, ClientsTypeOK, LiveListed, Listed, VersionsPast,
              NotYetAsked, NothingMissed, Newer, Reaches
<1>2. CASE ClientsNext
  BY <1>2, ComingAndGoing, Broadcasting, Sending, CatchingUp DEF ClientsNext
<1>. QED
  BY <1>1, <1>2

LEMMA ClientsInvHolds == ClientsSpec => []ClientsInv
  BY ClientsInitInv, ClientsStep, PTL DEF ClientsSpec

(* Every reachable state of the sockets and their broadcasts is well typed. *)
THEOREM ClientsTypeCorrect == ClientsSpec => []ClientsTypeOK
<1>1. ClientsInv => ClientsTypeOK
  BY DEF ClientsInv
<1>. QED
  BY <1>1, ClientsInvHolds, PTL

(* A client of the live feed that is there and has caught up misses no      *)
(* later event that became a task: neither for clients that come and go     *)
(* between the awaits of a broadcast, nor for events stored while it is     *)
(* being sent those it missed.                                              *)
THEOREM NothingIsMissed == ClientsSpec => []NothingMissed
<1>1. ClientsInv => NothingMissed
  BY DEF ClientsInv
<1>. QED
  BY <1>1, ClientsInvHolds, PTL
=============================================================================
