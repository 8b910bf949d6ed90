--------------------------- MODULE UserStoreProofs ---------------------------
(***************************************************************************)
(* What the user store promises of codes, attempts and subscriptions, for  *)
(* any number of threads, OTPs, subscriptions and restarts.                *)
(***************************************************************************)
EXTENDS UserStore, TLAPS

(* A verification holds the lock from its first transaction to its last. *)
Exclusive ==
    \A t \in Threads : pc[t] \in {"verify", "compare", "relock"} => lock = t

(***************************************************************************)
(* OTPs. A code that still waits to be stored is nobody else's; a spent    *)
(* one is neither in the table nor in a verification. While a code can be  *)
(* compared, it was compared at most as often as its row counts, and a     *)
(* verification that has counted is ahead of the comparisons by its own.   *)
(***************************************************************************)
Carries(t) == pc[t] \in {"store", "verify", "compare"}
Code(t) == arg[t].otp.code

CodesKnown ==
    /\ otp = NoOtp \/ otp.code \in 1 .. codes
    /\ \A t \in Threads : Carries(t) => Code(t) \in 1 .. codes
    /\ \A c \in Codes : c > codes => accepted[c] = 0 /\ tries[c] = 0

WaitingIsFresh ==
    \A t \in Threads : pc[t] = "store" =>
        /\ arg[t].otp.attempts = 0
        /\ otp.code # Code(t)
        /\ accepted[Code(t)] = 0 /\ tries[Code(t)] = 0
        /\ \A u \in Threads \ {t} : Carries(u) => Code(u) # Code(t)

SpentIsGone ==
    \A c \in Codes :
        /\ accepted[c] <= 1
        /\ accepted[c] = 1 =>
              /\ otp.code # c
              /\ \A t \in Threads : Carries(t) => Code(t) # c

Compares(t) == pc[t] = "compare" /\ Code(t) = otp.code

TriesCounted ==
    /\ \A c \in Codes : tries[c] <= MaxOtpAttempts + 1
    /\ otp # NoOtp => tries[otp.code] <= MaxOtpAttempts /\ tries[otp.code] <= otp.attempts
    /\ \A t \in Threads : pc[t] \in {"verify", "compare"} => tries[Code(t)] <= MaxOtpAttempts
    /\ \A t \in Threads : Compares(t) =>
          otp.attempts = arg[t].otp.attempts /\ tries[Code(t)] < otp.attempts

(* A restart between counting and locking out costs one attempt more. *)
CountsBounded ==
    \/ otp.attempts <= MaxOtpAttempts + restarts
    \/ /\ otp.attempts <= MaxOtpAttempts + restarts + 1
       /\ \E t \in Threads : Compares(t)

OtpInv == CodesKnown /\ WaitingIsFresh /\ SpentIsGone /\ TriesCounted /\ CountsBounded
-----------------------------------------------------------------------------
(***************************************************************************)
(* Subscriptions. A row is inserted once and before the cache lists it, a  *)
(* reload may list it before the request appends it, and what a request is *)
(* about to remove from the cache has left the table for good.             *)
(***************************************************************************)
Edits(t) == pc[t] \in {"insert", "append", "remove"}
Sub(t) == arg[t].sub

SubsKnown ==
    /\ subs \subseteq 1 .. created
    /\ \A t \in Threads : Edits(t) => Sub(t) \in 1 .. created
    /\ \A s \in SubIds : s > created => byId.listed[s] = 0

InsertIsFirst ==
    \A t \in Threads : pc[t] = "insert" =>
        /\ Sub(t) \notin subs /\ byId.listed[Sub(t)] = 0
        /\ \A u \in Threads \ {t} : Edits(u) => Sub(u) # Sub(t)

AppendIsOnce ==
    \A t \in Threads : pc[t] = "append" =>
        /\ byId.listed[Sub(t)] <= 1
        /\ \A u \in Threads \ {t} : pc[u] = "append" => Sub(u) # Sub(t)

RemovedIsGone == \A t \in Threads : pc[t] = "remove" => Sub(t) \notin subs

SubInv == SubsKnown /\ InsertIsFirst /\ AppendIsOnce /\ RemovedIsGone /\ SubscriptionsListed

IInv == TypeOK /\ Exclusive /\ OtpInv /\ SubInv
-----------------------------------------------------------------------------
LEMMA StoreInit == Init => IInv
<1>. SUFFICES ASSUME Init PROVE IInv
  OBVIOUS
<1>1. TypeOK
  <2>1. 0 \in 0 .. MaxCodes /\ 0 \in 0 .. MaxSubs /\ 0 \in 0 .. MaxRestarts
        /\ 0 \in 0 .. MaxOtpAttempts + 1 + MaxRestarts
    BY BoundsAssumption
  <2>2. NoOtp \in Otp
    BY <2>1 DEF NoOtp, Otp
  <2>3. Nil \in [otp : Otp, guess : 0 .. MaxCodes, sub : 0 .. MaxSubs]
    BY <2>1, <2>2 DEF Nil
  <2>4. NotLoaded \in [flag : Flag, masked : BOOLEAN, listed : [SubIds -> 0 .. 2]]
    BY DEF NotLoaded, Flag
  <2>. QED
    BY <2>1, <2>2, <2>3, <2>4 DEF Init, TypeOK, Flag
<1>2. OtpInv
  BY BoundsAssumption
     DEF Init, OtpInv, CodesKnown, WaitingIsFresh, SpentIsGone, TriesCounted,
         CountsBounded, Carries, Compares, NoOtp, Codes
<1>3. SubInv
  BY BoundsAssumption
     DEF Init, SubInv, SubsKnown, InsertIsFirst, AppendIsOnce, RemovedIsGone,
         SubscriptionsListed, Edits, NotLoaded, SubIds
<1>. QED
  BY <1>1, <1>2, <1>3 DEF IInv, Exclusive, Init

(* The other threads stand where they stood. *)
Others(t) == \A u \in Threads \ {t} : pc'[u] = pc[u] /\ arg'[u] = arg[u]

LEMMA Moved ==
    ASSUME TypeOK, NEW t \in Threads, NEW where, Goto(t, where)
    PROVE  /\ pc'[t] = where
           /\ \A u \in Threads \ {t} : pc'[u] = pc[u]
BY DEF TypeOK, Goto

(* A step that leaves OTPs alone, of a thread that carries none. *)
LEMMA OtpKept ==
    ASSUME TypeOK, OtpInv, NEW t \in Threads, Others(t),
           UNCHANGED <<otp, codes, restarts, accepted, tries>>,
           pc[t] # "compare", ~Carries(t)'
    PROVE  OtpInv'
<1>1. CodesKnown'
  BY DEF OtpInv, CodesKnown, Others, Carries, Code
<1>2. WaitingIsFresh'
  BY DEF OtpInv, WaitingIsFresh, Others, Carries, Code
<1>3. SpentIsGone'
  BY DEF OtpInv, SpentIsGone, Others, Carries, Code
<1>4. TriesCounted'
  BY DEF OtpInv, TriesCounted, Others, Carries, Code, Compares
<1>5. CountsBounded'
  BY DEF OtpInv, CountsBounded, Others, Carries, Code, Compares
<1>. QED
  BY <1>1, <1>2, <1>3, <1>4, <1>5 DEF OtpInv

(* A step that leaves subscriptions alone but may load them again. *)
LEMMA SubsKept ==
    ASSUME TypeOK, SubInv, NEW t \in Threads, Others(t),
           UNCHANGED <<subs, created>>,
           \/ byId' = byId
           \/ \E f \in Flag, m \in BOOLEAN : byId' = Loaded(f, m),
           pc[t] # "append", ~Edits(t)'
    PROVE  SubInv'
<1>1. \/ byId' = byId
      \/ \A s \in SubIds : byId'.listed[s] = IF s \in subs THEN 1 ELSE 0
  BY DEF Loaded
<1>2. SubsKnown'
  <2>1. \A s \in SubIds : s > created => byId'.listed[s] = 0
    BY <1>1 DEF SubInv, SubsKnown, SubIds, TypeOK
  <2>. QED
    BY <2>1 DEF SubInv, SubsKnown, Others, Edits, Sub
<1>3. \A u \in Threads : Edits(u) => Sub(u) \in SubIds
  BY BoundsAssumption DEF SubInv, SubsKnown, SubIds, TypeOK
<1>4. InsertIsFirst'
  BY <1>1, <1>3 DEF SubInv, InsertIsFirst, Others, Edits, Sub
<1>5. AppendIsOnce'
  BY <1>1, <1>3 DEF SubInv, AppendIsOnce, Others, Edits, Sub
<1>6. RemovedIsGone'
  BY DEF SubInv, RemovedIsGone, Others, Edits, Sub
<1>7. SubscriptionsListed'
  BY <1>1 DEF SubInv, SubscriptionsListed, Others, At, TypeOK
<1>. QED
  BY <1>2, <1>4, <1>5, <1>6, <1>7 DEF SubInv
-----------------------------------------------------------------------------
ByIdType == [flag : Flag, masked : BOOLEAN, listed : [SubIds -> 0 .. 2]]
ArgType == [otp : Otp, guess : 0 .. MaxCodes, sub : 0 .. MaxSubs]

LEMMA BeginStep ==
    ASSUME TypeOK, NEW t \in Threads, NEW where, NEW a, Begin(t, where, a)
    PROVE  /\ pc[t] = "idle" /\ pc'[t] = where /\ arg'[t] = a /\ Others(t)
           /\ pc' = [pc EXCEPT ![t] = where] /\ arg' = [arg EXCEPT ![t] = a]
BY DEF Begin, At, Goto, Others, TypeOK

LEMMA ReturnStep ==
    ASSUME TypeOK, NEW t \in Threads, Return(t)
    PROVE  /\ pc'[t] = "idle" /\ Others(t)
           /\ pc' = [pc EXCEPT ![t] = "idle"] /\ arg' = [arg EXCEPT ![t] = Nil]
BY DEF Return, Goto, Others, TypeOK

LEMMA GotoStep ==
    ASSUME TypeOK, NEW t \in Threads, NEW where, Goto(t, where), UNCHANGED arg
    PROVE  pc'[t] = where /\ arg'[t] = arg[t] /\ Others(t)
BY DEF Goto, Others, TypeOK

LEMMA NilTyped == Nil \in ArgType
<1>1. 0 \in 0 .. MaxCodes /\ 0 \in 0 .. MaxSubs
      /\ 0 \in 0 .. MaxOtpAttempts + 1 + MaxRestarts
  BY BoundsAssumption
<1>. QED
  BY <1>1 DEF Nil, ArgType, NoOtp, Otp

LEMMA NoOtpTyped == NoOtp \in Otp
<1>1. 0 \in 0 .. MaxCodes /\ 0 \in 0 .. MaxOtpAttempts + 1 + MaxRestarts
  BY BoundsAssumption
<1>. QED
  BY <1>1 DEF NoOtp, Otp

LEMMA LoadedTyped ==
    ASSUME NEW f \in Flag, NEW m \in BOOLEAN
    PROVE  Loaded(f, m) \in ByIdType
BY DEF Loaded, ByIdType

(* What registration and a load leave: a cached object that is the one it  *)
(* was or made of the rows.                                                *)
LEMMA RegisterUserStep ==
    ASSUME TypeOK, RegisterUser
    PROVE  /\ row' \in Flag /\ byPhone' \in Flag /\ byId' \in ByIdType
           /\ \/ byId' = byId
              \/ \E f \in Flag, m \in BOOLEAN : byId' = Loaded(f, m)
<1>1. CASE byPhone # "absent"
  BY <1>1 DEF RegisterUser, TypeOK, cache, ByIdType
<1>2. CASE byPhone = "absent"
  <2>1. row' \in Flag /\ byPhone' = row' /\ byId' = Loaded(row', FALSE)
    BY <1>2 DEF RegisterUser, TypeOK, Flag
  <2>. QED
    BY <2>1, LoadedTyped
<1>. QED
  BY <1>1, <1>2

LEMMA LoadByIdStep ==
    ASSUME TypeOK, LoadById
    PROVE  /\ byId' \in ByIdType
           /\ \/ byId' = byId
              \/ \E f \in Flag, m \in BOOLEAN : byId' = Loaded(f, m)
<1>1. row \in Flag /\ Loaded(row, TRUE) \in ByIdType
  BY LoadedTyped DEF TypeOK
<1>. QED
  BY <1>1 DEF LoadById, TypeOK, ByIdType
-----------------------------------------------------------------------------
(***************************************************************************)
(* One lemma per action.                                                   *)
(***************************************************************************)
LEMMA RegisterInv ==
    ASSUME IInv, NEW t \in Threads, Register(t)
    PROVE  IInv'
<1>1. /\ RegisterUser /\ pc[t] = "idle"
      /\ UNCHANGED <<otp, subs, lock, pc, arg, codes, created, restarts,
                     accepted, tries, answered>>
  BY DEF Register, At, counters, history
<1>2. TypeOK'
  BY <1>1, RegisterUserStep DEF IInv, TypeOK, ByIdType
<1>3. Others(t) /\ ~Carries(t)' /\ ~Edits(t)' /\ Exclusive'
  BY <1>1 DEF Others, Carries, Edits, Exclusive, IInv
<1>4. OtpInv'
  BY <1>1, <1>3, OtpKept DEF IInv
<1>5. SubInv'
  BY <1>1, <1>3, RegisterUserStep, SubsKept DEF IInv
<1>. QED
  BY <1>2, <1>3, <1>4, <1>5 DEF IInv

LEMMA GetUserByIdInv ==
    ASSUME IInv, NEW t \in Threads, GetUserById(t)
    PROVE  IInv'
<1>1. /\ LoadById /\ pc[t] = "idle"
      /\ UNCHANGED <<row, otp, subs, byPhone, lock, pc, arg, codes, created, restarts,
                     accepted, tries, answered>>
  BY DEF GetUserById, At, counters, history, tables
<1>2. TypeOK'
  BY <1>1, LoadByIdStep DEF IInv, TypeOK, ByIdType
<1>3. Others(t) /\ ~Carries(t)' /\ ~Edits(t)' /\ Exclusive'
  BY <1>1 DEF Others, Carries, Edits, Exclusive, IInv
<1>4. OtpInv'
  BY <1>1, <1>3, OtpKept DEF IInv
<1>5. SubInv'
  BY <1>1, <1>3, LoadByIdStep, SubsKept DEF IInv
<1>. QED
  BY <1>2, <1>3, <1>4, <1>5 DEF IInv

(* The new code is above every code that was ever generated. *)
LEMMA RequestOtpInv ==
    ASSUME IInv, NEW t \in Threads, RequestOtp(t)
    PROVE  IInv'
<1>. DEFINE a == [Nil EXCEPT !.otp.code = codes + 1]
<1>1. /\ codes < MaxCodes /\ codes' = codes + 1
      /\ Begin(t, "store", a)
      /\ UNCHANGED <<row, otp, subs, byPhone, byId, lock, created, restarts,
                     accepted, tries, answered>>
  BY DEF RequestOtp, tables, cache, history
<1>2. /\ a \in ArgType /\ a.otp.code = codes + 1 /\ a.otp.attempts = 0
      /\ codes' \in 0 .. MaxCodes /\ codes \in Nat
  <2>1. codes + 1 \in 0 .. MaxCodes /\ codes \in Nat
    BY <1>1, BoundsAssumption DEF IInv, TypeOK
  <2>2. a \in ArgType /\ a.otp.code = codes + 1 /\ a.otp.attempts = Nil.otp.attempts
    BY <2>1, NilTyped DEF ArgType, Otp
  <2>3. Nil.otp.attempts = 0
    BY DEF Nil, NoOtp
  <2>. QED
    BY <1>1, <2>1, <2>2, <2>3
<1>. HIDE DEF a
<1>3. /\ pc[t] = "idle" /\ pc'[t] = "store" /\ arg'[t] = a /\ Others(t)
      /\ pc' = [pc EXCEPT ![t] = "store"] /\ arg' = [arg EXCEPT ![t] = a]
  BY <1>1, BeginStep DEF IInv
<1>4. TypeOK'
  BY <1>1, <1>2, <1>3 DEF IInv, TypeOK, ArgType
<1>5. Exclusive'
  BY <1>1, <1>3 DEF IInv, Exclusive, Others
<1>6. codes + 1 \in Codes /\ accepted[codes + 1] = 0 /\ tries[codes + 1] = 0
  BY <1>1, <1>2, BoundsAssumption DEF IInv, OtpInv, CodesKnown, Codes
<1>7. CodesKnown'
  BY <1>1, <1>2, <1>3 DEF IInv, OtpInv, CodesKnown, Others, Carries, Code, Codes
<1>8. \A u \in Threads \ {t} : Carries(u) => Code(u) # codes + 1
  BY <1>2 DEF IInv, OtpInv, CodesKnown
<1>9. otp.code # codes + 1
  BY <1>2 DEF IInv, OtpInv, CodesKnown, NoOtp
<1>10. WaitingIsFresh'
  BY <1>1, <1>2, <1>3, <1>6, <1>8, <1>9
     DEF IInv, OtpInv, WaitingIsFresh, Others, Carries, Code
<1>11. SpentIsGone'
  BY <1>1, <1>2, <1>3, <1>6, <1>8, <1>9
     DEF IInv, OtpInv, SpentIsGone, Others, Carries, Code
<1>12. TriesCounted' /\ CountsBounded'
  BY <1>1, <1>3 DEF IInv, OtpInv, TriesCounted, CountsBounded, Others, Code, Compares
<1>13. SubInv'
  BY <1>1, <1>3, SubsKept DEF IInv, Edits
<1>. QED
  BY <1>4, <1>5, <1>7, <1>10, <1>11, <1>12, <1>13 DEF IInv, OtpInv

LEMMA StoreOtpInv ==
    ASSUME IInv, NEW t \in Threads, StoreOtp(t)
    PROVE  IInv'
<1>1. /\ pc[t] = "store" /\ Goto(t, "register") /\ otp' = arg[t].otp
      /\ UNCHANGED <<row, subs, byPhone, byId, lock, arg, codes, created, restarts,
                     accepted, tries, answered>>
  BY DEF StoreOtp, At, cache, counters, history
<1>2. pc'[t] = "register" /\ Others(t)
  BY <1>1, GotoStep DEF IInv
<1>3. /\ Carries(t) /\ otp'.code = Code(t) /\ otp'.attempts = 0
      /\ accepted[Code(t)] = 0 /\ tries[Code(t)] = 0
      /\ Code(t) \in 1 .. codes
      /\ \A u \in Threads \ {t} : Carries(u) => Code(u) # Code(t)
  BY <1>1 DEF IInv, OtpInv, CodesKnown, WaitingIsFresh, Carries, Code
<1>4. TypeOK'
  BY <1>1 DEF IInv, TypeOK, Goto
<1>5. Exclusive'
  BY <1>1, <1>2 DEF IInv, Exclusive, Others
<1>6. CodesKnown'
  BY <1>1, <1>2, <1>3 DEF IInv, OtpInv, CodesKnown, Others, Carries, Code
<1>7. WaitingIsFresh'
  BY <1>1, <1>2, <1>3 DEF IInv, OtpInv, WaitingIsFresh, Others, Carries, Code
<1>8. SpentIsGone'
  BY <1>1, <1>2, <1>3 DEF IInv, OtpInv, SpentIsGone, Others, Carries, Code
<1>9. TriesCounted'
  BY <1>1, <1>2, <1>3, BoundsAssumption
     DEF IInv, OtpInv, TriesCounted, Others, Carries, Code, Compares
<1>10. CountsBounded'
  BY <1>1, <1>3, BoundsAssumption DEF IInv, TypeOK, CountsBounded
<1>11. SubInv'
  BY <1>1, <1>2, SubsKept DEF IInv, Edits
<1>. QED
  BY <1>4, <1>5, <1>6, <1>7, <1>8, <1>9, <1>10, <1>11 DEF IInv, OtpInv

LEMMA RequestRegistersInv ==
    ASSUME IInv, NEW t \in Threads, RequestRegisters(t)
    PROVE  IInv'
<1>1. /\ RegisterUser /\ pc[t] = "register" /\ Return(t)
      /\ UNCHANGED <<otp, subs, lock, codes, created, restarts, accepted, tries, answered>>
  BY DEF RequestRegisters, At, counters, history
<1>2. /\ pc'[t] = "idle" /\ Others(t)
      /\ pc' = [pc EXCEPT ![t] = "idle"] /\ arg' = [arg EXCEPT ![t] = Nil]
  BY <1>1, ReturnStep DEF IInv
<1>3. TypeOK'
  BY <1>1, <1>2, RegisterUserStep, NilTyped DEF IInv, TypeOK, ByIdType, ArgType
<1>4. Exclusive'
  BY <1>1, <1>2 DEF IInv, Exclusive, Others
<1>5. OtpInv'
  BY <1>1, <1>2, OtpKept DEF IInv, Carries
<1>6. SubInv'
  BY <1>1, <1>2, RegisterUserStep, SubsKept DEF IInv, Edits
<1>. QED
  BY <1>3, <1>4, <1>5, <1>6 DEF IInv

(* The row's time runs out; its code and its attempts stay. *)
LEMMA ExpireInv ==
    ASSUME IInv, Expire
    PROVE  IInv'
<1>1. /\ otp # NoOtp /\ otp' = [otp EXCEPT !.expired = TRUE]
      /\ UNCHANGED <<row, subs, byPhone, byId, lock, pc, arg, codes, created, restarts,
                     accepted, tries, answered>>
  BY DEF Expire, cache, counters, history
<1>2. otp' \in Otp /\ otp'.code = otp.code /\ otp'.attempts = otp.attempts
  BY <1>1 DEF IInv, TypeOK, Otp
<1>3. TypeOK' /\ Exclusive'
  BY <1>1, <1>2 DEF IInv, TypeOK, Exclusive
<1>4. CodesKnown' /\ WaitingIsFresh' /\ SpentIsGone'
  BY <1>1, <1>2 DEF IInv, OtpInv, CodesKnown, WaitingIsFresh, SpentIsGone, Carries, Code
<1>5. TriesCounted' /\ CountsBounded'
  BY <1>1, <1>2 DEF IInv, OtpInv, TriesCounted, CountsBounded, Compares, Code
<1>6. SubInv'
  BY <1>1 DEF IInv, SubInv, SubsKnown, InsertIsFirst, AppendIsOnce, RemovedIsGone,
              SubscriptionsListed, Edits, Sub, At
<1>. QED
  BY <1>3, <1>4, <1>5, <1>6 DEF IInv, OtpInv
-----------------------------------------------------------------------------
(* Whoever holds the lock verifies alone. *)
LEMMA Alone ==
    ASSUME IInv, NEW t \in Threads, lock \in {t, "free"}, NEW u \in Threads \ {t}
    PROVE  pc[u] \notin {"verify", "compare", "relock"}
BY ThreadsAssumption DEF IInv, Exclusive

LEMMA ReadOtpInv ==
    ASSUME IInv, NEW t \in Threads, NEW guess \in 0 .. codes, ReadOtp(t, guess)
    PROVE  IInv'
<1>. DEFINE a == [Nil EXCEPT !.otp = otp, !.guess = guess]
<1>1. /\ lock = "free" /\ otp # NoOtp /\ lock' = t /\ Begin(t, "verify", a)
      /\ UNCHANGED <<row, otp, subs, byPhone, byId, codes, created, restarts,
                     accepted, tries, answered>>
  BY DEF ReadOtp, Unlocked, tables, cache, counters, history
<1>2. a \in ArgType /\ a.otp = otp
  <2>1. guess \in 0 .. MaxCodes
    BY BoundsAssumption DEF IInv, TypeOK
  <2>. QED
    BY <2>1, NilTyped DEF Nil, ArgType, IInv, TypeOK
<1>. HIDE DEF a
<1>3. /\ pc[t] = "idle" /\ pc'[t] = "verify" /\ arg'[t] = a /\ Others(t)
      /\ pc' = [pc EXCEPT ![t] = "verify"] /\ arg' = [arg EXCEPT ![t] = a]
  BY <1>1, BeginStep DEF IInv
<1>4. TypeOK'
  BY <1>1, <1>2, <1>3 DEF IInv, TypeOK, ArgType
<1>5. Exclusive'
  BY <1>1, <1>3, Alone DEF Exclusive, Others
<1>6. otp.code \in 1 .. codes /\ otp.code \in Codes
  BY <1>1, BoundsAssumption DEF IInv, TypeOK, OtpInv, CodesKnown, Codes
<1>7. CodesKnown' /\ WaitingIsFresh' /\ SpentIsGone'
  BY <1>1, <1>2, <1>3, <1>6
     DEF IInv, OtpInv, CodesKnown, WaitingIsFresh, SpentIsGone, Others, Carries, Code
<1>8. TriesCounted'
  BY <1>1, <1>2, <1>3, <1>6 DEF IInv, OtpInv, TriesCounted, Others, Code, Compares
<1>9. CountsBounded'
  BY <1>1, <1>3 DEF IInv, OtpInv, CountsBounded, Others, Code, Compares
<1>10. SubInv'
  BY <1>1, <1>3, SubsKept DEF IInv, Edits
<1>. QED
  BY <1>4, <1>5, <1>7, <1>8, <1>9, <1>10 DEF IInv, OtpInv

(* A verification that deletes the row and returns, whatever row it is. *)
LEMMA DeletedInv ==
    ASSUME IInv, NEW t \in Threads, pc[t] \in {"verify", "compare"},
           otp' = NoOtp, lock' = "free", Return(t),
           UNCHANGED <<row, subs, byPhone, byId, codes, created, restarts,
                       accepted, tries, answered>>
    PROVE  IInv'
<1>1. /\ pc'[t] = "idle" /\ Others(t)
      /\ pc' = [pc EXCEPT ![t] = "idle"] /\ arg' = [arg EXCEPT ![t] = Nil]
  BY ReturnStep DEF IInv
<1>2. TypeOK'
  BY <1>1, NilTyped, NoOtpTyped DEF IInv, TypeOK, ArgType
<1>3. lock = t
  BY DEF IInv, Exclusive
<1>4. Exclusive'
  BY <1>1, <1>3, Alone DEF Exclusive, Others
<1>5. otp'.code = 0 /\ otp'.attempts = 0 /\ 0 \notin Codes
  BY DEF NoOtp, Codes
<1>6. CodesKnown'
  BY <1>1 DEF IInv, OtpInv, CodesKnown, Others, Carries, Code
<1>7. WaitingIsFresh' /\ SpentIsGone'
  BY <1>1, <1>5
     DEF IInv, OtpInv, CodesKnown, WaitingIsFresh, SpentIsGone, Others, Carries, Code
<1>8. TriesCounted'
  BY <1>1, <1>3, Alone DEF IInv, OtpInv, TriesCounted, Others, Code, Compares
<1>9. CountsBounded'
  BY <1>5, BoundsAssumption DEF IInv, TypeOK, CountsBounded
<1>10. SubInv'
  BY <1>1, SubsKept DEF IInv, Edits
<1>. QED
  BY <1>2, <1>4, <1>6, <1>7, <1>8, <1>9, <1>10 DEF IInv, OtpInv

LEMMA DeleteExpiredInv ==
    ASSUME IInv, NEW t \in Threads, DeleteExpired(t)
    PROVE  IInv'
BY DeletedInv DEF DeleteExpired, At, cache, counters, history

LEMMA LockOutInv ==
    ASSUME IInv, NEW t \in Threads, LockOut(t)
    PROVE  IInv'
BY DeletedInv DEF LockOut, At, cache, counters, history

(***************************************************************************)
(* Counting: the row of the code that is compared gets ahead of the        *)
(* comparisons by one. If the row was replaced, the code is in no row and  *)
(* this comparison is its last.                                            *)
(***************************************************************************)
LEMMA CountAttemptInv ==
    ASSUME IInv, NEW t \in Threads, CountAttempt(t)
    PROVE  IInv'
<1>. DEFINE n == Counted(t)
            a == [arg[t] EXCEPT !.otp.attempts = n]
<1>1. /\ pc[t] = "verify" /\ Goto(t, "compare")
      /\ otp' = IF otp.code = Code(t) THEN [otp EXCEPT !.attempts = @ + 1] ELSE otp
      /\ UNCHANGED <<row, subs, byPhone, byId, lock, codes, created, restarts,
                     accepted, tries, answered>>
  BY DEF CountAttempt, At, Code, cache, counters, history
<1>2. arg' = [arg EXCEPT ![t] = a]
  BY DEF CountAttempt, IInv, TypeOK, Otp
<1>3. lock = t
  BY <1>1 DEF IInv, Exclusive
<1>4. ~\E u \in Threads : Compares(u)
  BY <1>1, <1>3, Alone DEF Compares
<1>5. otp.attempts \in Nat /\ otp.attempts <= MaxOtpAttempts + restarts
  BY <1>4 DEF IInv, TypeOK, Otp, OtpInv, CountsBounded
<1>6. /\ n = IF otp.code = Code(t) THEN otp.attempts + 1 ELSE MaxOtpAttempts
      /\ n \in 0 .. MaxOtpAttempts + 1 + MaxRestarts
  BY <1>5, BoundsAssumption DEF IInv, TypeOK, Counted, Code
<1>. HIDE DEF n
<1>7. a \in ArgType /\ a.otp.code = Code(t) /\ a.otp.attempts = n
  BY <1>6 DEF IInv, TypeOK, ArgType, Otp, Code
<1>. HIDE DEF a
<1>8. pc'[t] = "compare" /\ arg'[t] = a /\ Others(t)
  BY <1>1, <1>2 DEF Goto, Others, IInv, TypeOK
<1>9. /\ otp' \in Otp /\ otp'.code = otp.code
      /\ otp'.attempts = IF otp.code = Code(t) THEN n ELSE otp.attempts
  BY <1>1, <1>6 DEF IInv, TypeOK, Otp
<1>10. TypeOK'
  BY <1>1, <1>2, <1>7, <1>9 DEF IInv, TypeOK, Goto, ArgType
<1>11. Exclusive'
  BY <1>1, <1>3, <1>8 DEF IInv, Exclusive, Others
<1>12. Carries(t) /\ Code(t) \in 1 .. codes /\ (otp' = NoOtp <=> otp = NoOtp)
  <2>1. Carries(t) /\ Code(t) \in 1 .. codes /\ Code(t) # 0
    BY <1>1 DEF IInv, OtpInv, CodesKnown, Carries
  <2>2. NoOtp.code = 0
    BY DEF NoOtp
  <2>. QED
    BY <1>1, <1>9, <2>1, <2>2
<1>13. CodesKnown' /\ WaitingIsFresh' /\ SpentIsGone'
  BY <1>1, <1>7, <1>8, <1>9, <1>12
     DEF IInv, OtpInv, CodesKnown, WaitingIsFresh, SpentIsGone, Others, Carries, Code
<1>14. /\ tries[Code(t)] \in Nat
       /\ otp.code = Code(t) => tries[Code(t)] <= otp.attempts
  <2>1. Code(t) \in Codes /\ Code(t) # 0
    BY <1>12, BoundsAssumption DEF IInv, TypeOK, Codes
  <2>2. otp.code = Code(t) => otp # NoOtp
    BY <2>1 DEF NoOtp
  <2>. QED
    BY <2>1, <2>2 DEF IInv, TypeOK, OtpInv, TriesCounted
<1>15. TriesCounted'
  <2>1. \A u \in Threads : Compares(u)' => u = t /\ otp.code = Code(t)
    BY <1>3, <1>7, <1>8, <1>9, Alone DEF Compares, Code, Others
  <2>2. otp' # NoOtp => tries'[otp'.code] <= MaxOtpAttempts /\ tries'[otp'.code] <= otp'.attempts
    BY <1>1, <1>5, <1>6, <1>9, <1>12, <1>14 DEF IInv, OtpInv, TriesCounted
  <2>3. \A u \in Threads : pc'[u] \in {"verify", "compare"}
                              => tries'[Code(u)'] <= MaxOtpAttempts
    BY <1>1, <1>7, <1>8 DEF IInv, OtpInv, TriesCounted, Others, Code
  <2>4. otp.code = Code(t) => otp'.attempts = n /\ tries'[Code(t)'] < otp'.attempts
    BY <1>1, <1>5, <1>6, <1>7, <1>8, <1>9, <1>14 DEF Code
  <2>. QED
    BY <1>1, <1>7, <1>8, <2>1, <2>2, <2>3, <2>4 DEF IInv, OtpInv, TriesCounted
<1>16. CountsBounded'
  <2>1. CASE otp.code = Code(t)
    <3>1. Compares(t)' /\ otp'.attempts <= MaxOtpAttempts + restarts + 1
      BY <2>1, <1>5, <1>6, <1>7, <1>8, <1>9, BoundsAssumption
         DEF Compares, Code, IInv, TypeOK
    <3>. QED
      BY <1>1, <3>1 DEF CountsBounded
  <2>2. CASE otp.code # Code(t)
    BY <2>2, <1>1, <1>5, <1>9 DEF CountsBounded
  <2>. QED
    BY <2>1, <2>2
<1>17. SubInv'
  BY <1>1, <1>8, SubsKept DEF IInv, Edits
<1>. QED
  BY <1>10, <1>11, <1>13, <1>15, <1>16, <1>17 DEF IInv, OtpInv

(* A comparison ends the verification: its code was compared at most        *)
(* MaxOtpAttempts times before, and nobody else carries it.                 *)
LEMMA ComparedStep ==
    ASSUME IInv, NEW t \in Threads, Compared(t)
    PROVE  /\ pc[t] = "compare" /\ lock = t /\ lock' = "free"
           /\ arg[t].otp.attempts <= MaxOtpAttempts
           /\ tries' = [tries EXCEPT ![Code(t)] = @ + 1]
           /\ Code(t) \in Codes /\ Code(t) \in 1 .. codes
           /\ tries[Code(t)] <= MaxOtpAttempts
           /\ accepted[Code(t)] = 0
           /\ \A u \in Threads \ {t} : Carries(u) => pc[u] = "store" /\ Code(u) # Code(t)
<1>1. /\ pc[t] = "compare" /\ lock' = "free"
      /\ arg[t].otp.attempts <= MaxOtpAttempts
      /\ tries' = [tries EXCEPT ![Code(t)] = @ + 1]
  BY DEF Compared, At, Code
<1>2. lock = t /\ Carries(t)
  BY <1>1 DEF IInv, Exclusive, Carries
<1>3. Code(t) \in 1 .. codes /\ Code(t) \in Codes
  BY <1>2, BoundsAssumption DEF IInv, TypeOK, OtpInv, CodesKnown, Codes
<1>4. tries[Code(t)] <= MaxOtpAttempts
  BY <1>1 DEF IInv, OtpInv, TriesCounted
<1>5. accepted[Code(t)] = 0
  BY <1>2, <1>3 DEF IInv, TypeOK, OtpInv, SpentIsGone
<1>6. \A u \in Threads \ {t} : Carries(u) => pc[u] = "store" /\ Code(u) # Code(t)
  BY <1>2, Alone DEF IInv, OtpInv, WaitingIsFresh, Carries
<1>. QED
  BY <1>1, <1>2, <1>3, <1>4, <1>5, <1>6

LEMMA TriesTyped ==
    ASSUME TypeOK, NEW c \in Codes, tries' = [tries EXCEPT ![c] = @ + 1]
    PROVE  tries' \in [Codes -> Nat] /\ tries'[c] = tries[c] + 1
           /\ \A d \in Codes \ {c} : tries'[d] = tries[d]
BY DEF TypeOK

LEMMA RejectInv ==
    ASSUME IInv, NEW t \in Threads, Reject(t)
    PROVE  IInv'
<1>. DEFINE c == Code(t)
<1>1. /\ Compared(t) /\ Return(t)
      /\ UNCHANGED <<row, otp, subs, byPhone, byId, codes, created, restarts,
                     accepted, answered>>
  BY DEF Reject, tables, cache, counters
<1>2. /\ pc'[t] = "idle" /\ Others(t)
      /\ pc' = [pc EXCEPT ![t] = "idle"] /\ arg' = [arg EXCEPT ![t] = Nil]
  BY <1>1, ReturnStep DEF IInv
<1>3. /\ pc[t] = "compare" /\ lock = t /\ lock' = "free" /\ c \in Codes
      /\ arg[t].otp.attempts <= MaxOtpAttempts /\ tries[c] <= MaxOtpAttempts
      /\ \A u \in Threads \ {t} : Carries(u) => pc[u] = "store" /\ Code(u) # c
  BY <1>1, ComparedStep
<1>4. tries' \in [Codes -> Nat] /\ tries'[c] = tries[c] + 1
      /\ \A d \in Codes \ {c} : tries'[d] = tries[d]
  BY <1>1, ComparedStep, TriesTyped DEF IInv
<1>5. otp.code = c => otp.attempts = arg[t].otp.attempts /\ tries[c] < otp.attempts
  BY <1>3 DEF IInv, OtpInv, TriesCounted, Compares
<1>6. TypeOK'
  BY <1>1, <1>2, <1>3, <1>4, NilTyped DEF IInv, TypeOK, ArgType
<1>7. Exclusive'
  BY <1>2, <1>3, Alone DEF Exclusive, Others
<1>8. c <= codes
  BY <1>1, ComparedStep
<1>9. CodesKnown' /\ SpentIsGone'
  BY <1>1, <1>2, <1>4, <1>8
     DEF IInv, TypeOK, OtpInv, CodesKnown, SpentIsGone, Others, Carries, Code, Codes
<1>10. WaitingIsFresh'
  <2>. SUFFICES ASSUME NEW u \in Threads, pc'[u] = "store"
                PROVE  /\ arg'[u].otp.attempts = 0
                       /\ otp.code # Code(u)'
                       /\ accepted[Code(u)'] = 0 /\ tries'[Code(u)'] = 0
                       /\ \A v \in Threads \ {u} : Carries(v)' => Code(v)' # Code(u)'
    BY <1>1 DEF WaitingIsFresh
  <2>1. u # t /\ pc[u] = "store" /\ Carries(u) /\ Code(u)' = Code(u)
    BY <1>2 DEF Others, Carries, Code
  <2>2. Code(u) # c /\ Code(u) \in Codes
    BY <1>3, <2>1, BoundsAssumption DEF IInv, TypeOK, OtpInv, CodesKnown, Codes
  <2>3. \A v \in Threads : Carries(v)' => v # t /\ Carries(v) /\ Code(v)' = Code(v)
    BY <1>2 DEF Others, Carries, Code
  <2>. QED
    BY <2>1, <2>2, <2>3, <1>2, <1>4 DEF IInv, OtpInv, WaitingIsFresh, Others
<1>11. TriesCounted'
  <2>1. \A d \in Codes : tries'[d] <= MaxOtpAttempts + 1
    BY <1>3, <1>4, BoundsAssumption DEF IInv, TypeOK, OtpInv, TriesCounted
  <2>2. otp # NoOtp => tries'[otp.code] <= MaxOtpAttempts /\ tries'[otp.code] <= otp.attempts
    <3>1. otp # NoOtp => otp.code \in Codes
      BY BoundsAssumption DEF IInv, TypeOK, OtpInv, CodesKnown, Codes
    <3>2. CASE otp.code = c
      BY <3>2, <1>3, <1>4, <1>5, BoundsAssumption DEF IInv, TypeOK, Otp
    <3>3. CASE otp.code # c
      BY <3>1, <3>3, <1>4 DEF IInv, OtpInv, TriesCounted
    <3>. QED
      BY <3>2, <3>3
  <2>3. \A u \in Threads : pc'[u] \notin {"verify", "compare"}
    BY <1>2, <1>3 DEF Others, Carries
  <2>. QED
    BY <1>1, <2>1, <2>2, <2>3 DEF TriesCounted, Compares
<1>12. CountsBounded'
  <2>1. otp.attempts <= MaxOtpAttempts + restarts
    <3>1. CASE otp.code = c
      BY <3>1, <1>3, <1>5, BoundsAssumption DEF IInv, TypeOK, Otp
    <3>2. CASE otp.code # c
      BY <3>2, <1>3 DEF IInv, OtpInv, CountsBounded, Compares, Carries
    <3>. QED
      BY <3>1, <3>2
  <2>. QED
    BY <1>1, <2>1 DEF CountsBounded
<1>13. SubInv'
  BY <1>1, <1>2, <1>3, SubsKept DEF IInv, Edits
<1>. QED
  BY <1>6, <1>7, <1>9, <1>10, <1>11, <1>12, <1>13 DEF IInv, OtpInv

(* Acceptance spends the code: its row goes in the same step. *)
LEMMA AcceptInv ==
    ASSUME IInv, NEW t \in Threads, Accept(t)
    PROVE  IInv'
<1>. DEFINE c == Code(t)
<1>1. /\ Compared(t) /\ otp' = NoOtp /\ row' \in Flag
      /\ accepted' = [accepted EXCEPT ![c] = @ + 1]
      /\ Goto(t, "lookup")
      /\ UNCHANGED <<subs, byPhone, byId, arg, codes, created, restarts, answered>>
  BY DEF Accept, cache, counters, Code, Flag, IInv, TypeOK
<1>2. pc'[t] = "lookup" /\ Others(t)
  BY <1>1, GotoStep DEF IInv
<1>3. /\ pc[t] = "compare" /\ lock = t /\ lock' = "free" /\ c \in Codes /\ c <= codes
      /\ tries[c] <= MaxOtpAttempts /\ accepted[c] = 0
      /\ \A u \in Threads \ {t} : Carries(u) => pc[u] = "store" /\ Code(u) # c
  BY <1>1, ComparedStep
<1>4. tries' \in [Codes -> Nat] /\ tries'[c] = tries[c] + 1
      /\ \A d \in Codes \ {c} : tries'[d] = tries[d]
  BY <1>1, ComparedStep, TriesTyped DEF IInv
<1>5. accepted' \in [Codes -> Nat] /\ accepted'[c] = 1
      /\ \A d \in Codes \ {c} : accepted'[d] = accepted[d]
  BY <1>1, <1>3 DEF IInv, TypeOK
<1>6. TypeOK'
  BY <1>1, <1>3, <1>4, <1>5, NoOtpTyped DEF IInv, TypeOK, Goto
<1>7. Exclusive'
  BY <1>2, <1>3, Alone DEF Exclusive, Others
<1>8. otp'.code = 0 /\ otp'.attempts = 0 /\ 0 \notin Codes
  BY <1>1 DEF NoOtp, Codes
<1>9. \A v \in Threads : Carries(v)' =>
         v # t /\ Carries(v) /\ pc'[v] = "store" /\ pc[v] = "store"
         /\ arg'[v] = arg[v] /\ Code(v)' = Code(v) /\ Code(v) # c
         /\ Code(v) \in 1 .. codes /\ Code(v) \in Codes
  <2>. SUFFICES ASSUME NEW v \in Threads, Carries(v)'
                PROVE  /\ v # t /\ Carries(v) /\ pc'[v] = "store" /\ pc[v] = "store"
                       /\ arg'[v] = arg[v] /\ Code(v)' = Code(v) /\ Code(v) # c
                       /\ Code(v) \in 1 .. codes /\ Code(v) \in Codes
    OBVIOUS
  <2>1. v # t /\ pc'[v] = pc[v] /\ arg'[v] = arg[v] /\ Carries(v)
    BY <1>2 DEF Others, Carries
  <2>2. Code(v)' = Code(v)
    BY <2>1 DEF Code
  <2>3. Code(v) \in 1 .. codes /\ Code(v) \in Codes
    BY <2>1, BoundsAssumption DEF IInv, TypeOK, OtpInv, CodesKnown, Codes
  <2>. QED
    BY <2>1, <2>2, <2>3, <1>3
<1>10. CodesKnown'
  <2>1. \A d \in Codes : d > codes => d # c
    BY <1>3 DEF IInv, TypeOK, Codes
  <2>. QED
    BY <1>1, <1>4, <1>5, <1>9, <2>1 DEF IInv, OtpInv, CodesKnown
<1>11. WaitingIsFresh'
  <2>. SUFFICES ASSUME NEW u \in Threads, pc'[u] = "store"
                PROVE  /\ arg'[u].otp.attempts = 0
                       /\ otp'.code # Code(u)'
                       /\ accepted'[Code(u)'] = 0 /\ tries'[Code(u)'] = 0
                       /\ \A v \in Threads \ {u} : Carries(v)' => Code(v)' # Code(u)'
    BY DEF WaitingIsFresh
  <2>1. Carries(u)'
    BY DEF Carries
  <2>. QED
    BY <2>1, <1>4, <1>5, <1>8, <1>9 DEF IInv, OtpInv, WaitingIsFresh
<1>12. SpentIsGone'
  BY <1>3, <1>5, <1>8, <1>9 DEF IInv, OtpInv, SpentIsGone
<1>13. TriesCounted'
  <2>1. \A d \in Codes : tries'[d] <= MaxOtpAttempts + 1
    BY <1>3, <1>4, BoundsAssumption DEF IInv, TypeOK, OtpInv, TriesCounted
  <2>2. \A u \in Threads : pc'[u] \notin {"verify", "compare"}
    BY <1>9 DEF Carries
  <2>. QED
    BY <1>1, <2>1, <2>2 DEF TriesCounted, Compares
<1>14. CountsBounded'
  BY <1>1, <1>8, BoundsAssumption DEF IInv, TypeOK, CountsBounded
<1>15. SubInv'
  BY <1>1, <1>2, <1>3, SubsKept DEF IInv, Edits
<1>. QED
  BY <1>6, <1>7, <1>10, <1>11, <1>12, <1>13, <1>14, <1>15 DEF IInv, OtpInv
-----------------------------------------------------------------------------
LEMMA AnswerInv ==
    ASSUME IInv, NEW t \in Threads, Answer(t)
    PROVE  IInv'
<1>1. /\ pc[t] = "lookup" /\ answered' = TRUE /\ Return(t)
      /\ UNCHANGED <<row, otp, subs, byPhone, byId, lock, codes, created, restarts,
                     accepted, tries>>
  BY DEF Answer, At, tables, cache, counters
<1>2. /\ pc'[t] = "idle" /\ Others(t)
      /\ pc' = [pc EXCEPT ![t] = "idle"] /\ arg' = [arg EXCEPT ![t] = Nil]
  BY <1>1, ReturnStep DEF IInv
<1>3. TypeOK'
  BY <1>1, <1>2, NilTyped DEF IInv, TypeOK, ArgType
<1>4. Exclusive'
  BY <1>1, <1>2 DEF IInv, Exclusive, Others
<1>5. OtpInv' /\ SubInv'
  BY <1>1, <1>2, OtpKept, SubsKept DEF IInv, Carries, Edits
<1>. QED
  BY <1>3, <1>4, <1>5 DEF IInv

LEMMA GetUserByPhoneInv ==
    ASSUME IInv, NEW t \in Threads, GetUserByPhone(t)
    PROVE  IInv'
<1>1. /\ pc[t] = "lookup" /\ lock = "free" /\ lock' = t /\ Goto(t, "relock")
      /\ UNCHANGED <<row, otp, subs, byPhone, byId, arg, codes, created, restarts,
                     accepted, tries, answered>>
  BY DEF GetUserByPhone, At, Unlocked, tables, cache, counters, history
<1>2. pc'[t] = "relock" /\ Others(t)
  BY <1>1, GotoStep DEF IInv
<1>3. TypeOK'
  BY <1>1 DEF IInv, TypeOK, Goto
<1>4. Exclusive'
  BY <1>1, <1>2, Alone DEF Exclusive, Others
<1>5. OtpInv' /\ SubInv'
  BY <1>1, <1>2, OtpKept, SubsKept DEF IInv, Carries, Edits
<1>. QED
  BY <1>3, <1>4, <1>5 DEF IInv
-----------------------------------------------------------------------------
LEMMA EditedIsSub ==
    ASSUME IInv, NEW t \in Threads, Edits(t)
    PROVE  Sub(t) \in SubIds /\ Sub(t) \in 1 .. created
BY BoundsAssumption DEF IInv, TypeOK, SubInv, SubsKnown, SubIds

(* The new subscription is above every one that was ever created. *)
LEMMA AddSubscriptionInv ==
    ASSUME IInv, NEW t \in Threads, AddSubscription(t)
    PROVE  IInv'
<1>. DEFINE a == [Nil EXCEPT !.sub = created + 1]
            s == created + 1
<1>1. /\ created < MaxSubs /\ created' = s /\ LoadById
      /\ Begin(t, "insert", a)
      /\ UNCHANGED <<row, otp, subs, byPhone, lock, codes, restarts,
                     accepted, tries, answered>>
  BY DEF AddSubscription, tables, history
<1>2. s \in 0 .. MaxSubs /\ s \in SubIds /\ created \in Nat
  BY <1>1, BoundsAssumption DEF IInv, TypeOK, SubIds
<1>3. a \in ArgType /\ a.sub = s
  BY <1>2, NilTyped DEF ArgType
<1>. HIDE DEF a
<1>4. /\ pc[t] = "idle" /\ pc'[t] = "insert" /\ arg'[t] = a /\ Others(t)
      /\ pc' = [pc EXCEPT ![t] = "insert"] /\ arg' = [arg EXCEPT ![t] = a]
  BY <1>1, BeginStep DEF IInv
<1>5. byId' \in ByIdType
      /\ \/ byId' = byId
         \/ \E f \in Flag, m \in BOOLEAN : byId' = Loaded(f, m)
  BY <1>1, LoadByIdStep DEF IInv
<1>6. TypeOK'
  BY <1>1, <1>2, <1>3, <1>4, <1>5 DEF IInv, TypeOK, ArgType, ByIdType
<1>7. Exclusive'
  BY <1>1, <1>4 DEF IInv, Exclusive, Others
<1>8. OtpInv'
  BY <1>1, <1>4, OtpKept DEF IInv, Carries
<1>9. /\ s \notin subs
      /\ \A x \in SubIds : x >= s => byId'.listed[x] = 0
      /\ \A u \in Threads \ {t} : Edits(u) => Sub(u) # s
  <2>1. s \notin 1 .. created /\ \A x \in SubIds : x >= s => x > created /\ x \notin 1 .. created
    BY <1>2 DEF SubIds
  <2>2. \A x \in SubIds : x >= s => byId.listed[x] = 0 /\ x \notin subs
    BY <2>1 DEF IInv, SubInv, SubsKnown
  <2>3. \/ byId' = byId
        \/ \A x \in SubIds : byId'.listed[x] = IF x \in subs THEN 1 ELSE 0
    BY <1>5 DEF Loaded
  <2>4. \A x \in SubIds : x >= s => byId'.listed[x] = 0
    BY <2>2, <2>3
  <2>. QED
    BY <2>1, <2>4 DEF IInv, SubInv, SubsKnown
<1>10. SubsKnown'
  BY <1>1, <1>2, <1>3, <1>4, <1>9 DEF IInv, SubInv, SubsKnown, Others, Edits, Sub, SubIds
<1>11. \A u \in Threads : Edits(u) => Sub(u) \in SubIds
  BY EditedIsSub
<1>12. \A x \in SubIds : \/ byId'.listed[x] = byId.listed[x]
                        \/ byId'.listed[x] = IF x \in subs THEN 1 ELSE 0
  BY <1>5 DEF Loaded
<1>13. InsertIsFirst'
  BY <1>1, <1>2, <1>3, <1>4, <1>9, <1>11, <1>12
     DEF IInv, SubInv, InsertIsFirst, Others, Edits, Sub
<1>14. AppendIsOnce' /\ RemovedIsGone'
  BY <1>1, <1>4, <1>11, <1>12
     DEF IInv, SubInv, AppendIsOnce, RemovedIsGone, Others, Edits, Sub
<1>15. SubscriptionsListed'
  BY <1>1, <1>4, <1>5 DEF IInv, TypeOK, SubInv, SubscriptionsListed, Others, At, Loaded
<1>. QED
  BY <1>6, <1>7, <1>8, <1>10, <1>13, <1>14, <1>15 DEF IInv, SubInv

LEMMA InsertRowInv ==
    ASSUME IInv, NEW t \in Threads, InsertRow(t)
    PROVE  IInv'
<1>. DEFINE s == Sub(t)
<1>1. /\ pc[t] = "insert" /\ Goto(t, "append") /\ subs' = subs \cup {s}
      /\ UNCHANGED <<row, otp, byPhone, byId, lock, arg, codes, created, restarts,
                     accepted, tries, answered>>
  BY DEF InsertRow, At, Sub, cache, counters, history
<1>2. pc'[t] = "append" /\ arg'[t] = arg[t] /\ Others(t)
  BY <1>1, GotoStep DEF IInv
<1>3. /\ s \in SubIds /\ s \in 1 .. created /\ s \notin subs /\ byId.listed[s] = 0
      /\ Edits(t)
      /\ \A u \in Threads \ {t} : Edits(u) => Sub(u) # s
  BY <1>1, EditedIsSub DEF IInv, SubInv, InsertIsFirst, Edits
<1>4. TypeOK'
  BY <1>1, <1>3 DEF IInv, TypeOK, Goto
<1>5. Exclusive'
  BY <1>1, <1>2 DEF IInv, Exclusive, Others
<1>6. OtpInv'
  BY <1>1, <1>2, OtpKept DEF IInv, Carries
<1>7. SubsKnown' /\ InsertIsFirst'
  BY <1>1, <1>2, <1>3 DEF IInv, SubInv, SubsKnown, InsertIsFirst, Others, Edits, Sub
<1>8. AppendIsOnce' /\ RemovedIsGone'
  BY <1>1, <1>2, <1>3 DEF IInv, SubInv, AppendIsOnce, RemovedIsGone, Others, Edits, Sub
<1>9. SubscriptionsListed'
  BY <1>1, <1>2 DEF IInv, SubInv, SubscriptionsListed, Others, At, Sub
<1>. QED
  BY <1>4, <1>5, <1>6, <1>7, <1>8, <1>9 DEF IInv, SubInv

LEMMA AppendToCacheInv ==
    ASSUME IInv, NEW t \in Threads, AppendToCache(t)
    PROVE  IInv'
<1>. DEFINE s == Sub(t)
<1>1. /\ pc[t] = "append" /\ Return(t)
      /\ byId' = IF byId.flag = "absent" THEN byId
                 ELSE [byId EXCEPT !.listed = [byId.listed EXCEPT ![s] = @ + 1]]
      /\ UNCHANGED <<row, otp, subs, byPhone, lock, codes, created, restarts,
                     accepted, tries, answered>>
  BY DEF AppendToCache, At, Sub, tables, counters, history, IInv, TypeOK
<1>2. /\ pc'[t] = "idle" /\ Others(t)
      /\ pc' = [pc EXCEPT ![t] = "idle"] /\ arg' = [arg EXCEPT ![t] = Nil]
  BY <1>1, ReturnStep DEF IInv
<1>3. /\ s \in SubIds /\ s \in 1 .. created /\ Edits(t) /\ byId.listed[s] \in 0 .. 1
      /\ \A u \in Threads \ {t} : pc[u] \in {"insert", "append"} => Sub(u) # s
  BY <1>1, EditedIsSub
     DEF IInv, TypeOK, SubInv, InsertIsFirst, AppendIsOnce, Edits
<1>4. /\ byId' \in ByIdType /\ byId'.flag = byId.flag
      /\ byId.flag # "absent" => byId'.listed[s] = byId.listed[s] + 1
      /\ \A x \in SubIds \ {s} : byId'.listed[x] = byId.listed[x]
  BY <1>1, <1>3 DEF IInv, TypeOK, ByIdType
<1>5. TypeOK'
  BY <1>1, <1>2, <1>4, NilTyped DEF IInv, TypeOK, ArgType, ByIdType
<1>6. Exclusive'
  BY <1>1, <1>2 DEF IInv, Exclusive, Others
<1>7. OtpInv'
  BY <1>1, <1>2, OtpKept DEF IInv, Carries
<1>8. SubsKnown'
  <2>. SUFFICES ASSUME NEW x \in SubIds, x > created
                PROVE  byId'.listed[x] = 0
    <3>1. \A u \in Threads : Edits(u)' => Sub(u)' \in 1 .. created'
      BY <1>1, <1>2 DEF IInv, SubInv, SubsKnown, Others, Edits, Sub
    <3>2. subs' \subseteq 1 .. created'
      BY <1>1 DEF IInv, SubInv, SubsKnown
    <3>. QED
      BY <1>1, <3>1, <3>2 DEF SubsKnown
  <2>. HIDE DEF s
  <2>1. x # s
    BY <1>3 DEF IInv, TypeOK, SubIds
  <2>2. byId.listed[x] = 0
    BY DEF IInv, SubInv, SubsKnown
  <2>. QED
    BY <1>4, <2>1, <2>2
<1>9. \A u \in Threads : Edits(u) => Sub(u) \in SubIds
  BY EditedIsSub
<1>10. InsertIsFirst' /\ AppendIsOnce' /\ RemovedIsGone'
  BY <1>1, <1>2, <1>3, <1>4, <1>9
     DEF IInv, SubInv, InsertIsFirst, AppendIsOnce, RemovedIsGone, Others, Edits, Sub
<1>11. SubscriptionsListed'
  <2>. SUFFICES ASSUME byId.flag # "absent", NEW x \in subs
                PROVE  byId'.listed[x] > 0
                       \/ \E u \in Threads : At(u, "append")' /\ arg'[u].sub = x
    BY <1>1, <1>4 DEF SubscriptionsListed
  <2>1. CASE x = s
    BY <2>1, <1>3, <1>4
  <2>2. CASE x # s
    <3>1. x \in SubIds
      BY DEF IInv, TypeOK
    <3>2. \/ byId.listed[x] > 0
          \/ \E u \in Threads \ {t} : pc[u] = "append" /\ arg[u].sub = x
      BY <2>2 DEF IInv, SubInv, SubscriptionsListed, At, Sub
    <3>. QED
      BY <2>2, <3>1, <3>2, <1>2, <1>4 DEF Others, At
  <2>. QED
    BY <2>1, <2>2
<1>. QED
  BY <1>5, <1>6, <1>7, <1>8, <1>10, <1>11 DEF IInv, SubInv

LEMMA DeleteSubscriptionInv ==
    ASSUME IInv, NEW t \in Threads, NEW s \in SubIds, DeleteSubscription(t, s)
    PROVE  IInv'
<1>. DEFINE a == [Nil EXCEPT !.sub = s]
<1>1. /\ s \in subs /\ subs' = subs \ {s} /\ Begin(t, "remove", a)
      /\ UNCHANGED <<row, otp, byPhone, byId, lock, codes, created, restarts,
                     accepted, tries, answered>>
  BY DEF DeleteSubscription, cache, counters, history
<1>2. a \in ArgType /\ a.sub = s
  BY NilTyped, BoundsAssumption DEF ArgType, SubIds
<1>. HIDE DEF a
<1>3. /\ pc[t] = "idle" /\ pc'[t] = "remove" /\ arg'[t] = a /\ Others(t)
      /\ pc' = [pc EXCEPT ![t] = "remove"] /\ arg' = [arg EXCEPT ![t] = a]
  BY <1>1, BeginStep DEF IInv
<1>4. TypeOK'
  BY <1>1, <1>2, <1>3 DEF IInv, TypeOK, ArgType
<1>5. Exclusive'
  BY <1>1, <1>3 DEF IInv, Exclusive, Others
<1>6. OtpInv'
  BY <1>1, <1>3, OtpKept DEF IInv, Carries
<1>7. SubsKnown' /\ RemovedIsGone'
  BY <1>1, <1>2, <1>3 DEF IInv, SubInv, SubsKnown, RemovedIsGone, Others, Edits, Sub
<1>8. InsertIsFirst' /\ AppendIsOnce'
  BY <1>1, <1>2, <1>3 DEF IInv, SubInv, InsertIsFirst, AppendIsOnce, Others, Edits, Sub
<1>9. SubscriptionsListed'
  BY <1>1, <1>3 DEF IInv, SubInv, SubscriptionsListed, Others, At
<1>. QED
  BY <1>4, <1>5, <1>6, <1>7, <1>8, <1>9 DEF IInv, SubInv

LEMMA RemoveFromCacheInv ==
    ASSUME IInv, NEW t \in Threads, RemoveFromCache(t)
    PROVE  IInv'
<1>. DEFINE s == Sub(t)
<1>1. /\ pc[t] = "remove" /\ Return(t)
      /\ byId' = [byId EXCEPT !.listed = [byId.listed EXCEPT ![s] = 0]]
      /\ UNCHANGED <<row, otp, subs, byPhone, lock, codes, created, restarts,
                     accepted, tries, answered>>
  BY DEF RemoveFromCache, At, Sub, tables, counters, history, IInv, TypeOK
<1>2. /\ pc'[t] = "idle" /\ Others(t)
      /\ pc' = [pc EXCEPT ![t] = "idle"] /\ arg' = [arg EXCEPT ![t] = Nil]
  BY <1>1, ReturnStep DEF IInv
<1>3. s \in SubIds /\ Edits(t) /\ s \notin subs
  BY <1>1, EditedIsSub DEF IInv, SubInv, RemovedIsGone, Edits
<1>4. /\ byId' \in ByIdType /\ byId'.flag = byId.flag /\ byId'.listed[s] = 0
      /\ \A x \in SubIds \ {s} : byId'.listed[x] = byId.listed[x]
  BY <1>1, <1>3 DEF IInv, TypeOK, ByIdType
<1>5. TypeOK'
  BY <1>1, <1>2, <1>4, NilTyped DEF IInv, TypeOK, ArgType, ByIdType
<1>6. Exclusive'
  BY <1>1, <1>2 DEF IInv, Exclusive, Others
<1>7. OtpInv'
  BY <1>1, <1>2, OtpKept DEF IInv, Carries
<1>8. SubsKnown'
  BY <1>1, <1>2, <1>3, <1>4 DEF IInv, SubInv, SubsKnown, Others, Edits, Sub
<1>9. \A u \in Threads : Edits(u) => Sub(u) \in SubIds
  BY EditedIsSub
<1>10. InsertIsFirst' /\ AppendIsOnce' /\ RemovedIsGone'
  BY <1>1, <1>2, <1>4, <1>9
     DEF IInv, SubInv, InsertIsFirst, AppendIsOnce, RemovedIsGone, Others, Edits, Sub
<1>11. subs \subseteq SubIds \ {s}
  BY <1>3 DEF IInv, TypeOK
<1>12. SubscriptionsListed'
  BY <1>1, <1>2, <1>4, <1>11 DEF IInv, SubInv, SubscriptionsListed, Others, At
<1>. QED
  BY <1>5, <1>6, <1>7, <1>8, <1>10, <1>12 DEF IInv, SubInv

(* A restart loses what was counted on behalf of a comparison. *)
LEMMA RestartInv ==
    ASSUME IInv, Restart
    PROVE  IInv'
<1>1. /\ restarts < MaxRestarts /\ restarts' = restarts + 1
      /\ byPhone' = "absent" /\ byId' = NotLoaded /\ lock' = "free"
      /\ pc' = [t \in Threads |-> "idle"] /\ arg' = [t \in Threads |-> Nil]
      /\ UNCHANGED <<row, otp, subs, codes, created, accepted, tries, answered>>
  BY DEF Restart, tables, history
<1>2. NotLoaded \in ByIdType /\ NotLoaded.flag = "absent"
      /\ \A s \in SubIds : NotLoaded.listed[s] = 0
  BY DEF NotLoaded, ByIdType, Flag
<1>3. restarts' \in 0 .. MaxRestarts
  BY <1>1, BoundsAssumption DEF IInv, TypeOK
<1>4. TypeOK'
  BY <1>1, <1>2, <1>3, NilTyped DEF IInv, TypeOK, ByIdType, ArgType, Flag
<1>5. Exclusive'
  BY <1>1 DEF Exclusive
<1>6. CodesKnown' /\ WaitingIsFresh' /\ SpentIsGone' /\ TriesCounted'
  BY <1>1 DEF IInv, OtpInv, CodesKnown, WaitingIsFresh, SpentIsGone, TriesCounted,
              Carries, Compares
<1>7. CountsBounded'
  BY <1>1, <1>3, BoundsAssumption DEF IInv, TypeOK, Otp, OtpInv, CountsBounded
<1>8. SubInv'
  BY <1>1, <1>2 DEF IInv, SubInv, SubsKnown, InsertIsFirst, AppendIsOnce,
                    RemovedIsGone, SubscriptionsListed, Edits
<1>. QED
  BY <1>4, <1>5, <1>6, <1>7, <1>8 DEF IInv, OtpInv
-----------------------------------------------------------------------------
LEMMA StoreNext == IInv /\ [Next]_vars => IInv'
<1>. SUFFICES ASSUME IInv, [Next]_vars PROVE IInv'
  OBVIOUS
<1>1. ASSUME NEW t \in Threads, Proceed(t) PROVE IInv'
  BY <1>1, StoreOtpInv, RequestRegistersInv, DeleteExpiredInv, CountAttemptInv,
     LockOutInv, RejectInv, AcceptInv, AnswerInv, GetUserByPhoneInv, InsertRowInv,
     AppendToCacheInv, RemoveFromCacheInv DEF Proceed
<1>2. CASE Next
  BY <1>1, <1>2, RegisterInv, GetUserByIdInv, RequestOtpInv, AddSubscriptionInv,
     ReadOtpInv, DeleteSubscriptionInv, ExpireInv, RestartInv DEF Next
<1>3. CASE UNCHANGED vars
  BY <1>3 DEF vars, tables, cache, counters, history, IInv, TypeOK, Exclusive, OtpInv,
     CodesKnown, WaitingIsFresh, SpentIsGone, TriesCounted, CountsBounded, Carries,
     Code, Compares, SubInv, SubsKnown, InsertIsFirst, AppendIsOnce, RemovedIsGone,
     SubscriptionsListed, Edits, Sub, At
<1>. QED
  BY <1>2, <1>3

LEMMA StoreInvHolds == Spec => []IInv
BY StoreInit, StoreNext, PTL DEF Spec

(* Every reachable state of the user store has the declared types.         *)
THEOREM TypeCorrect == Spec => []TypeOK
<1>1. IInv => TypeOK
  BY DEF IInv
<1>. QED
  BY <1>1, StoreInvHolds, PTL

(* A code verifies a phone once, whatever requests replace the OTP in the   *)
(* middle of a verification and whenever the server restarts.               *)
THEOREM AcceptedOnce == Spec => []CodeAcceptedOnce
<1>1. IInv => CodeAcceptedOnce
  BY DEF IInv, OtpInv, SpentIsGone, CodeAcceptedOnce
<1>. QED
  BY <1>1, StoreInvHolds, PTL

(* No code is compared more often than its attempts allow, but once if its  *)
(* row is replaced under a verification that has read it.                   *)
THEOREM TriesBounded == Spec => []AttemptsBounded
<1>1. IInv => AttemptsBounded
  BY DEF IInv, OtpInv, TriesCounted, AttemptsBounded
<1>. QED
  BY <1>1, StoreInvHolds, PTL

(* The cached citizen lists every subscription of the table, but for those  *)
(* whose request is about to append them.                                   *)
THEOREM CacheListsSubscriptions == Spec => []SubscriptionsListed
<1>1. IInv => SubscriptionsListed
  BY DEF IInv, SubInv
<1>. QED
  BY <1>1, StoreInvHolds, PTL
=============================================================================
