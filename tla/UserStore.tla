------------------------------ MODULE UserStore ------------------------------
(***************************************************************************)
(* services/notifications/user_store.py and its tables: registration, OTP  *)
(* verification and subscriptions of one citizen.                          *)
(*                                                                         *)
(* A request runs on a thread of the pool. What a method does under _lock  *)
(* is one step, unless a transaction of a method that does not take the    *)
(* lock can fall between its own: then it is one step per transaction. A   *)
(* restart loses the cache and the requests under way, not the tables.     *)
(***************************************************************************)
EXTENDS Integers, FiniteSets

CONSTANTS
    Threads,         \* threads that serve this citizen's requests
    MaxOtpAttempts,  \* max_otp_attempts
    MaxCodes,        \* bound: OTPs requested
    MaxSubs,         \* bound: subscriptions created
    MaxRestarts      \* bound: restarts of the server

ASSUME ThreadsAssumption == IsFiniteSet(Threads) /\ "free" \notin Threads
ASSUME BoundsAssumption ==
    /\ MaxOtpAttempts \in Nat \ {0}
    /\ MaxCodes \in Nat /\ MaxSubs \in Nat /\ MaxRestarts \in Nat

VARIABLES
    row,       \* users: the citizen's row
    otp,       \* user_verifications: the OTP's row
    subs,      \* location_subscriptions: the ids of the rows
    byPhone,   \* _users[phone_hash]: phone_verified of that object
    byId,      \* _users[user_id]: phone_verified, whether its phone_number is
               \* masked, and how often it lists a row of subs
    lock,      \* _lock: who holds it
    pc,        \* thread -> where its request stands
    arg,       \* thread -> the OTP or the subscription its request is about
    codes,     \* OTPs generated
    created,   \* subscriptions created
    restarts,  \* restarts
    accepted,  \* history: OTP -> times it was accepted
    tries,     \* history: OTP -> times something was compared with it
    answered   \* history: a request was answered VERIFIED

tables == <<row, otp, subs>>
cache == <<byPhone, byId>>
history == <<accepted, tries, answered>>
counters == <<codes, created, restarts>>
vars == <<tables, cache, lock, pc, arg, counters, history>>

Codes == 1 .. MaxCodes
SubIds == 1 .. MaxSubs
Flag == {"absent", "unverified", "verified"}
NoOtp == [code |-> 0, attempts |-> 0, expired |-> FALSE]
(* A restart between counting and locking out costs one attempt more. *)
Otp == [code : 0 .. MaxCodes, attempts : 0 .. MaxOtpAttempts + 1 + MaxRestarts,
        expired : BOOLEAN]
NotLoaded == [flag |-> "absent", masked |-> FALSE, listed |-> [s \in SubIds |-> 0]]
(* What a request in progress carries; the fields it does not use are nil. *)
Nil == [otp |-> NoOtp, guess |-> 0, sub |-> 0]

TypeOK ==
    /\ row \in Flag /\ otp \in Otp /\ subs \subseteq SubIds
    /\ byPhone \in Flag
    /\ byId \in [flag : Flag, masked : BOOLEAN, listed : [SubIds -> 0 .. 2]]
    /\ lock \in Threads \cup {"free"}
    /\ pc \in [Threads -> {"idle", "store", "register", "verify", "compare", "lookup",
                           "relock", "insert", "append", "remove"}]
    /\ arg \in [Threads -> [otp : Otp, guess : 0 .. MaxCodes, sub : 0 .. MaxSubs]]
    /\ codes \in 0 .. MaxCodes /\ created \in 0 .. MaxSubs /\ restarts \in 0 .. MaxRestarts
    /\ accepted \in [Codes -> Nat] /\ tries \in [Codes -> Nat] /\ answered \in BOOLEAN

Init ==
    /\ row = "absent" /\ otp = NoOtp /\ subs = {}
    /\ byPhone = "absent" /\ byId = NotLoaded
    /\ lock = "free"
    /\ pc = [t \in Threads |-> "idle"] /\ arg = [t \in Threads |-> Nil]
    /\ codes = 0 /\ created = 0 /\ restarts = 0
    /\ accepted = [c \in Codes |-> 0] /\ tries = [c \in Codes |-> 0]
    /\ answered = FALSE

At(t, where) == pc[t] = where
Goto(t, where) == pc' = [pc EXCEPT ![t] = where]
Begin(t, where, a) == At(t, "idle") /\ Goto(t, where) /\ arg' = [arg EXCEPT ![t] = a]
Return(t) == Goto(t, "idle") /\ arg' = [arg EXCEPT ![t] = Nil]
Unlocked == lock = "free"

(* A User object made of the rows, which have the masked number only. *)
Loaded(flag, masked) ==
    [flag |-> flag, masked |-> masked,
     listed |-> [s \in SubIds |-> IF s \in subs THEN 1 ELSE 0]]

(* register_user: one section under the lock. *)
RegisterUser ==
    /\ Unlocked
    /\ IF byPhone # "absent" THEN UNCHANGED <<row, cache>>
       ELSE /\ row' = IF row = "absent" THEN "unverified" ELSE row
            /\ byPhone' = row'
            /\ byId' = Loaded(row', FALSE)
Register(t) ==
    /\ At(t, "idle") /\ RegisterUser
    /\ UNCHANGED <<otp, subs, lock, pc, arg, counters, history>>

(* get_user_by_id, as the endpoints and get_all_users call it. *)
LoadById ==
    /\ Unlocked
    /\ row # "absent"
    /\ byId' = IF byId.flag = "absent" THEN Loaded(row, TRUE) ELSE byId
GetUserById(t) ==
    /\ At(t, "idle") /\ LoadById
    /\ UNCHANGED <<tables, byPhone, lock, pc, arg, counters, history>>

(* request_otp: the code into the sink under the lock, its row, the user. *)
RequestOtp(t) ==
    /\ codes < MaxCodes /\ Unlocked
    /\ codes' = codes + 1
    /\ Begin(t, "store", [Nil EXCEPT !.otp.code = codes'])
    /\ UNCHANGED <<tables, cache, lock, created, restarts, history>>
StoreOtp(t) ==
    /\ At(t, "store") /\ Goto(t, "register")
    /\ otp' = arg[t].otp
    /\ UNCHANGED <<row, subs, cache, lock, arg, counters, history>>
RequestRegisters(t) ==
    /\ At(t, "register") /\ Return(t) /\ RegisterUser
    /\ UNCHANGED <<otp, subs, lock, counters, history>>

Expire ==
    /\ otp # NoOtp /\ ~otp.expired
    /\ otp' = [otp EXCEPT !.expired = TRUE]
    /\ UNCHANGED <<row, subs, cache, lock, pc, arg, counters, history>>

(* verify_otp holds the lock from the first transaction to the last; only   *)
(* request_otp's, which does not take it, falls between them.               *)
(* Mutant: the lock is acquired by hand and an early return keeps it. *)
ReadOtpKeepsLock(t, guess) ==
    /\ Unlocked /\ lock' = t
    /\ \/ otp = NoOtp /\ UNCHANGED <<pc, arg>>
       \/ otp # NoOtp /\ Begin(t, "verify", [Nil EXCEPT !.otp = otp, !.guess = guess])
    /\ UNCHANGED <<tables, cache, counters, history>>
ReadOtp(t, guess) ==
    /\ Unlocked /\ otp # NoOtp /\ lock' = t
    /\ Begin(t, "verify", [Nil EXCEPT !.otp = otp, !.guess = guess])
    /\ UNCHANGED <<tables, cache, counters, history>>

DeleteExpired(t) ==
    /\ At(t, "verify") /\ arg[t].otp.expired
    /\ otp' = NoOtp /\ lock' = "free" /\ Return(t)
    /\ UNCHANGED <<row, subs, cache, counters, history>>

(* Mutant: increment_attempt returns the number before the update. *)
CountedBefore(t) == IF otp.code = arg[t].otp.code THEN otp.attempts ELSE MaxOtpAttempts
(* increment_attempt returns 3 when the row is no longer there. *)
Counted(t) == IF otp.code = arg[t].otp.code THEN otp.attempts + 1 ELSE MaxOtpAttempts
CountAttempt(t) ==
    /\ At(t, "verify") /\ ~arg[t].otp.expired /\ Goto(t, "compare")
    /\ otp' = IF otp.code = arg[t].otp.code THEN [otp EXCEPT !.attempts = @ + 1] ELSE otp
    /\ arg' = [arg EXCEPT ![t].otp.attempts = Counted(t)]
    /\ UNCHANGED <<row, subs, cache, lock, counters, history>>

(* Mutant: locking out forgets to delete the OTP. *)
LockOutKeepsOtp(t) ==
    /\ At(t, "compare") /\ arg[t].otp.attempts > MaxOtpAttempts
    /\ lock' = "free" /\ Return(t)
    /\ UNCHANGED <<tables, cache, counters, history>>
(* delete_otp is by phone number: it deletes whatever OTP is there. *)
LockOut(t) ==
    /\ At(t, "compare") /\ arg[t].otp.attempts > MaxOtpAttempts
    /\ otp' = NoOtp /\ lock' = "free" /\ Return(t)
    /\ UNCHANGED <<row, subs, cache, counters, history>>

Compared(t) ==
    /\ At(t, "compare") /\ arg[t].otp.attempts <= MaxOtpAttempts
    /\ lock' = "free"
    /\ tries' = [tries EXCEPT ![arg[t].otp.code] = @ + 1]
Reject(t) ==
    /\ Compared(t) /\ arg[t].guess # arg[t].otp.code
    /\ Return(t)
    /\ UNCHANGED <<tables, cache, counters, accepted, answered>>

(* Mutant: a code that was accepted is left for its time to run out. *)
AcceptKeepsOtp(t) ==
    /\ Compared(t) /\ arg[t].guess = arg[t].otp.code
    /\ row' = IF row = "absent" THEN row ELSE "verified"
    /\ accepted' = [accepted EXCEPT ![arg[t].otp.code] = @ + 1]
    /\ Goto(t, "lookup")
    /\ UNCHANGED <<otp, subs, cache, arg, counters, answered>>
(* The cached objects keep the flag they were loaded with. *)
Accept(t) ==
    /\ Compared(t) /\ arg[t].guess = arg[t].otp.code
    /\ otp' = NoOtp
    /\ row' = IF row = "absent" THEN row ELSE "verified"
    /\ accepted' = [accepted EXCEPT ![arg[t].otp.code] = @ + 1]
    /\ Goto(t, "lookup")
    /\ UNCHANGED <<subs, cache, arg, counters, answered>>

(* verify_phone_endpoint asks get_user_by_phone for the id. If the phone is *)
(* not cached, that calls get_user_by_id and waits for the lock it holds.   *)
Answer(t) ==
    /\ At(t, "lookup") /\ Unlocked
    /\ row = "absent" \/ byPhone # "absent"
    /\ answered' = TRUE /\ Return(t)
    /\ UNCHANGED <<tables, cache, lock, counters, accepted, tries>>
GetUserByPhone(t) ==
    /\ At(t, "lookup") /\ Unlocked
    /\ row # "absent" /\ byPhone = "absent"
    /\ lock' = t /\ Goto(t, "relock")
    /\ UNCHANGED <<tables, cache, arg, counters, history>>

(* add_subscription *)
AddSubscription(t) ==
    /\ created < MaxSubs /\ created' = created + 1
    /\ LoadById
    /\ Begin(t, "insert", [Nil EXCEPT !.sub = created'])
    /\ UNCHANGED <<tables, byPhone, lock, codes, restarts, history>>
InsertRow(t) ==
    /\ At(t, "insert") /\ Goto(t, "append")
    /\ subs' = subs \cup {arg[t].sub}
    /\ UNCHANGED <<row, otp, cache, lock, arg, counters, history>>
(* Mutant: the object is looked up by the phone number. *)
AppendByPhone(t) ==
    /\ At(t, "append") /\ Unlocked /\ Return(t)
    /\ byId' = IF byPhone = "absent" THEN byId
               ELSE [byId EXCEPT !.listed[arg[t].sub] = @ + 1]
    /\ UNCHANGED <<tables, byPhone, lock, counters, history>>
AppendToCache(t) ==
    /\ At(t, "append") /\ Unlocked /\ Return(t)
    /\ byId' = IF byId.flag = "absent" THEN byId
               ELSE [byId EXCEPT !.listed[arg[t].sub] = @ + 1]
    /\ UNCHANGED <<tables, byPhone, lock, counters, history>>

(* delete_subscription, of an id the citizen saw in his list. *)
DeleteSubscription(t, s) ==
    /\ byId.listed[s] > 0 /\ s \in subs
    /\ subs' = subs \ {s}
    /\ Begin(t, "remove", [Nil EXCEPT !.sub = s])
    /\ UNCHANGED <<row, otp, cache, lock, counters, history>>
RemoveFromCache(t) ==
    /\ At(t, "remove") /\ Unlocked /\ Return(t)
    /\ byId' = [byId EXCEPT !.listed[arg[t].sub] = 0]
    /\ UNCHANGED <<tables, byPhone, lock, counters, history>>

Restart ==
    /\ restarts < MaxRestarts /\ restarts' = restarts + 1
    /\ byPhone' = "absent" /\ byId' = NotLoaded /\ lock' = "free"
    /\ pc' = [t \in Threads |-> "idle"] /\ arg' = [t \in Threads |-> Nil]
    /\ UNCHANGED <<tables, codes, created, history>>

Proceed(t) ==
    \/ StoreOtp(t) \/ RequestRegisters(t)
    \/ DeleteExpired(t) \/ CountAttempt(t) \/ LockOut(t) \/ Reject(t) \/ Accept(t)
    \/ Answer(t) \/ GetUserByPhone(t)
    \/ InsertRow(t) \/ AppendToCache(t) \/ RemoveFromCache(t)

Next ==
    \/ \E t \in Threads :
          \/ Register(t) \/ GetUserById(t) \/ RequestOtp(t) \/ AddSubscription(t)
          \/ \E guess \in 0 .. codes : ReadOtp(t, guess)
          \/ \E s \in SubIds : DeleteSubscription(t, s)
          \/ Proceed(t)
    \/ Expire
    \/ Restart

(* A thread runs on, and gets a lock that is free again and again. *)
Fairness == \A t \in Threads : SF_vars(Proceed(t))

Spec == Init /\ [][Next]_vars /\ Fairness
-----------------------------------------------------------------------------
(***************************************************************************)
(* Properties.                                                             *)
(***************************************************************************)

(* A code verifies a phone once, whatever a new request does to the OTP's   *)
(* row in the middle of a verification.                                     *)
CodeAcceptedOnce == \A c \in Codes : accepted[c] <= 1

(* An OTP is compared at most max_otp_attempts times, and once more if it   *)
(* is replaced in the middle of a verification that read it before.         *)
AttemptsBounded == \A c \in Codes : tries[c] <= MaxOtpAttempts + 1

(* The fan-out, which reads the cached object, does not miss a subscription *)
(* that is in the table, but for one whose request is still to append it.   *)
SubscriptionsListed ==
    byId.flag # "absent" =>
        \A s \in subs : byId.listed[s] > 0 \/ \E t \in Threads : At(t, "append") /\ arg[t].sub = s

(* A request ends, unless a thread waits for the lock that it holds itself  *)
(* or the server restarts.                                                  *)
Stuck == \E t \in Threads : At(t, "relock") /\ lock = t
RequestsEndUnlessStuck ==
    \A t \in Threads : pc[t] # "idle" ~> pc[t] = "idle" \/ Stuck
-----------------------------------------------------------------------------
(***************************************************************************)
(* What the code's own text says and the code does not do.                 *)
(***************************************************************************)

(* "Thread-safe user registry": a citizen who verifies his phone after a    *)
(* restart leaves his thread waiting for itself, and all others for it.     *)
LockIsReleased == []<>(lock = "free")
=============================================================================
