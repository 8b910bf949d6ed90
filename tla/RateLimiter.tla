----------------------------- MODULE RateLimiter ----------------------------
(***************************************************************************)
(* MultiDimensionRateLimiter (services/notifications/security.py): a       *)
(* sliding window per key, and a lockout for whoever exceeds it. The login *)
(* endpoint (main.py) and request_otp (user_store.py) ask it on the        *)
(* request pool's threads.                                                 *)
(*                                                                         *)
(* A thread reads the time, then waits for the lock: by when it holds it   *)
(* others may have been served with later times. How long it may wait is   *)
(* MaxDelay, and the bound that holds of the window depends on it.         *)
(***************************************************************************)
EXTENDS Integers, Sequences, FiniteSets

CONSTANTS
    Callers,       \* threads
    LimitKeys,     \* dimension:identifier
    MaxRequests,   \* per window
    Window,        \* window_seconds
    Lockout,       \* lockout_seconds_on_breach
    MaxDelay,      \* bound: between reading the time and holding the lock
    MaxTime        \* bound: time

ASSUME LimiterAssumption ==
    /\ MaxRequests \in Nat \ {0} /\ Window \in Nat /\ Lockout \in Nat
    /\ MaxDelay \in Nat /\ MaxTime \in Nat

VARIABLES
    time,
    asking,    \* caller -> the key it asks for and the time it read
    granted,   \* history: key -> the requests granted since it was reset
    recorded,  \* _requests: key -> the positions in granted it still lists
    lockedTo,  \* _lockouts: key -> the end of its lockout, NoLockout if it has none
    imposed    \* history: key -> the latest end of a lockout since it was reset

limiterVars == <<time, asking, granted, recorded, lockedTo, imposed>>

NoLockout == -1
Grant == [read : Nat, at : Nat, after : Nat]
Asking == [key : LimitKeys, read : Nat]
Quiet == [key |-> NoLockout]

LimiterTypeOK ==
    /\ time \in Nat
    /\ asking \in [Callers -> Asking \cup {Quiet}]
    /\ granted \in [LimitKeys -> Seq(Grant)]
    /\ recorded \in [LimitKeys -> SUBSET Nat]
    /\ \A k \in LimitKeys : recorded[k] \subseteq 1 .. Len(granted[k])
    /\ lockedTo \in [LimitKeys -> Nat \cup {NoLockout}]
    /\ imposed \in [LimitKeys -> Nat]

LimiterInit ==
    /\ time = 0
    /\ asking = [t \in Callers |-> Quiet]
    /\ granted = [k \in LimitKeys |-> <<>>]
    /\ recorded = [k \in LimitKeys |-> {}]
    /\ lockedTo = [k \in LimitKeys |-> NoLockout]
    /\ imposed = [k \in LimitKeys |-> 0]
-----------------------------------------------------------------------------
(* now = time.time(), before the lock *)
ReadTime(t, k) ==
    /\ asking[t] = Quiet
    /\ asking' = [asking EXCEPT ![t] = [key |-> k, read |-> time]]
    /\ UNCHANGED <<time, granted, recorded, lockedTo, imposed>>

Locked(t) ==
    LET k == asking[t].key
    IN  lockedTo[k] # NoLockout /\ asking[t].read < lockedTo[k]

(* Mutant: what was granted a whole window ago still counts, what was       *)
(* granted in this one does not.                                            *)
InWindowAfter(t) ==
    LET k == asking[t].key
    IN  {i \in recorded[k] : granted[k][i].read <= asking[t].read - Window}

(* What is left of the list when timestamps out of the window are pruned *)
InWindow(t) ==
    LET k == asking[t].key
    IN  {i \in recorded[k] : granted[k][i].read > asking[t].read - Window}

RefuseLocked(t) ==
    /\ asking[t] # Quiet /\ Locked(t)
    /\ asking' = [asking EXCEPT ![t] = Quiet]
    /\ UNCHANGED <<time, granted, recorded, lockedTo, imposed>>

Later(a, b) == IF a < b THEN b ELSE a

(* Mutant: a breach is refused and locks nobody out. *)
BreachOnly(t) ==
    LET k == asking[t].key
    IN  /\ asking[t] # Quiet /\ ~Locked(t)
        /\ Cardinality(InWindow(t)) >= MaxRequests
        /\ recorded' = [recorded EXCEPT ![k] = InWindow(t)]
        /\ lockedTo' = [lockedTo EXCEPT ![k] = NoLockout]
        /\ imposed' = [imposed EXCEPT ![k] = Later(@, asking[t].read + Lockout)]
        /\ asking' = [asking EXCEPT ![t] = Quiet]
        /\ UNCHANGED <<time, granted>>

RefuseBreach(t) ==
    LET k == asking[t].key
    IN  /\ asking[t] # Quiet /\ ~Locked(t)
        /\ Cardinality(InWindow(t)) >= MaxRequests
        /\ recorded' = [recorded EXCEPT ![k] = InWindow(t)]
        /\ lockedTo' = [lockedTo EXCEPT ![k] = asking[t].read + Lockout]
        /\ imposed' = [imposed EXCEPT ![k] = Later(@, asking[t].read + Lockout)]
        /\ asking' = [asking EXCEPT ![t] = Quiet]
        /\ UNCHANGED <<time, granted>>

GrantRequest(t) ==
    LET k == asking[t].key
    IN  /\ asking[t] # Quiet /\ ~Locked(t)
        /\ Cardinality(InWindow(t)) < MaxRequests
        /\ recorded' = [recorded EXCEPT ![k] = InWindow(t) \cup {Len(granted[k]) + 1}]
        /\ granted' = [granted EXCEPT ![k] =
               Append(@, [read |-> asking[t].read, at |-> time, after |-> imposed[k]])]
        /\ lockedTo' = [lockedTo EXCEPT ![k] = NoLockout]
        /\ asking' = [asking EXCEPT ![t] = Quiet]
        /\ UNCHANGED <<time, imposed>>

(* reset_limit *)
ResetLimit(k) ==
    /\ granted' = [granted EXCEPT ![k] = <<>>]
    /\ recorded' = [recorded EXCEPT ![k] = {}]
    /\ lockedTo' = [lockedTo EXCEPT ![k] = NoLockout]
    /\ imposed' = [imposed EXCEPT ![k] = 0]
    /\ UNCHANGED <<time, asking>>

TimePasses ==
    /\ time < MaxTime
    /\ \A t \in Callers : asking[t] # Quiet => time < asking[t].read + MaxDelay
    /\ time' = time + 1
    /\ UNCHANGED <<asking, granted, recorded, lockedTo, imposed>>

LimiterNext ==
    \/ TimePasses
    \/ \E t \in Callers :
           \/ \E k \in LimitKeys : ReadTime(t, k)
           \/ RefuseLocked(t) \/ RefuseBreach(t) \/ GrantRequest(t)
    \/ \E k \in LimitKeys : ResetLimit(k)

LimiterSpec == LimiterInit /\ [][LimiterNext]_limiterVars
-----------------------------------------------------------------------------
(* However threads overtake each other between reading the time and holding *)
(* the lock, a key is never granted more than MaxRequests requests within   *)
(* its window less the time a thread may wait for the lock. (Within the     *)
(* whole window it may: a late thread prunes nothing of its own, an early   *)
(* one has pruned what the late one should have counted.)                   *)
QuotaKept ==
    \A k \in LimitKeys : \A i \in 1 .. Len(granted[k]) :
        i + MaxRequests <= Len(granted[k]) =>
            granted[k][i + MaxRequests].at - granted[k][i].at >= Window - MaxDelay

(* No request is granted before the end of any lockout imposed on its key,  *)
(* although a request deletes the lockout it finds expired and another with *)
(* an earlier time is served after it.                                      *)
LockoutHolds ==
    \A k \in LimitKeys : \A i \in 1 .. Len(granted[k]) :
        granted[k][i].at >= granted[k][i].after
=============================================================================
