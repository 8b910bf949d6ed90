--------------------------- MODULE ServicesProofs ---------------------------
(***************************************************************************)
(* Theorems of the services that share no state with one another, each for *)
(* any threads, keys, sources and requests: the rate limiter's quota and   *)
(* lockouts, the bound of the forecast cache, the detector of anomalies,   *)
(* the digital twin and the policy of notifications.                       *)
(***************************************************************************)
EXTENDS RateLimiter, ForecastCache, AnomalyDetection, SourceOutage, NotificationPolicy,
        BasinTwin, FiniteSetTheorems, SequenceTheorems, TLAPS
-----------------------------------------------------------------------------
(*                            The rate limiter                             *)

(* A thread has waited for the lock no longer than it may. *)
ReadsRecent ==
    \A t \in Callers : asking[t] # Quiet =>
        asking[t].read <= time /\ time <= asking[t].read + MaxDelay

(* A request was granted no later after its reading than that, and not in   *)
(* the future.                                                              *)
Grants ==
    \A k \in LimitKeys : \A i \in 1 .. Len(granted[k]) :
        /\ granted[k][i].at <= granted[k][i].read + MaxDelay
        /\ granted[k][i].at <= time

InOrder ==
    \A k \in LimitKeys : \A i, j \in 1 .. Len(granted[k]) :
        i <= j => granted[k][i].at <= granted[k][j].at

(* What the list no longer has was read a whole window ago, by the clock of *)
(* whoever pruned it and so by the one of now.                              *)
Pruned ==
    \A k \in LimitKeys : \A i \in 1 .. Len(granted[k]) :
        i \notin recorded[k] => granted[k][i].read + Window <= time

(* The latest lockout is over, or is the one in force. *)
Lockouts ==
    \A k \in LimitKeys :
        \/ imposed[k] <= time
        \/ lockedTo[k] # NoLockout /\ imposed[k] <= lockedTo[k]

LimiterInv ==
    /\ LimiterTypeOK /\ ReadsRecent /\ Grants /\ InOrder /\ Pruned /\ Lockouts
    /\ QuotaKept /\ LockoutHolds
-----------------------------------------------------------------------------
LEMMA Appended ==
    ASSUME NEW s \in Seq(Grant), NEW g \in Grant
    PROVE  /\ Append(s, g) \in Seq(Grant)
           /\ Len(s) \in Nat /\ Len(Append(s, g)) = Len(s) + 1
           /\ \A i \in 1 .. Len(s) : Append(s, g)[i] = s[i]
           /\ Append(s, g)[Len(s) + 1] = g
  BY AppendProperties, LenProperties

LEMMA GrantFields ==
    ASSUME NEW s \in Seq(Grant), NEW i \in 1 .. Len(s)
    PROVE  s[i].read \in Nat /\ s[i].at \in Nat /\ s[i].after \in Nat
<1>1. s[i] \in Grant
  BY ElementOfSeq
<1>. QED
  BY <1>1 DEF Grant

(* Of the last MaxRequests positions one is missing from any list that has  *)
(* room left.                                                               *)
LEMMA OneMissing ==
    ASSUME NEW n \in Nat, n >= MaxRequests,
           NEW S \in SUBSET (1 .. n), Cardinality(S) < MaxRequests
    PROVE  \E j \in (n - MaxRequests + 1) .. n : j \notin S
<1>. DEFINE tail == (n - MaxRequests + 1) .. n
<1>. SUFFICES ASSUME tail \subseteq S PROVE FALSE
  OBVIOUS
<1>1. MaxRequests \in Nat /\ n - MaxRequests + 1 \in Int /\ n \in Int
  BY LimiterAssumption
<1>2. IsFiniteSet(1 .. n)
  BY <1>1, FS_Interval
<1>3. IsFiniteSet(S)
  BY <1>2, FS_Subset
<1>4. Cardinality(tail) = MaxRequests
  BY <1>1, FS_Interval, LimiterAssumption
<1>5. Cardinality(tail) <= Cardinality(S) /\ Cardinality(S) \in Nat
  BY <1>3, FS_Subset, FS_CardinalityType
<1>. QED
  BY <1>1, <1>4, <1>5

LEMMA LimiterInvInit == LimiterInit => LimiterInv
<1>. SUFFICES ASSUME LimiterInit PROVE LimiterInv
  OBVIOUS
<1>1. \A k \in LimitKeys : granted[k] = <<>> /\ Len(granted[k]) = 0
  BY DEF LimiterInit
<1>2. LimiterTypeOK
  BY DEF LimiterInit, LimiterTypeOK
<1>3. ReadsRecent /\ Grants /\ InOrder /\ Pruned /\ Lockouts
  BY <1>1 DEF LimiterInit, ReadsRecent, Grants, InOrder, Pruned, Lockouts
<1>4. QuotaKept /\ LockoutHolds
  BY <1>1, LimiterAssumption DEF QuotaKept, LockoutHolds
<1>. QED
  BY <1>2, <1>3, <1>4 DEF LimiterInv

(* What a granted request adds to the history of its key. *)
LEMMA Granted ==
    ASSUME LimiterInv, NEW t \in Callers, GrantRequest(t),
           NEW k, k = asking[t].key
    PROVE  /\ k \in LimitKeys
           /\ asking[t].read \in Nat /\ asking[t].read <= time
           /\ time <= asking[t].read + MaxDelay
           /\ Len(granted[k]) \in Nat
           /\ granted' \in [LimitKeys -> Seq(Grant)]
           /\ Len(granted'[k]) = Len(granted[k]) + 1
           /\ \A i \in 1 .. Len(granted[k]) : granted'[k][i] = granted[k][i]
           /\ granted'[k][Len(granted[k]) + 1] =
                  [read |-> asking[t].read, at |-> time, after |-> imposed[k]]
           /\ \A l \in LimitKeys \ {k} : granted'[l] = granted[l]
           /\ UNCHANGED <<time, imposed>>
           /\ asking' = [asking EXCEPT ![t] = Quiet]
<1>1. asking[t] \in Asking
  BY DEF GrantRequest, LimiterInv, LimiterTypeOK
<1>2. k \in LimitKeys /\ asking[t].read \in Nat /\ time \in Nat
  BY <1>1 DEF Asking, LimiterInv, LimiterTypeOK
<1>3. asking[t].read <= time /\ time <= asking[t].read + MaxDelay
  BY DEF GrantRequest, LimiterInv, ReadsRecent
<1>. DEFINE g == [read |-> asking[t].read, at |-> time, after |-> imposed[k]]
<1>4. g \in Grant
  BY <1>2 DEF Grant, LimiterInv, LimiterTypeOK
<1>5. granted[k] \in Seq(Grant)
  BY <1>2 DEF LimiterInv, LimiterTypeOK
<1>6. granted' = [granted EXCEPT ![k] = Append(@, g)]
  BY DEF GrantRequest
<1>7. granted'[k] = Append(granted[k], g)
  BY <1>2, <1>6 DEF LimiterInv, LimiterTypeOK
<1>8. \A l \in LimitKeys \ {k} : granted'[l] = granted[l]
  BY <1>6 DEF LimiterInv, LimiterTypeOK
<1>9. Append(granted[k], g) \in Seq(Grant)
  BY <1>4, <1>5, Appended
<1>10. granted' \in [LimitKeys -> Seq(Grant)]
  BY <1>6, <1>9 DEF LimiterInv, LimiterTypeOK
<1>. HIDE DEF g
<1>11. /\ Len(granted[k]) \in Nat
       /\ Len(granted'[k]) = Len(granted[k]) + 1
       /\ \A i \in 1 .. Len(granted[k]) : granted'[k][i] = granted[k][i]
       /\ granted'[k][Len(granted[k]) + 1] = g
  BY <1>4, <1>5, <1>7, Appended
<1>12. UNCHANGED <<time, imposed>> /\ asking' = [asking EXCEPT ![t] = Quiet]
  BY DEF GrantRequest
<1>. QED
  BY <1>2, <1>3, <1>8, <1>10, <1>11, <1>12 DEF g

(* The lists that a request leaves are lists of positions still. *)
LEMMA ListedStill ==
    ASSUME LimiterInv, NEW t \in Callers, asking[t] # Quiet
    PROVE  /\ asking[t].key \in LimitKeys /\ asking[t].read \in Nat
           /\ asking[t].read <= time
           /\ InWindow(t) \subseteq recorded[asking[t].key]
           /\ InWindow(t) \subseteq 1 .. Len(granted[asking[t].key])
           /\ \A i \in 1 .. Len(granted[asking[t].key]) :
                 i \notin InWindow(t) =>
                     granted[asking[t].key][i].read + Window <= time
<1>1. asking[t] \in Asking
  BY DEF LimiterInv, LimiterTypeOK
<1>2. asking[t].key \in LimitKeys /\ asking[t].read \in Nat
  BY <1>1 DEF Asking
<1>3. asking[t].read <= time /\ time \in Nat
  BY DEF LimiterInv, LimiterTypeOK, ReadsRecent
<1>. DEFINE k == asking[t].key
<1>4. recorded[k] \subseteq 1 .. Len(granted[k]) /\ granted[k] \in Seq(Grant)
  BY <1>2 DEF LimiterInv, LimiterTypeOK
<1>5. \A i \in 1 .. Len(granted[k]) : granted[k][i].read \in Nat
  BY <1>4, GrantFields
<1>6. \A i \in 1 .. Len(granted[k]) : i \notin InWindow(t) =>
          granted[k][i].read + Window <= time
  <2>. SUFFICES ASSUME NEW i \in 1 .. Len(granted[k]), i \notin InWindow(t)
                PROVE  granted[k][i].read + Window <= time
    OBVIOUS
  <2>1. i \notin recorded[k] \/ ~(granted[k][i].read > asking[t].read - Window)
    BY DEF InWindow
  <2>2. CASE i \notin recorded[k]
    BY <1>2, <2>2 DEF LimiterInv, Pruned
  <2>3. CASE ~(granted[k][i].read > asking[t].read - Window)
    <3>1. granted[k][i].read \in Nat /\ Window \in Nat
      BY <1>5, LimiterAssumption
    <3>. HIDE DEF k
    <3>. QED
      BY <1>2, <1>3, <2>3, <3>1
  <2>. QED
    BY <2>1, <2>2, <2>3
<1>. QED
  BY <1>2, <1>3, <1>4, <1>6 DEF InWindow

LEMMA AtLeastApart ==
    ASSUME NEW a \in Nat, NEW b \in Nat, NEW r \in Nat, NEW now \in Nat,
           r + Window <= now, b <= r + MaxDelay, a <= b
    PROVE  a + (Window - MaxDelay) <= now
  BY LimiterAssumption

LEMMA GrantInv == ASSUME LimiterInv, NEW t \in Callers, GrantRequest(t) PROVE LimiterInv'
<1>. DEFINE k == asking[t].key
            n == Len(granted[k])
            g == granted'[k][n + 1]
<1>1. /\ k \in LimitKeys
      /\ asking[t].read \in Nat /\ asking[t].read <= time
      /\ time <= asking[t].read + MaxDelay
      /\ n \in Nat
      /\ granted' \in [LimitKeys -> Seq(Grant)]
      /\ Len(granted'[k]) = n + 1
      /\ \A i \in 1 .. n : granted'[k][i] = granted[k][i]
      /\ g = [read |-> asking[t].read, at |-> time, after |-> imposed[k]]
      /\ \A l \in LimitKeys \ {k} : granted'[l] = granted[l]
      /\ UNCHANGED <<time, imposed>>
      /\ asking' = [asking EXCEPT ![t] = Quiet]
  BY Granted
<1>2. /\ asking[t] # Quiet /\ InWindow(t) \subseteq recorded[k]
      /\ InWindow(t) \subseteq 1 .. n
      /\ \A i \in 1 .. n : i \notin InWindow(t) => granted[k][i].read + Window <= time
  BY ListedStill DEF GrantRequest
<1>3. /\ g.read = asking[t].read /\ g.at = time /\ g.after = imposed[k]
      /\ time \in Nat /\ imposed[k] \in Nat /\ MaxDelay \in Nat /\ Window \in Nat
      /\ MaxRequests \in Nat
  BY <1>1, LimiterAssumption DEF LimiterInv, LimiterTypeOK
<1>. HIDE DEF g
<1>4. /\ recorded' \in [LimitKeys -> SUBSET Nat]
      /\ recorded'[k] = InWindow(t) \cup {n + 1}
      /\ \A l \in LimitKeys \ {k} : recorded'[l] = recorded[l]
      /\ lockedTo' = [lockedTo EXCEPT ![k] = NoLockout]
  BY <1>1, <1>2 DEF GrantRequest, LimiterInv, LimiterTypeOK
<1>5. \A l \in LimitKeys : \A i \in 1 .. Len(granted[l]) :
          granted[l][i].read \in Nat /\ granted[l][i].at \in Nat /\ granted[l][i].after \in Nat
  BY GrantFields DEF LimiterInv, LimiterTypeOK
<1>6. \A i \in 1 .. n + 1 : i \in 1 .. n \/ i = n + 1
  BY <1>1
<1>7. LimiterTypeOK'
  <2>1. recorded'[k] \subseteq 1 .. Len(granted'[k])
    <3>1. InWindow(t) \subseteq 1 .. n + 1 /\ n + 1 \in 1 .. n + 1
      BY <1>1, <1>2
    <3>. QED
      BY <1>1, <1>4, <3>1
  <2>4. \A l \in LimitKeys \ {k} : recorded'[l] \subseteq 1 .. Len(granted'[l])
    BY <1>1, <1>4 DEF LimiterInv, LimiterTypeOK
  <2>2. asking' \in [Callers -> Asking \cup {Quiet}] /\ time' \in Nat
    BY <1>1, <1>3 DEF LimiterInv, LimiterTypeOK
  <2>3. lockedTo' \in [LimitKeys -> Nat \cup {NoLockout}]
        /\ imposed' \in [LimitKeys -> Nat]
    BY <1>1, <1>4 DEF LimiterInv, LimiterTypeOK
  <2>. QED
    BY <1>1, <1>4, <2>1, <2>2, <2>3, <2>4 DEF LimiterTypeOK
<1>8. ReadsRecent'
  BY <1>1 DEF LimiterInv, LimiterTypeOK, ReadsRecent
<1>9. Grants'
  <2>1. \A i \in 1 .. n : granted[k][i].at <= granted[k][i].read + MaxDelay
                         /\ granted[k][i].at <= time
    BY <1>1 DEF LimiterInv, Grants
  <2>2. g.at <= g.read + MaxDelay /\ g.at <= time
    BY <1>1, <1>3
  <2>3. \A i \in 1 .. n + 1 : /\ granted'[k][i].at <= granted'[k][i].read + MaxDelay
                              /\ granted'[k][i].at <= time
    BY <1>1, <1>6, <2>1, <2>2 DEF g
  <2>. QED
    BY <1>1, <2>3 DEF LimiterInv, Grants
<1>10. InOrder'
  <2>1. \A i \in 1 .. n : granted[k][i].at <= g.at
    BY <1>1, <1>3 DEF LimiterInv, Grants
  <2>2. \A i, j \in 1 .. n : i <= j => granted[k][i].at <= granted[k][j].at
    BY <1>1 DEF LimiterInv, InOrder
  <2>3. \A i, j \in 1 .. n + 1 : i <= j => granted'[k][i].at <= granted'[k][j].at
    <3>. SUFFICES ASSUME NEW i \in 1 .. n + 1, NEW j \in 1 .. n + 1, i <= j
                  PROVE  granted'[k][i].at <= granted'[k][j].at
      OBVIOUS
    <3>1. CASE i \in 1 .. n /\ j \in 1 .. n
      BY <1>1, <2>2, <3>1
    <3>2. CASE i \in 1 .. n /\ j = n + 1
      BY <1>1, <2>1, <3>2 DEF g
    <3>3. CASE i = n + 1 /\ j = n + 1
      BY <1>3, <3>3 DEF g
    <3>. QED
      BY <1>1, <1>6, <3>1, <3>2, <3>3
  <2>. QED
    BY <1>1, <2>3 DEF LimiterInv, InOrder
<1>11. Pruned'
  <2>1. \A i \in 1 .. n + 1 : i \notin recorded'[k] => granted'[k][i].read + Window <= time
    BY <1>1, <1>2, <1>4, <1>6
  <2>. QED
    BY <1>1, <1>4, <2>1 DEF LimiterInv, Pruned
<1>12. imposed[k] <= time
  <2>1. \/ imposed[k] <= time
        \/ lockedTo[k] # NoLockout /\ imposed[k] <= lockedTo[k]
    BY <1>1 DEF LimiterInv, Lockouts
  <2>2. lockedTo[k] = NoLockout \/ ~(asking[t].read < lockedTo[k])
    BY DEF GrantRequest, Locked
  <2>3. lockedTo[k] \in Nat \cup {NoLockout}
    BY <1>1 DEF LimiterInv, LimiterTypeOK
  <2>. QED
    BY <1>1, <1>3, <2>1, <2>2, <2>3
<1>13. Lockouts'
  BY <1>1, <1>4, <1>12 DEF LimiterInv, LimiterTypeOK, Lockouts
<1>14. LockoutHolds'
  <2>1. \A i \in 1 .. n : granted[k][i].at >= granted[k][i].after
    BY <1>1 DEF LimiterInv, LockoutHolds
  <2>2. \A i \in 1 .. n + 1 : granted'[k][i].at >= granted'[k][i].after
    BY <1>1, <1>3, <1>6, <1>12, <2>1 DEF g
  <2>. QED
    BY <1>1, <2>2 DEF LimiterInv, LockoutHolds
<1>15. QuotaKept'
  <2>1. ASSUME NEW i \in 1 .. n, i + MaxRequests = n + 1
        PROVE  granted[k][i].at + (Window - MaxDelay) <= time
    <3>1. /\ InWindow(t) \in SUBSET (1 .. n)
          /\ Cardinality(InWindow(t)) < MaxRequests
      BY <1>2 DEF GrantRequest
    <3>2. n >= MaxRequests /\ i = n - MaxRequests + 1
      BY <1>1, <1>3, <2>1
    <3>3. PICK j \in i .. n : j \notin InWindow(t)
      BY <1>1, <3>1, <3>2, OneMissing
    <3>4. j \in 1 .. n /\ i <= j
      BY <1>1, <2>1, <3>3
    <3>5. granted[k][j].read + Window <= time
      BY <1>2, <3>3, <3>4
    <3>6. granted[k][j].at <= granted[k][j].read + MaxDelay
      BY <1>1, <3>4 DEF LimiterInv, Grants
    <3>7. granted[k][i].at <= granted[k][j].at
      BY <1>1, <2>1, <3>4 DEF LimiterInv, InOrder
    <3>8. granted[k][i].at \in Nat /\ granted[k][j].at \in Nat /\ granted[k][j].read \in Nat
      BY <1>1, <1>5, <3>4
    <3>. DEFINE a == granted[k][i].at
                b == granted[k][j].at
                r == granted[k][j].read
    <3>9. /\ a \in Nat /\ b \in Nat /\ r \in Nat
          /\ r + Window <= time /\ b <= r + MaxDelay /\ a <= b
      BY <3>5, <3>6, <3>7, <3>8
    <3>. HIDE DEF a, b, r, g
    <3>10. a + (Window - MaxDelay) <= time
      BY <1>3, <3>9, AtLeastApart
    <3>. QED
      BY <3>10 DEF a
  <2>2. ASSUME NEW i \in 1 .. n + 1, i + MaxRequests <= n + 1
        PROVE  granted'[k][i + MaxRequests].at - granted'[k][i].at >= Window - MaxDelay
    <3>1. i \in 1 .. n /\ i + MaxRequests \in 1 .. n + 1 /\ granted'[k][i] = granted[k][i]
      <4>1. n \in Nat /\ MaxRequests \in Nat \ {0}
        BY <1>1, LimiterAssumption
      <4>2. i \in 1 .. n /\ i + MaxRequests \in 1 .. n + 1
        <5>. HIDE DEF n
        <5>. QED
          BY <2>2, <4>1
      <4>. QED
        BY <1>1, <4>2
    <3>2. CASE i + MaxRequests = n + 1
      <4>1. granted[k][i].at \in Nat /\ granted[k][i].at + (Window - MaxDelay) <= time
        BY <1>1, <1>5, <2>1, <3>1, <3>2
      <4>2. granted'[k][i + MaxRequests].at = time
        BY <1>3, <3>2 DEF g
      <4>3. time - granted[k][i].at >= Window - MaxDelay
        BY <1>3, <4>1, LimiterAssumption
      <4>. QED
        BY <3>1, <4>2, <4>3
    <3>3. CASE i + MaxRequests \in 1 .. n
      <4>1. i + MaxRequests <= Len(granted[k]) /\ i \in 1 .. Len(granted[k])
        BY <1>1, <3>1, <3>3
      <4>2. granted[k][i + MaxRequests].at - granted[k][i].at >= Window - MaxDelay
        BY <1>1, <4>1 DEF LimiterInv, QuotaKept
      <4>. QED
        BY <1>1, <3>1, <3>3, <4>2
    <3>. QED
      BY <1>6, <3>1, <3>2, <3>3
  <2>. QED
    BY <1>1, <2>2 DEF LimiterInv, QuotaKept
<1>. QED
  BY <1>7, <1>8, <1>9, <1>10, <1>11, <1>13, <1>14, <1>15 DEF LimiterInv

LEMMA BreachInv == ASSUME LimiterInv, NEW t \in Callers, RefuseBreach(t) PROVE LimiterInv'
<1>. DEFINE k == asking[t].key
<1>1. /\ k \in LimitKeys /\ asking[t].read \in Nat /\ asking[t].read <= time
      /\ asking[t] # Quiet /\ InWindow(t) \subseteq recorded[k]
      /\ \A i \in 1 .. Len(granted[k]) :
            i \notin InWindow(t) => granted[k][i].read + Window <= time
  BY ListedStill DEF RefuseBreach
<1>2. /\ recorded' \in [LimitKeys -> SUBSET Nat]
      /\ recorded'[k] = InWindow(t)
      /\ \A l \in LimitKeys \ {k} : recorded'[l] = recorded[l]
      /\ asking' = [asking EXCEPT ![t] = Quiet]
      /\ UNCHANGED <<time, granted>>
  BY <1>1 DEF RefuseBreach, LimiterInv, LimiterTypeOK
<1>3. /\ asking[t].read + Lockout \in Nat /\ imposed[k] \in Nat
      /\ lockedTo[k] \in Nat \cup {NoLockout} /\ time \in Nat
  <2>1. /\ imposed \in [LimitKeys -> Nat] /\ lockedTo \in [LimitKeys -> Nat \cup {NoLockout}]
        /\ time \in Nat
    BY DEF LimiterInv, LimiterTypeOK
  <2>2. Lockout \in Nat
    BY LimiterAssumption
  <2>. QED
    BY <1>1, <2>1, <2>2
<1>4. Later(imposed[k], asking[t].read + Lockout)
          \in {imposed[k], asking[t].read + Lockout}
  BY DEF Later
<1>5. /\ lockedTo' \in [LimitKeys -> Nat \cup {NoLockout}]
      /\ imposed' \in [LimitKeys -> Nat]
      /\ lockedTo'[k] = asking[t].read + Lockout
      /\ imposed'[k] \in {imposed[k], asking[t].read + Lockout}
      /\ \A l \in LimitKeys \ {k} : lockedTo'[l] = lockedTo[l] /\ imposed'[l] = imposed[l]
  <2>1. /\ lockedTo' = [lockedTo EXCEPT ![k] = asking[t].read + Lockout]
        /\ imposed' = [imposed EXCEPT ![k] = Later(imposed[k], asking[t].read + Lockout)]
    BY DEF RefuseBreach
  <2>2. /\ lockedTo \in [LimitKeys -> Nat \cup {NoLockout}]
        /\ imposed \in [LimitKeys -> Nat]
    BY DEF LimiterInv, LimiterTypeOK
  <2>. QED
    BY <1>1, <1>3, <1>4, <2>1, <2>2
<1>6. LimiterTypeOK'
  <2>1. /\ time \in Nat /\ asking \in [Callers -> Asking \cup {Quiet}]
        /\ granted \in [LimitKeys -> Seq(Grant)]
        /\ \A l \in LimitKeys : recorded[l] \subseteq 1 .. Len(granted[l])
    BY DEF LimiterInv, LimiterTypeOK
  <2>2. asking' \in [Callers -> Asking \cup {Quiet}]
    BY <1>2, <2>1
  <2>3. InWindow(t) \subseteq 1 .. Len(granted[k])
    BY <1>1, <2>1
  <2>4. \A l \in LimitKeys : recorded'[l] \subseteq 1 .. Len(granted'[l])
    BY <1>1, <1>2, <2>1, <2>3
  <2>. QED
    BY <1>2, <1>5, <2>1, <2>2, <2>4 DEF LimiterTypeOK
<1>7. ReadsRecent' /\ Grants' /\ InOrder' /\ QuotaKept' /\ LockoutHolds'
  <2>1. ReadsRecent'
    BY <1>2 DEF LimiterInv, LimiterTypeOK, ReadsRecent
  <2>2. Grants' /\ InOrder'
    BY <1>2 DEF LimiterInv, Grants, InOrder
  <2>3. QuotaKept' /\ LockoutHolds'
    BY <1>2 DEF LimiterInv, QuotaKept, LockoutHolds
  <2>. QED
    BY <2>1, <2>2, <2>3
<1>8. Pruned'
  BY <1>1, <1>2 DEF LimiterInv, Pruned
<1>9. Lockouts'
  <2>1. lockedTo[k] = NoLockout \/ ~(asking[t].read < lockedTo[k])
    BY DEF RefuseBreach, Locked
  <2>2. imposed[k] <= time \/ (lockedTo[k] # NoLockout /\ imposed[k] <= lockedTo[k])
    BY <1>1 DEF LimiterInv, Lockouts
  <2>3. imposed[k] <= time \/ imposed[k] <= asking[t].read
    BY <1>1, <1>3, <2>1, <2>2
  <2>4. imposed[k] <= time \/ imposed[k] <= asking[t].read + Lockout
    BY <1>1, <1>3, <2>3, LimiterAssumption
  <2>5. imposed'[k] <= time \/ imposed'[k] <= lockedTo'[k]
    BY <1>3, <1>5, <2>4
  <2>6. lockedTo'[k] # NoLockout
    BY <1>3, <1>5 DEF NoLockout
  <2>. QED
    BY <1>2, <1>5, <2>5, <2>6 DEF LimiterInv, Lockouts
<1>. QED
  BY <1>6, <1>7, <1>8, <1>9 DEF LimiterInv

LEMMA ResetInv == ASSUME LimiterInv, NEW k \in LimitKeys, ResetLimit(k) PROVE LimiterInv'
<1>1. /\ granted'[k] = <<>> /\ Len(granted'[k]) = 0
      /\ recorded'[k] = {} /\ imposed'[k] = 0
      /\ \A l \in LimitKeys \ {k} : /\ granted'[l] = granted[l] /\ recorded'[l] = recorded[l]
                                    /\ lockedTo'[l] = lockedTo[l] /\ imposed'[l] = imposed[l]
      /\ UNCHANGED <<time, asking>>
  BY DEF ResetLimit, LimiterInv, LimiterTypeOK
<1>2. LimiterTypeOK'
  BY <1>1 DEF ResetLimit, LimiterInv, LimiterTypeOK
<1>3. ReadsRecent' /\ Grants' /\ InOrder' /\ Pruned'
  BY <1>1 DEF LimiterInv, ReadsRecent, Grants, InOrder, Pruned
<1>4. time \in Nat
  BY DEF LimiterInv, LimiterTypeOK
<1>5. Lockouts' /\ LockoutHolds'
  BY <1>1, <1>4 DEF LimiterInv, Lockouts, LockoutHolds
<1>6. QuotaKept'
  <2>1. \A i \in 1 .. Len(granted'[k]) : FALSE
    BY <1>1
  <2>. QED
    BY <1>1, <2>1 DEF LimiterInv, QuotaKept
<1>. QED
  BY <1>2, <1>3, <1>5, <1>6 DEF LimiterInv

LEMMA TimeInv == ASSUME LimiterInv, TimePasses PROVE LimiterInv'
<1>1. /\ time \in Nat /\ time' = time + 1
      /\ UNCHANGED <<asking, granted, recorded, lockedTo, imposed>>
  BY DEF LimiterInv, LimiterTypeOK, TimePasses
<1>2. LimiterTypeOK' /\ InOrder' /\ QuotaKept' /\ LockoutHolds'
  BY <1>1 DEF LimiterInv, LimiterTypeOK, InOrder, QuotaKept, LockoutHolds
<1>3. ReadsRecent'
  <2>1. ASSUME NEW t \in Callers, asking[t] # Quiet
        PROVE  asking[t].read <= time + 1 /\ time + 1 <= asking[t].read + MaxDelay
    <3>1. asking[t].read \in Nat
      BY <2>1, ListedStill
    <3>2. asking[t].read <= time /\ time < asking[t].read + MaxDelay
      BY <2>1 DEF LimiterInv, ReadsRecent, TimePasses
    <3>. QED
      BY <1>1, <3>1, <3>2, LimiterAssumption
  <2>. QED
    BY <1>1, <2>1 DEF ReadsRecent
<1>4. \A k \in LimitKeys : \A i \in 1 .. Len(granted[k]) :
          granted[k][i].read \in Nat /\ granted[k][i].at \in Nat
  BY GrantFields DEF LimiterInv, LimiterTypeOK
<1>5. Grants'
  BY <1>1, <1>4 DEF LimiterInv, Grants
<1>6. Pruned'
  BY <1>1, <1>4, LimiterAssumption DEF LimiterInv, Pruned
<1>7. \A k \in LimitKeys : imposed[k] \in Nat
  BY DEF LimiterInv, LimiterTypeOK
<1>8. Lockouts'
  BY <1>1, <1>7 DEF LimiterInv, Lockouts
<1>. QED
  BY <1>2, <1>3, <1>5, <1>6, <1>8 DEF LimiterInv

LEMMA AskInv == ASSUME LimiterInv, NEW t \in Callers, NEW k \in LimitKeys, ReadTime(t, k) PROVE LimiterInv'
<1>1. /\ asking' = [asking EXCEPT ![t] = [key |-> k, read |-> time]]
      /\ UNCHANGED <<time, granted, recorded, lockedTo, imposed>>
      /\ time \in Nat /\ [key |-> k, read |-> time] \in Asking
  BY DEF ReadTime, LimiterInv, LimiterTypeOK, Asking
<1>2. LimiterTypeOK' /\ Grants' /\ InOrder' /\ Pruned' /\ Lockouts' /\ QuotaKept' /\ LockoutHolds'
  BY <1>1 DEF LimiterInv, LimiterTypeOK, Grants, InOrder, Pruned, Lockouts, QuotaKept, LockoutHolds
<1>3. ReadsRecent'
  BY <1>1, LimiterAssumption DEF LimiterInv, LimiterTypeOK, ReadsRecent
<1>. QED
  BY <1>2, <1>3 DEF LimiterInv

LEMMA RefusedInv == ASSUME LimiterInv, NEW t \in Callers, RefuseLocked(t) PROVE LimiterInv'
<1>1. /\ asking' = [asking EXCEPT ![t] = Quiet]
      /\ UNCHANGED <<time, granted, recorded, lockedTo, imposed>>
  BY DEF RefuseLocked
<1>. QED
  BY <1>1 DEF LimiterInv, LimiterTypeOK, ReadsRecent, Grants, InOrder, Pruned, Lockouts, QuotaKept, LockoutHolds

LEMMA LimiterInvStep == LimiterInv /\ [LimiterNext]_limiterVars => LimiterInv'
<1>. SUFFICES ASSUME LimiterInv, [LimiterNext]_limiterVars PROVE LimiterInv'
  OBVIOUS
<1>1. CASE TimePasses
  BY <1>1, TimeInv
<1>2. ASSUME NEW t \in Callers, NEW k \in LimitKeys, ReadTime(t, k) PROVE LimiterInv'
  BY <1>2, AskInv
<1>3. ASSUME NEW t \in Callers, RefuseLocked(t) PROVE LimiterInv'
  BY <1>3, RefusedInv
<1>4. ASSUME NEW t \in Callers, RefuseBreach(t) PROVE LimiterInv'
  BY <1>4, BreachInv
<1>5. ASSUME NEW t \in Callers, GrantRequest(t) PROVE LimiterInv'
  BY <1>5, GrantInv
<1>6. ASSUME NEW k \in LimitKeys, ResetLimit(k) PROVE LimiterInv'
  BY <1>6, ResetInv
<1>7. CASE UNCHANGED limiterVars
  BY <1>7 DEF limiterVars, LimiterInv, LimiterTypeOK, ReadsRecent, Grants, InOrder, Pruned, Lockouts,
      QuotaKept, LockoutHolds, InWindow
<1>. QED
  BY <1>1, <1>2, <1>3, <1>4, <1>5, <1>6, <1>7 DEF LimiterNext
-----------------------------------------------------------------------------
LEMMA LimiterInvHolds == LimiterSpec => []LimiterInv
<1>. QED
  BY LimiterInvInit, LimiterInvStep, PTL DEF LimiterSpec

(* Every reachable state of the limiter is well typed: no list refers to a  *)
(* request that was not granted.                                            *)
THEOREM LimiterTypeCorrect == LimiterSpec => []LimiterTypeOK
<1>1. LimiterInv => LimiterTypeOK
  BY DEF LimiterInv
<1>. QED
  BY <1>1, LimiterInvHolds, PTL

(* Any MaxRequests + 1 consecutive grants of a key are a window less the    *)
(* longest wait for the lock apart, however many threads overtake another.  *)
THEOREM QuotaHolds == LimiterSpec => []QuotaKept
<1>1. LimiterInv => QuotaKept
  BY DEF LimiterInv
<1>. QED
  BY <1>1, LimiterInvHolds, PTL

(* No request is granted before the end of a lockout imposed on its key.    *)
THEOREM LockoutsHold == LimiterSpec => []LockoutHolds
<1>1. LimiterInv => LockoutHolds
  BY DEF LimiterInv
<1>. QED
  BY <1>1, LimiterInvHolds, PTL
-----------------------------------------------------------------------------
(*                            The forecast cache                           *)

(* The threads that have found or made room and not yet taken it. *)
Inserting == {p \in Pool : worker[p].at = "insert"}

(* A thread looks for room for a surface, so it has one left to store. *)
SurfaceLeft == \A p \in Pool : worker[p].at \notin {"idle", "put"} => worker[p].todo # <<>>

CacheInv ==
    /\ CacheTypeOK /\ SurfaceLeft
    /\ IsFiniteSet(entries)
    /\ Cardinality(entries) + Cardinality(Inserting) <= MaxEntries + Cardinality(Pool) - 1
-----------------------------------------------------------------------------
LEMMA FreeIsWorker ==
    ASSUME NEW run \in Runs
    PROVE  /\ Free(run) \in Worker
           /\ [Free(run) EXCEPT !.at = "put", !.todo = Surfaces] \in Worker
<1>1. <<>> \in Seq(Range(Surfaces))
  BY EmptySeq
<1>. QED
  BY <1>1, CacheAssumption DEF Free, Worker

LEMMA CacheInvInit == CacheInit => CacheInv
<1>. SUFFICES ASSUME CacheInit PROVE CacheInv
  OBVIOUS
<1>1. (CHOOSE run \in Runs : TRUE) \in Runs
  BY CacheAssumption
<1>2. CacheTypeOK /\ \A p \in Pool : worker[p].at = "idle"
  BY <1>1, FreeIsWorker DEF CacheInit, CacheTypeOK, Free
<1>3. Inserting = {} /\ entries = {}
  BY <1>2 DEF CacheInit, Inserting
<1>4. IsFiniteSet({}) /\ Cardinality({}) = 0
  BY FS_EmptySet
<1>5. Cardinality(Pool) \in Nat
  BY CacheAssumption, FS_CardinalityType
<1>6. 0 + 0 <= MaxEntries + Cardinality(Pool) - 1
  BY <1>5, CacheAssumption
<1>. QED
  BY <1>2, <1>3, <1>4, <1>6 DEF CacheInv, SurfaceLeft

(* Of the threads under way, p comes in or goes out. *)
LEMMA OneMore ==
    ASSUME NEW S, IsFiniteSet(S), NEW x
    PROVE  /\ IsFiniteSet(S \cup {x}) /\ IsFiniteSet(S \ {x})
           /\ Cardinality(S) \in Nat
           /\ Cardinality(S \cup {x}) <= Cardinality(S) + 1
           /\ x \notin S => Cardinality(S \cup {x}) = Cardinality(S) + 1
           /\ Cardinality(S \ {x}) <= Cardinality(S)
           /\ x \in S => Cardinality(S \ {x}) = Cardinality(S) - 1
<1>1. Cardinality(S) \in Nat
  BY FS_CardinalityType
<1>2. /\ IsFiniteSet(S \cup {x})
      /\ Cardinality(S \cup {x}) = IF x \in S THEN Cardinality(S) ELSE Cardinality(S) + 1
  BY FS_AddElement
<1>3. /\ IsFiniteSet(S \ {x})
      /\ Cardinality(S \ {x}) = IF x \in S THEN Cardinality(S) - 1 ELSE Cardinality(S)
  BY FS_RemoveElement
<1>. QED
  BY <1>1, <1>2, <1>3

(* A thread that goes from one place to another changes who is inserting by *)
(* itself at the most.                                                      *)
LEMMA InsertersNext ==
    ASSUME CacheInv, NEW p \in Pool, NEW w \in Worker,
           worker' = [worker EXCEPT ![p] = w]
    PROVE  /\ worker' \in [Pool -> Worker]
           /\ \A q \in Pool \ {p} : worker'[q] = worker[q]
           /\ worker'[p] = w
           /\ Inserting' = IF w.at = "insert" THEN Inserting \cup {p} ELSE Inserting \ {p}
<1>1. worker \in [Pool -> Worker]
  BY DEF CacheInv, CacheTypeOK
<1>2. /\ worker' \in [Pool -> Worker] /\ worker'[p] = w
      /\ \A q \in Pool \ {p} : worker'[q] = worker[q]
  BY <1>1
<1>3. Inserting' = {q \in Pool : worker'[q].at = "insert"}
  BY DEF Inserting
<1>4. \A q \in Pool \ {p} : q \in Inserting' <=> q \in Inserting
  BY <1>2, <1>3 DEF Inserting
<1>5. /\ p \in Inserting' <=> w.at = "insert"
      /\ Inserting' \subseteq Pool /\ Inserting \subseteq Pool
  BY <1>2, <1>3 DEF Inserting
<1>. QED
  BY <1>2, <1>4, <1>5

LEMMA InsertersCounted ==
    ASSUME CacheInv
    PROVE  /\ IsFiniteSet(Inserting) /\ Inserting \subseteq Pool
           /\ Cardinality(Inserting) \in Nat /\ Cardinality(entries) \in Nat
           /\ Cardinality(Pool) \in Nat
           /\ Cardinality(Inserting) <= Cardinality(Pool)
           /\ MaxEntries \in Nat \ {0}
<1>1. Inserting \subseteq Pool
  BY DEF Inserting
<1>. QED
  BY <1>1, CacheAssumption, FS_Subset, FS_CardinalityType DEF CacheInv

LEMMA PutStart == ASSUME CacheInv, NEW p \in Pool, StartPut(p) PROVE CacheInv'
<1>. DEFINE e == Cardinality(entries)
            i == Cardinality(Inserting)
            i2 == Cardinality(Inserting')
            m == Cardinality(Pool)
            place == IF e >= MaxEntries THEN "evict" ELSE "insert"
            w == [worker[p] EXCEPT !.stamp = puts + 1, !.at = place]
<1>1. /\ worker[p] \in Worker /\ w \in Worker /\ w.at = place /\ w.todo # <<>>
      /\ worker' = [worker EXCEPT ![p] = w] /\ puts' \in Nat
      /\ worker[p].at = "put"
  BY DEF CacheInv, CacheTypeOK, Worker, StartPut
<1>2. /\ worker' \in [Pool -> Worker]
      /\ \A q \in Pool \ {p} : worker'[q] = worker[q]
      /\ worker'[p] = w
      /\ Inserting' = IF place = "insert" THEN Inserting \cup {p} ELSE Inserting \ {p}
  <2>. HIDE DEF w, place
  <2>. QED
    BY <1>1, InsertersNext
<1>3. UNCHANGED <<entries, manifests>>
  BY DEF StartPut
<1>4. CacheTypeOK' /\ SurfaceLeft' /\ IsFiniteSet(entries')
  BY <1>1, <1>2, <1>3 DEF CacheInv, CacheTypeOK, SurfaceLeft
<1>5. /\ IsFiniteSet(Inserting) /\ e \in Nat /\ i \in Nat /\ m \in Nat /\ MaxEntries \in Nat \ {0}
      /\ e + i <= MaxEntries + m - 1
  BY InsertersCounted DEF CacheInv
<1>6. Inserting' \subseteq Pool
  BY <1>2 DEF Inserting
<1>7. i2 \in Nat /\ i2 <= m
  BY <1>6, CacheAssumption, FS_Subset, FS_CardinalityType
<1>8. p \notin Inserting
  BY <1>1 DEF Inserting
<1>9. e + i2 <= MaxEntries + m - 1
  <2>1. CASE e >= MaxEntries
    <3>1. Inserting' = Inserting
      BY <1>2, <1>8, <2>1
    <3>. QED
      BY <1>5, <3>1
  <2>2. CASE ~(e >= MaxEntries)
    <3>. HIDE DEF e, i2, m
    <3>. QED
      BY <1>5, <1>7, <2>2
  <2>. QED
    BY <2>1, <2>2
<1>. QED
  BY <1>3, <1>4, <1>9 DEF CacheInv

LEMMA OtherPlace ==
    ASSUME CacheInv, NEW p \in Pool, NEW w \in Worker,
           worker[p].at # "insert", w.at # "insert",
           w.at \notin {"idle", "put"} => w.todo # <<>>,
           worker' = [worker EXCEPT ![p] = w],
           manifests' \subseteq Runs, UNCHANGED <<entries, puts>>
    PROVE  CacheInv'
<1>1. /\ worker' \in [Pool -> Worker]
      /\ \A q \in Pool \ {p} : worker'[q] = worker[q]
      /\ worker'[p] = w
      /\ Inserting' = Inserting \ {p}
  BY InsertersNext
<1>2. p \notin Inserting
  BY DEF Inserting
<1>3. Inserting' = Inserting
  BY <1>1, <1>2
<1>4. CacheTypeOK' /\ SurfaceLeft'
  BY <1>1 DEF CacheInv, CacheTypeOK, SurfaceLeft
<1>. QED
  BY <1>3, <1>4 DEF CacheInv

LEMMA PutDeletes == ASSUME CacheInv, NEW p \in Pool, DeleteOldest(p) PROVE CacheInv'
<1>. DEFINE e == Cardinality(entries)
            i == Cardinality(Inserting)
            e2 == Cardinality(entries')
            i2 == Cardinality(Inserting')
            m == Cardinality(Pool)
            v == worker[p].victim
            w == [worker[p] EXCEPT !.at = "insert", !.victim = NoEntry]
<1>1. /\ worker[p] \in Worker /\ w \in Worker /\ w.at = "insert" /\ w.todo = worker[p].todo
      /\ worker' = [worker EXCEPT ![p] = w] /\ worker[p].at = "delete"
      /\ v \in entries /\ entries' = entries \ {v}
      /\ UNCHANGED <<manifests, puts>>
  BY DEF CacheInv, CacheTypeOK, Worker, DeleteOldest
<1>2. /\ worker' \in [Pool -> Worker]
      /\ \A q \in Pool \ {p} : worker'[q] = worker[q]
      /\ worker'[p] = w
      /\ Inserting' = Inserting \cup {p}
  BY <1>1, InsertersNext
<1>3. CacheTypeOK' /\ SurfaceLeft'
  BY <1>1, <1>2 DEF CacheInv, CacheTypeOK, SurfaceLeft
<1>4. p \notin Inserting
  BY <1>1 DEF Inserting
<1>5. /\ IsFiniteSet(entries') /\ e2 = e - 1
  BY <1>1, OneMore DEF CacheInv
<1>6. i2 = i + 1
  BY <1>2, <1>4, InsertersCounted, OneMore
<1>7. e \in Nat /\ i \in Nat /\ m \in Nat /\ MaxEntries \in Nat /\ e + i <= MaxEntries + m - 1
  BY InsertersCounted DEF CacheInv
<1>8. e2 + i2 <= MaxEntries + m - 1
  <2>. HIDE DEF e, i, e2, i2, m
  <2>. QED
    BY <1>5, <1>6, <1>7
<1>. QED
  BY <1>3, <1>5, <1>8 DEF CacheInv

LEMMA PutInserts == ASSUME CacheInv, NEW p \in Pool, Insert(p) PROVE CacheInv'
<1>. DEFINE e == Cardinality(entries)
            i == Cardinality(Inserting)
            e2 == Cardinality(entries')
            i2 == Cardinality(Inserting')
            m == Cardinality(Pool)
            todo == worker[p].todo
            stored == [run |-> worker[p].run, surface |-> Head(todo), at |-> worker[p].stamp]
            w == [worker[p] EXCEPT !.at = "put", !.todo = Tail(todo), !.stamp = 0]
<1>0. worker[p] \in Worker /\ worker[p].at = "insert" /\ todo # <<>>
  BY DEF CacheInv, CacheTypeOK, SurfaceLeft, Insert
<1>1. todo \in Seq(Range(Surfaces))
  BY <1>0 DEF Worker
<1>2. Head(todo) \in Range(Surfaces) /\ Tail(todo) \in Seq(Range(Surfaces))
  BY <1>0, <1>1, HeadTailProperties
<1>3. /\ w \in Worker /\ w.at = "put"
      /\ stored \in Entry
  BY <1>0, <1>2 DEF Worker, Entry
<1>4. /\ worker' = [worker EXCEPT ![p] = w]
      /\ entries' = entries \cup {stored}
      /\ UNCHANGED <<manifests, puts>>
  BY DEF CacheInv, CacheTypeOK, Insert
<1>. HIDE DEF w, stored
<1>5. /\ worker' \in [Pool -> Worker]
      /\ \A q \in Pool \ {p} : worker'[q] = worker[q]
      /\ worker'[p] = w
      /\ Inserting' = Inserting \ {p}
  BY <1>3, <1>4, InsertersNext
<1>6. CacheTypeOK' /\ SurfaceLeft'
  BY <1>3, <1>4, <1>5 DEF CacheInv, CacheTypeOK, SurfaceLeft
<1>7. p \in Inserting
  BY <1>0 DEF Inserting
<1>8. IsFiniteSet(entries') /\ e2 <= e + 1 /\ e2 \in Nat
  BY <1>4, OneMore, FS_CardinalityType DEF CacheInv
<1>9. i2 = i - 1
  BY <1>5, <1>7, InsertersCounted, OneMore
<1>10. e \in Nat /\ i \in Nat /\ m \in Nat /\ MaxEntries \in Nat /\ e + i <= MaxEntries + m - 1
  BY InsertersCounted DEF CacheInv
<1>11. e2 + i2 <= MaxEntries + m - 1
  <2>. HIDE DEF e, i, e2, i2, m
  <2>. QED
    BY <1>8, <1>9, <1>10
<1>. QED
  BY <1>6, <1>8, <1>11 DEF CacheInv

LEMMA EntriesLeave ==
    ASSUME CacheInv, entries' \subseteq entries, manifests' \subseteq manifests,
           UNCHANGED <<puts, worker>>
    PROVE  CacheInv'
<1>1. CacheTypeOK' /\ SurfaceLeft' /\ Inserting' = Inserting
  BY DEF CacheInv, CacheTypeOK, SurfaceLeft, Inserting
<1>2. IsFiniteSet(entries') /\ Cardinality(entries') <= Cardinality(entries)
  BY FS_Subset DEF CacheInv
<1>3. /\ Cardinality(entries') \in Nat /\ Cardinality(entries) \in Nat
      /\ Cardinality(Inserting) \in Nat /\ Cardinality(Pool) \in Nat /\ MaxEntries \in Nat
  BY <1>2, InsertersCounted, FS_CardinalityType
<1>4. Cardinality(entries') + Cardinality(Inserting) <= MaxEntries + Cardinality(Pool) - 1
  BY <1>2, <1>3 DEF CacheInv
<1>. QED
  BY <1>1, <1>2, <1>4 DEF CacheInv

LEMMA CacheInvStep == CacheInv /\ [CacheNext]_cacheVars => CacheInv'
<1>. SUFFICES ASSUME CacheInv, [CacheNext]_cacheVars PROVE CacheInv'
  OBVIOUS
<1>1. ASSUME NEW p \in Pool, NEW run \in Runs, Precompute(p, run) PROVE CacheInv'
  <2>. DEFINE w == [Free(run) EXCEPT !.at = "put", !.todo = Surfaces]
  <2>1. w \in Worker /\ w.at = "put"
    BY FreeIsWorker DEF Free
  <2>2. /\ worker[p].at = "idle" /\ worker' = [worker EXCEPT ![p] = w]
        /\ manifests' \subseteq Runs /\ UNCHANGED <<entries, puts>>
    BY <1>1 DEF Precompute, CacheInv, CacheTypeOK
  <2>. HIDE DEF w
  <2>. QED
    BY <2>1, <2>2, OtherPlace
<1>2. ASSUME NEW p \in Pool, FindOldest(p) PROVE CacheInv'
  <2>1. PICK victim \in entries :
            worker' = [worker EXCEPT ![p].at = "delete", ![p].victim = victim]
    BY <1>2 DEF FindOldest
  <2>. DEFINE w == [worker[p] EXCEPT !.at = "delete", !.victim = victim]
  <2>2. /\ worker[p].at = "evict" /\ worker' = [worker EXCEPT ![p] = w]
        /\ manifests' \subseteq Runs /\ UNCHANGED <<entries, puts>>
    BY <1>2, <2>1 DEF FindOldest, CacheInv, CacheTypeOK
  <2>3. w \in Worker /\ w.at = "delete" /\ w.todo # <<>>
    BY <2>2 DEF CacheInv, CacheTypeOK, SurfaceLeft, Worker
  <2>. HIDE DEF w
  <2>. QED
    BY <2>2, <2>3, OtherPlace
<1>3. ASSUME NEW p \in Pool, PutRaised(p) \/ PublishManifest(p) PROVE CacheInv'
  <2>. DEFINE w == Free(worker[p].run)
  <2>1. worker[p].run \in Runs
    BY DEF CacheInv, CacheTypeOK, Worker
  <2>2. w \in Worker /\ w.at = "idle"
    BY <2>1, FreeIsWorker DEF Free
  <2>3. /\ worker[p].at # "insert" /\ worker' = [worker EXCEPT ![p] = w]
        /\ manifests' \subseteq Runs /\ UNCHANGED <<entries, puts>>
    BY <1>3, <2>1 DEF PutRaised, PublishManifest, CacheInv, CacheTypeOK
  <2>. HIDE DEF w
  <2>. QED
    BY <2>2, <2>3, OtherPlace
<1>4. ASSUME NEW e \in entries, Expire(e) PROVE CacheInv'
  BY <1>4, EntriesLeave DEF Expire
<1>5. ASSUME NEW runs, Invalidate(runs) PROVE CacheInv'
  BY <1>5, EntriesLeave DEF Invalidate
<1>6. CASE UNCHANGED cacheVars
  BY <1>6, EntriesLeave DEF cacheVars
<1>. QED
  BY <1>1, <1>2, <1>3, <1>4, <1>5, <1>6, PutStart, PutDeletes, PutInserts DEF CacheNext

LEMMA CacheInvHolds == CacheSpec => []CacheInv
  BY CacheInvInit, CacheInvStep, PTL DEF CacheSpec

(* Every reachable state of the cache and its threads is well typed.        *)
THEOREM CacheTypeCorrect == CacheSpec => []CacheTypeOK
<1>1. CacheInv => CacheTypeOK
  BY DEF CacheInv
<1>. QED
  BY <1>1, CacheInvHolds, PTL

(* Whatever threads look for room, evict and insert at once, the cache      *)
(* outgrows max_entries by at most one entry for every other thread         *)
(* (ForecastCacheEngine.put).                                               *)
THEOREM CacheBoundHolds == CacheSpec => []CacheBounded
<1>1. CacheInv => CacheBounded
  <2>. SUFFICES ASSUME CacheInv PROVE CacheBounded
    OBVIOUS
  <2>1. /\ Cardinality(Inserting) \in Nat /\ Cardinality(entries) \in Nat
        /\ Cardinality(Pool) \in Nat /\ MaxEntries \in Nat
    BY InsertersCounted
  <2>2. Cardinality(entries) + Cardinality(Inserting) <= MaxEntries + Cardinality(Pool) - 1
    BY DEF CacheInv
  <2>. QED
    BY <2>1, <2>2 DEF CacheBounded
<1>. QED
  BY <1>1, CacheInvHolds, PTL
-----------------------------------------------------------------------------
(*                            Anomaly detection                            *)

After(B, j) == {k \in B : k > j}

(* The positions of a sensor's plausible readings, and of the latest of     *)
(* them in a row whose value is the last one.                               *)
PlausibleOf(x) == {j \in DOMAIN records : records[j].sensor = x /\ Plausible(records[j])}
Alike(x) == {j \in PlausibleOf(x) : \A k \in PlausibleOf(x) : k >= j => records[k].value = flat[x].last}

(* The positions of a station's records, and of the latest of them in a row *)
(* that were anomalous.                                                     *)
OfStation(s) == {i \in DOMAIN records : records[i].sensor[1] = s}
BadRun(s) == {i \in OfStation(s) : \A j \in OfStation(s) : j >= i => records[j].state \in Bad}

FlatTrue ==
    \A x \in Sensors :
        /\ flat[x].count = Cardinality(Alike(x))
        /\ PlausibleOf(x) # {} => Alike(x) # {}
StreakTrue == \A s \in Stations : streak[s] = Cardinality(BadRun(s))

(* Every record says frozen exactly if the latest FlatlineLimit plausible   *)
(* readings before it were alike: what the tracker counts.                  *)
FrozenTellsTracked ==
    \A i \in DOMAIN records :
        records[i].frozen <=>
            /\ records[i].sensor[2] \in Watched
            /\ records[i].value # Missing
            /\ Cardinality(Latest(i)) = FlatlineLimit
            /\ \A j, k \in Latest(i) : records[j].value = records[k].value

AnomalyInv ==
    /\ AnomalyTypeOK /\ Len(records) + Len(arriving) <= MaxRecords
    /\ FlatTrue /\ StreakTrue /\ FrozenTellsTracked
-----------------------------------------------------------------------------
(* The later a position of a finite set, the fewer are later than it, and   *)
(* each count from none to all but one occurs.                              *)
LEMMA Ranked ==
    ASSUME NEW B \in SUBSET Nat, IsFiniteSet(B)
    PROVE  /\ \A j \in B : Cardinality(After(B, j)) \in 0 .. Cardinality(B) - 1
           /\ \A j, k \in B : j < k => Cardinality(After(B, k)) < Cardinality(After(B, j))
           /\ \A m \in 0 .. Cardinality(B) - 1 : \E j \in B : Cardinality(After(B, j)) = m
<1>. DEFINE n == Cardinality(B)
            rank == [j \in B |-> Cardinality(After(B, j))]
<1>1. n \in Nat
  BY FS_CardinalityType
<1>2. ASSUME NEW j \in B
      PROVE  IsFiniteSet(After(B, j)) /\ rank[j] \in 0 .. n - 1
  <2>1. After(B, j) \in SUBSET B /\ After(B, j) # B
    BY DEF After
  <2>2. IsFiniteSet(After(B, j)) /\ Cardinality(After(B, j)) <= n /\ Cardinality(After(B, j)) # n
    BY <2>1, FS_Subset
  <2>3. Cardinality(After(B, j)) \in Nat
    BY <2>2, FS_CardinalityType
  <2>4. rank[j] = Cardinality(After(B, j))
    OBVIOUS
  <2>. HIDE DEF rank, n
  <2>. QED
    BY <1>1, <2>2, <2>3, <2>4
<1>3. ASSUME NEW j \in B, NEW k \in B, j < k
      PROVE  rank[k] < rank[j]
  <2>1. After(B, k) \in SUBSET After(B, j)
    <3>1. \A i \in B : i > k => i > j
      BY <1>3
    <3>. QED
      BY <3>1 DEF After
  <2>1a. k \in After(B, j) /\ k \notin After(B, k)
    BY <1>3 DEF After
  <2>2. /\ Cardinality(After(B, k)) <= Cardinality(After(B, j))
        /\ Cardinality(After(B, k)) # Cardinality(After(B, j))
    BY <2>1, <2>1a, <1>2, FS_Subset
  <2>3. rank[j] = Cardinality(After(B, j)) /\ rank[k] = Cardinality(After(B, k))
    OBVIOUS
  <2>. HIDE DEF rank, n
  <2>4. rank[j] \in Int /\ rank[k] \in Int
    BY <1>1, <1>2
  <2>. QED
    BY <2>2, <2>3, <2>4
<1>4. rank \in Injection(B, 0 .. n - 1)
  <2>1. rank \in [B -> 0 .. n - 1]
    BY <1>2
  <2>2. ASSUME NEW j \in B, NEW k \in B, rank[j] = rank[k] PROVE j = k
    <3>. HIDE DEF rank, n
    <3>1. rank[j] \in Int /\ rank[k] \in Int /\ j \in Int /\ k \in Int
      BY <1>1, <1>2
    <3>2. ~(j < k) /\ ~(k < j)
      BY <1>3, <2>2, <3>1
    <3>. QED
      BY <3>1, <3>2
  <2>. HIDE DEF rank, n
  <2>. QED
    BY <2>1, <2>2 DEF Injection, IsInjective
<1>5. IsFiniteSet(0 .. n - 1) /\ Cardinality(0 .. n - 1) = n
  <2>. HIDE DEF n
  <2>1. 0 \in Int /\ n - 1 \in Int
    BY <1>1
  <2>2. IsFiniteSet(0 .. n - 1)
        /\ Cardinality(0 .. n - 1) = IF 0 > n - 1 THEN 0 ELSE (n - 1) - 0 + 1
    BY <2>1, FS_Interval
  <2>. QED
    BY <1>1, <2>2
<1>6. rank \in Surjection(B, 0 .. n - 1)
  <2>. HIDE DEF rank
  <2>. QED
    BY <1>4, <1>5, FS_Injection
<1>7. \A m \in 0 .. n - 1 : \E j \in B : rank[j] = m
  <2>. HIDE DEF rank, n
  <2>. QED
    BY <1>6 DEF Surjection
<1>8. \A j \in B : rank[j] = Cardinality(After(B, j))
  OBVIOUS
<1>. HIDE DEF rank
<1>. QED
  BY <1>2, <1>3, <1>7, <1>8

(* As many as are asked for have fewer than that many after them.           *)
LEMMA LatestCounted ==
    ASSUME NEW B \in SUBSET Nat, IsFiniteSet(B), NEW m \in Nat, m <= Cardinality(B)
    PROVE  LET top == {j \in B : Cardinality(After(B, j)) < m}
           IN  IsFiniteSet(top) /\ Cardinality(top) = m
<1>. DEFINE top == {j \in B : Cardinality(After(B, j)) < m}
            rank == [j \in top |-> Cardinality(After(B, j))]
<1>1. Cardinality(B) \in Nat
  BY FS_CardinalityType
<1>2. IsFiniteSet(top)
  BY FS_Subset
<1>3. \A j \in top : j \in B /\ rank[j] = Cardinality(After(B, j)) /\ rank[j] < m
  OBVIOUS
<1>4. \A j \in B : Cardinality(After(B, j)) < m => j \in top
  OBVIOUS
<1>5. DOMAIN rank = top /\ rank = [j \in top |-> rank[j]]
  OBVIOUS
<1>. HIDE DEF rank, top
<1>6. \A j \in top : rank[j] \in 0 .. m - 1
  <2>. TAKE j \in top
  <2>1. Cardinality(After(B, j)) \in 0 .. Cardinality(B) - 1
    BY <1>3, Ranked
  <2>. QED
    BY <1>1, <1>3, <2>1
<1>7. rank \in [top -> 0 .. m - 1]
  BY <1>5, <1>6
<1>8. ASSUME NEW j \in top, NEW k \in top, rank[j] = rank[k] PROVE j = k
  <2>1. j \in Nat /\ k \in Nat
    BY <1>3
  <2>2. ~(j < k) /\ ~(k < j)
    BY <1>3, <1>6, <1>8, <2>1, Ranked
  <2>. QED
    BY <2>1, <2>2
<1>9. ASSUME NEW i \in 0 .. m - 1 PROVE \E j \in top : rank[j] = i
  <2>1. PICK j \in B : Cardinality(After(B, j)) = i
    BY <1>1, Ranked
  <2>2. j \in top
    BY <1>4, <2>1
  <2>. QED
    BY <1>3, <2>1, <2>2
<1>10. rank \in Bijection(top, 0 .. m - 1)
  BY <1>7, <1>8, <1>9 DEF Bijection, Injection, IsInjective, Surjection
<1>11. Cardinality(top) = Cardinality(0 .. m - 1)
  BY <1>2, <1>10, FS_Bijection DEF ExistsBijection
<1>12. Cardinality(0 .. m - 1) = m
  <2>1. Cardinality(0 .. m - 1) = IF 0 > m - 1 THEN 0 ELSE (m - 1) - 0 + 1
    BY FS_Interval
  <2>. QED
    BY <2>1
<1>. QED
  BY <1>2, <1>11, <1>12 DEF top

(* A part that holds whatever is later than one of it is told by the count. *)
LEMMA UpwardClosed ==
    ASSUME NEW B \in SUBSET Nat, IsFiniteSet(B), NEW A \in SUBSET B,
           \A j \in A, k \in B : k >= j => k \in A
    PROVE  /\ IsFiniteSet(A) /\ Cardinality(A) \in 0 .. Cardinality(B)
           /\ \A j \in B : j \in A <=> Cardinality(After(B, j)) < Cardinality(A)
<1>. DEFINE m == Cardinality(A)
            top == {j \in B : Cardinality(After(B, j)) < m}
<1>1. IsFiniteSet(A) /\ m \in 0 .. Cardinality(B)
  <2>1. IsFiniteSet(A) /\ Cardinality(A) <= Cardinality(B)
    BY FS_Subset
  <2>. QED
    BY <2>1, FS_CardinalityType
<1>2. IsFiniteSet(top) /\ Cardinality(top) = m
  <2>1. m \in Nat /\ m <= Cardinality(B)
    BY <1>1, FS_CardinalityType
  <2>. HIDE DEF m
  <2>. QED
    BY <2>1, LatestCounted
<1>3. ASSUME NEW j \in A PROVE j \in top
  <2>1. After(B, j) \subseteq A /\ j \notin After(B, j)
    <3>1. \A k \in B : k > j => k \in A
      OBVIOUS
    <3>2. j \in Nat /\ ~(j > j)
      OBVIOUS
    <3>. QED
      BY <3>1, <3>2 DEF After
  <2>2. /\ IsFiniteSet(After(B, j))
        /\ Cardinality(After(B, j)) <= m /\ Cardinality(After(B, j)) # m
    BY <1>1, <2>1, FS_Subset
  <2>3. Cardinality(After(B, j)) \in Nat
    BY <2>2, FS_CardinalityType
  <2>4. j \in B
    OBVIOUS
  <2>5. Cardinality(After(B, j)) < m
    <3>. HIDE DEF m
    <3>. QED
      BY <1>1, <2>2, <2>3, FS_CardinalityType
  <2>. QED
    BY <2>4, <2>5
<1>4. A = top
  <2>1. A \in SUBSET top
    BY <1>3
  <2>. QED
    BY <1>2, <2>1, FS_Subset
<1>. QED
  BY <1>1, <1>4

-----------------------------------------------------------------------------
LEMMA PositionsFinite ==
    ASSUME AnomalyTypeOK
    PROVE  /\ DOMAIN records \in SUBSET Nat /\ IsFiniteSet(DOMAIN records)
           /\ \A x \in Sensors : PlausibleOf(x) \in SUBSET Nat /\ IsFiniteSet(PlausibleOf(x))
           /\ \A s \in Stations : OfStation(s) \in SUBSET Nat /\ IsFiniteSet(OfStation(s))
<1>1. records \in Seq(Record)
  BY DEF AnomalyTypeOK
<1>2. DOMAIN records = 1 .. Len(records) /\ Len(records) \in Nat
  BY <1>1, LenProperties
<1>3. IsFiniteSet(DOMAIN records) /\ DOMAIN records \in SUBSET Nat
  BY <1>2, FS_Interval
<1>4. ASSUME NEW x PROVE PlausibleOf(x) \in SUBSET DOMAIN records /\ OfStation(x) \in SUBSET DOMAIN records
  BY DEF PlausibleOf, OfStation
<1>. QED
  BY <1>3, <1>4, FS_Subset

(* A new record is the last of its sensor's, if its value is plausible, and *)
(* of its station's; the others keep theirs.                                *)
LEMMA RecordAdded ==
    ASSUME AnomalyTypeOK, NEW rec \in Record, records' = Append(records, rec)
    PROVE  LET n == Len(records)
           IN  /\ n \in Nat /\ DOMAIN records = 1 .. n
               /\ DOMAIN records' = DOMAIN records \cup {n + 1}
               /\ records'[n + 1] = rec
               /\ \A i \in DOMAIN records : i < n + 1 /\ i \in Nat /\ records'[i] = records[i]
               /\ \A x \in Sensors :
                      PlausibleOf(x)' = IF rec.sensor = x /\ Plausible(rec) THEN PlausibleOf(x) \cup {n + 1}
                                                                    ELSE PlausibleOf(x)
               /\ \A s \in Stations :
                      OfStation(s)' = IF rec.sensor[1] = s THEN OfStation(s) \cup {n + 1}
                                                           ELSE OfStation(s)
<1>. DEFINE n == Len(records)
<1>1. records \in Seq(Record) /\ n \in Nat /\ DOMAIN records = 1 .. n
  BY LenProperties DEF AnomalyTypeOK
<1>2. /\ DOMAIN records' = 1 .. n + 1
      /\ records'[n + 1] = rec
      /\ \A i \in 1 .. n : records'[i] = records[i]
  BY <1>1, AppendProperties
<1>. HIDE DEF n
<1>3. 1 .. n + 1 = 1 .. n \cup {n + 1}
  BY <1>1
<1>4. \A i \in DOMAIN records : i < n + 1 /\ i \in Nat /\ i # n + 1
  BY <1>1
<1>5. ASSUME NEW x \in Sensors
      PROVE  PlausibleOf(x)' = IF rec.sensor = x /\ Plausible(rec) THEN PlausibleOf(x) \cup {n + 1} ELSE PlausibleOf(x)
  <2>1. PlausibleOf(x)' = {j \in DOMAIN records' : records'[j].sensor = x /\ Plausible(records'[j])}
    BY DEF PlausibleOf, Plausible
  <2>2. PlausibleOf(x) = {j \in DOMAIN records : records[j].sensor = x /\ Plausible(records[j])}
    BY DEF PlausibleOf
  <2>. QED
    BY <1>1, <1>2, <1>3, <2>1, <2>2
<1>6. ASSUME NEW s \in Stations
      PROVE  OfStation(s)' = IF rec.sensor[1] = s THEN OfStation(s) \cup {n + 1} ELSE OfStation(s)
  <2>1. OfStation(s)' = {j \in DOMAIN records' : records'[j].sensor[1] = s}
    BY DEF OfStation
  <2>2. OfStation(s) = {j \in DOMAIN records : records[j].sensor[1] = s}
    BY DEF OfStation
  <2>. QED
    BY <1>1, <1>2, <1>3, <2>1, <2>2
<1>. QED
  BY <1>1, <1>2, <1>3, <1>4, <1>5, <1>6 DEF n

(* The latest of a sensor's readings were alike exactly if the tracker has  *)
(* counted so many.                                                         *)
LEMMA FrozenIsAlike ==
    ASSUME AnomalyTypeOK, FlatTrue, NEW x \in Sensors
    PROVE  LET newest == {j \in PlausibleOf(x) : Cardinality(After(PlausibleOf(x), j)) < FlatlineLimit}
           IN  flat[x].count >= FlatlineLimit <=>
                   /\ Cardinality(newest) = FlatlineLimit
                   /\ \A j, k \in newest : records[j].value = records[k].value
<1>. DEFINE B == PlausibleOf(x)
            A == Alike(x)
            rank(j) == Cardinality(After(B, j))
            newest == {j \in B : rank(j) < FlatlineLimit}
            held == flat[x].last
            F == FlatlineLimit
<1>1. B \in SUBSET Nat /\ IsFiniteSet(B)
  BY PositionsFinite
<1>2. F \in Nat /\ F > 0
  BY AnomalyAssumption
<1>3. A \in SUBSET B
  BY DEF Alike
<1>4. \A j \in A, k \in B : k >= j => k \in A
  <2>. SUFFICES ASSUME NEW j \in A, NEW k \in B, k >= j, NEW i \in B, i >= k
                PROVE  records[i].value = held
    BY <1>3 DEF Alike
  <2>1. j \in Nat /\ k \in Nat /\ i \in Nat
    BY <1>1, <1>3
  <2>2. i >= j
    BY <2>1
  <2>. QED
    BY <2>2 DEF Alike
<1>5. \A j \in A : records[j].value = held
  <2>. TAKE j \in A
  <2>1. j \in B /\ j >= j
    BY <1>1, <1>3
  <2>. QED
    BY <2>1 DEF Alike
<1>6. \A j \in B : (\A k \in B : k >= j => records[k].value = held) => j \in A
  BY DEF Alike
<1>7. flat[x].count = Cardinality(A) /\ (B # {} => A # {})
  BY DEF FlatTrue
<1>8. IsFiniteSet(A) /\ Cardinality(A) \in 0 .. Cardinality(B)
      /\ \A j \in B : j \in A <=> rank(j) < Cardinality(A)
  <2>. HIDE DEF A, B
  <2>. QED
    BY <1>1, <1>3, <1>4, UpwardClosed
<1>9. Cardinality(B) \in Nat
  BY <1>1, FS_CardinalityType
<1>10. /\ \A j \in B : rank(j) \in Nat
       /\ \A j, k \in B : j < k => rank(k) < rank(j)
       /\ \A m \in 0 .. Cardinality(B) - 1 : \E j \in B : rank(j) = m
  <2>. HIDE DEF B
  <2>. QED
    BY <1>1, <1>9, Ranked
<1>11. \A j \in B : j \in newest <=> rank(j) < F
  OBVIOUS
<1>12. newest \in SUBSET B
  OBVIOUS
<1>13. F <= Cardinality(B) => Cardinality(newest) = F
  <2>. HIDE DEF B
  <2>. QED
    BY <1>1, <1>2, LatestCounted
<1>. HIDE DEF A, B, rank, newest, held, F
<1>14. ASSUME Cardinality(A) >= F
       PROVE  Cardinality(newest) = F /\ \A j, k \in newest : records[j].value = records[k].value
  <2>1. \A j \in newest : j \in A
    BY <1>2, <1>8, <1>9, <1>10, <1>11, <1>12, <1>14
  <2>. QED
    BY <1>2, <1>5, <1>8, <1>9, <1>13, <1>14, <2>1
<1>15. ASSUME Cardinality(newest) = F, Cardinality(A) < F,
              \A j, k \in newest : records[j].value = records[k].value
       PROVE  FALSE
  <2>1. IsFiniteSet(newest) /\ F <= Cardinality(B)
    BY <1>1, <1>12, <1>15, FS_Subset
  <2>2. PICK j \in B : rank(j) = Cardinality(A)
    BY <1>2, <1>8, <1>9, <1>10, <1>15, <2>1
  <2>3. j \in newest /\ j \notin A
    BY <1>2, <1>8, <1>10, <1>11, <1>15, <2>2
  <2>4. PICK m \in A : TRUE
    BY <1>7
  <2>5. m \in B /\ rank(m) < Cardinality(A)
    BY <1>3, <1>8
  <2>6. m \in newest /\ records[m].value = held
    BY <1>2, <1>5, <1>8, <1>9, <1>10, <1>11, <1>15, <2>5
  <2>7. PICK k \in B : k >= j /\ records[k].value # held
    BY <1>6, <2>3
  <2>8. rank(k) <= rank(j)
    <3>1. j \in Nat /\ k \in Nat /\ rank(j) \in Nat /\ rank(k) \in Nat
      BY <1>1, <1>10
    <3>. QED
      BY <1>10, <2>7, <3>1
  <2>9. k \in newest
    BY <1>2, <1>8, <1>9, <1>10, <1>11, <1>15, <2>2, <2>8
  <2>. QED
    BY <1>15, <2>6, <2>7, <2>9
<1>16. flat[x].count >= F <=>
          Cardinality(newest) = F /\ \A j, k \in newest : records[j].value = records[k].value
  BY <1>2, <1>7, <1>8, <1>9, <1>14, <1>15
<1>. QED
  BY <1>16 DEF newest, rank, F, B

LEMMA StateKnown == ASSUME NEW f, NEW r PROVE StateOfReading(f, r) \in States
<1>. DEFINE raw == RawScore(f, r)
<1>1. CASE r.value = Missing
  BY <1>1 DEF StateOfReading, States
<1>2. CASE r.value # Missing /\ ~Physical(r)
  BY <1>2 DEF StateOfReading, States
<1>3. CASE r.value # Missing /\ Physical(r)
  <2>1. StateOfReading(f, r) =
             IF Spatial(r) = "VALID_EXTREME"
             THEN IF raw > 50 THEN "WATCH" ELSE "NORMAL"
             ELSE IF \/ Frozen(f, r)
                     \/ /\ Spatial(r) = "LIKELY_SENSOR_ERROR"
                        /\ Jumps(r) \/ raw >= 50
             THEN "LIKELY_SENSOR_ERROR"
             ELSE IF Jumps(r) \/ raw >= 60 THEN "ANOMALOUS"
             ELSE IF raw >= 30 THEN "WATCH" ELSE "NORMAL"
    BY <1>3 DEF StateOfReading
  <2>. QED
    BY <2>1 DEF States
<1>. QED
  BY <1>1, <1>2, <1>3

LEMMA AnomalyInvInit == AnomalyInit => AnomalyInv
<1>. SUFFICES ASSUME AnomalyInit PROVE AnomalyInv
  OBVIOUS
<1>1. <<>> \in Seq(Readings) /\ <<>> \in Seq(Record)
  BY EmptySeq
<1>2. flat \in [Sensors -> [last : Int, count : Nat]]
  BY DEF AnomalyInit, Missing
<1>3. streak \in [Stations -> Nat]
  BY DEF AnomalyInit
<1>4. AnomalyTypeOK
  BY <1>1, <1>2, <1>3 DEF AnomalyInit, AnomalyTypeOK
<1>5. Len(records) + Len(arriving) <= MaxRecords
  <2>1. Len(records) = 0 /\ Len(arriving) = 0
    BY EmptySeq DEF AnomalyInit
  <2>. QED
    BY <2>1, AnomalyAssumption
<1>6. DOMAIN records = {}
  BY <1>1 DEF AnomalyInit
<1>7. \A x : PlausibleOf(x) = {} /\ Alike(x) = {} /\ BadRun(x) = {}
  BY <1>6 DEF PlausibleOf, Alike, OfStation, BadRun
<1>8. FlatTrue /\ StreakTrue
  BY <1>7, FS_EmptySet DEF AnomalyInit, FlatTrue, StreakTrue
<1>9. FrozenTellsTracked
  BY <1>6 DEF FrozenTellsTracked
<1>. QED
  BY <1>4, <1>5, <1>8, <1>9 DEF AnomalyInv

LEMMA TrackingKept ==
    ASSUME FlatTrue, StreakTrue, FrozenTellsTracked, UNCHANGED <<flat, streak, records>>
    PROVE  FlatTrue' /\ StreakTrue' /\ FrozenTellsTracked'
<1>1. \A x : PlausibleOf(x)' = PlausibleOf(x)
  BY DEF PlausibleOf, Plausible
<1>2. \A x : Alike(x)' = Alike(x)
  <2>. TAKE x
  <2>1. Alike(x)' = {j \in PlausibleOf(x)' : \A k \in PlausibleOf(x)' : k >= j => records'[k].value = flat'[x].last}
    BY DEF Alike
  <2>. QED
    BY <1>1, <2>1 DEF Alike
<1>3. FlatTrue'
  BY <1>1, <1>2 DEF FlatTrue
<1>4. \A s : OfStation(s)' = OfStation(s)
  BY DEF OfStation
<1>5. \A s : BadRun(s)' = BadRun(s)
  <2>. TAKE s
  <2>1. BadRun(s)' = {i \in OfStation(s)' : \A j \in OfStation(s)' : j >= i => records'[j].state \in Bad}
    BY DEF BadRun
  <2>. QED
    BY <1>4, <2>1 DEF BadRun
<1>6. StreakTrue'
  BY <1>5 DEF StreakTrue
<1>7. \A i : Before(i)' = Before(i)
  BY DEF Before, Plausible
<1>8. \A i : Latest(i)' = Latest(i)
  <2>. TAKE i
  <2>1. Latest(i)' = {j \in Before(i)' : Cardinality({k \in Before(i)' : k > j}) < FlatlineLimit}
    BY DEF Latest
  <2>. QED
    BY <1>7, <2>1 DEF Latest
<1>9. FrozenTellsTracked'
  BY <1>8 DEF FrozenTellsTracked
<1>. QED
  BY <1>3, <1>6, <1>9

LEMMA ArriveInv ==
    ASSUME AnomalyInv, NEW readings \in Seq(Readings), Arrive(readings) PROVE AnomalyInv'
<1>. USE DEF Arrive, AnomalyInv
<1>1. UNCHANGED <<flat, streak, records, announced>>
  OBVIOUS
<1>2. AnomalyTypeOK'
  BY <1>1 DEF AnomalyTypeOK
<1>3. (Len(records) + Len(arriving) <= MaxRecords)'
  BY <1>1
<1>4. FlatTrue' /\ StreakTrue' /\ FrozenTellsTracked'
  BY <1>1, TrackingKept
<1>. QED
  BY <1>2, <1>3, <1>4

(* The tracker's count after a new reading                                  *)
LEMMA FlatStep ==
    ASSUME AnomalyTypeOK, FlatTrue, NEW r \in Readings, NEW rec \in Record,
           rec.sensor = r.sensor, rec.value = r.value,
           records' = Append(records, rec), flat' = Tracked(flat, r)
    PROVE  FlatTrue' /\ flat' \in [Sensors -> [last : Int, count : Nat]]
<1>. DEFINE n == Len(records)
            c == flat[r.sensor]
            was == PlausibleOf(r.sensor)
            alike == Alike(r.sensor)
            d == [last |-> r.value, count |-> IF c.last = r.value THEN c.count + 1 ELSE 1]
<1>1. r.sensor \in Sensors /\ r.value \in Int
  BY DEF Readings
<1>2. flat \in [Sensors -> [last : Int, count : Nat]]
  BY DEF AnomalyTypeOK
<1>3. /\ n \in Nat
      /\ \A i \in DOMAIN records : i < n + 1 /\ i \in Nat /\ records'[i] = records[i]
      /\ records'[n + 1] = rec
      /\ \A x \in Sensors :
            PlausibleOf(x)' = IF rec.sensor = x /\ Plausible(rec) THEN PlausibleOf(x) \cup {n + 1} ELSE PlausibleOf(x)
  BY RecordAdded
<1>4. \A x : PlausibleOf(x) \subseteq DOMAIN records
  BY DEF PlausibleOf
<1>5. Plausible(rec) <=> ~(r.value = Missing \/ ~Physical(r))
  BY DEF Plausible, Physical
<1>6. ASSUME NEW x \in Sensors, flat'[x] = flat[x], PlausibleOf(x)' = PlausibleOf(x)
      PROVE  /\ flat'[x].count = Cardinality(Alike(x)')
             /\ PlausibleOf(x)' # {} => Alike(x)' # {}
  <2>1. Alike(x)' = {j \in PlausibleOf(x)' : \A k \in PlausibleOf(x)' : k >= j => records'[k].value = flat'[x].last}
    BY DEF Alike
  <2>2. \A k \in PlausibleOf(x) : records'[k] = records[k]
    BY <1>3, <1>4
  <2>3. Alike(x)' = Alike(x)
    BY <1>6, <2>1, <2>2 DEF Alike
  <2>. QED
    BY <1>6, <2>3 DEF FlatTrue
<1>7. CASE ~Plausible(rec)
  <2>1. flat' = flat
    BY <1>5, <1>7 DEF Tracked
  <2>2. \A x \in Sensors : PlausibleOf(x)' = PlausibleOf(x)
    BY <1>3, <1>7
  <2>. QED
    BY <1>2, <1>6, <2>1, <2>2 DEF FlatTrue
<1>8. CASE Plausible(rec)
  <2>1. flat' = [flat EXCEPT ![r.sensor] = d]
    <3>1. ~(r.value = Missing \/ ~Physical(r))
      BY <1>5, <1>8
    <3>2. flat' = [flat EXCEPT ![r.sensor] =
                     [last |-> r.value, count |-> IF @.last = r.value THEN @.count + 1 ELSE 1]]
      BY <3>1 DEF Tracked
    <3>. QED
      BY <1>1, <1>2, <3>2
  <2>2. c \in [last : Int, count : Nat]
    BY <1>1, <1>2
  <2>3. /\ d \in [last : Int, count : Nat]
        /\ d.last = r.value
        /\ d.count = IF c.last = r.value THEN c.count + 1 ELSE 1
    BY <1>1, <2>2
  <2>. HIDE DEF d, c
  <2>4. /\ flat' \in [Sensors -> [last : Int, count : Nat]]
        /\ flat'[r.sensor] = d
        /\ \A x \in Sensors : x # r.sensor => flat'[x] = flat[x]
    BY <1>1, <1>2, <2>1, <2>3
  <2>5. PlausibleOf(r.sensor)' = was \cup {n + 1}
    BY <1>1, <1>3, <1>8
  <2>6. Alike(r.sensor)' =
            {j \in was \cup {n + 1} :
                \A k \in was \cup {n + 1} : k >= j => records'[k].value = r.value}
    <3>1. Alike(r.sensor)' =
              {j \in PlausibleOf(r.sensor)' :
                  \A k \in PlausibleOf(r.sensor)' : k >= j => records'[k].value = flat'[r.sensor].last}
      BY DEF Alike
    <3>. QED
      BY <2>3, <2>4, <2>5, <3>1
  <2>7. /\ was \in SUBSET Nat /\ IsFiniteSet(was)
        /\ \A k \in was : k < n + 1 /\ k \in Nat /\ records'[k] = records[k]
        /\ records'[n + 1].value = r.value
        /\ n + 1 \notin was
    BY <1>1, <1>3, <1>4, PositionsFinite
  <2>8. alike = {j \in was : \A k \in was : k >= j => records[k].value = c.last}
    BY DEF Alike, c
  <2>9. c.count = Cardinality(alike) /\ (was # {} => alike # {})
    BY <1>1 DEF FlatTrue, c
  <2>. HIDE DEF was, alike, n
  <2>10. /\ n + 1 \in Alike(r.sensor)'
         /\ \A j \in was : j \in Alike(r.sensor)' <=>
               \A k \in was : k >= j => records[k].value = r.value
         /\ \A j \in Alike(r.sensor)' : j \in was \cup {n + 1}
    <3>1. \A k \in was : ~(k >= n + 1)
      BY <1>3, <2>7
    <3>2. n + 1 \in Alike(r.sensor)'
      BY <2>6, <2>7, <3>1
    <3>3. \A j \in was : j \in Alike(r.sensor)' <=>
               \A k \in was : k >= j => records[k].value = r.value
      BY <2>6, <2>7
    <3>. QED
      BY <2>6, <3>2, <3>3
  <2>11. ASSUME c.last = r.value PROVE d.count = Cardinality(Alike(r.sensor)')
    <3>1. Alike(r.sensor)' = alike \cup {n + 1}
      BY <2>8, <2>10, <2>11
    <3>2. IsFiniteSet(alike) /\ n + 1 \notin alike
      BY <2>7, <2>8, FS_Subset
    <3>3. Cardinality(alike \cup {n + 1}) = Cardinality(alike) + 1
      BY <3>2, FS_AddElement
    <3>. QED
      BY <2>3, <2>9, <2>11, <3>1, <3>3
  <2>12. ASSUME c.last # r.value PROVE d.count = Cardinality(Alike(r.sensor)')
    <3>1. ASSUME NEW j \in was, j \in Alike(r.sensor)' PROVE FALSE
      <4>1. PICK m \in alike : TRUE
        BY <2>9
      <4>2. m \in was
        BY <2>8
      <4>3. CASE m >= j
        <5>1. records[m].value = r.value
          BY <2>10, <3>1, <4>2, <4>3
        <5>2. m >= m
          BY <2>7, <4>2
        <5>. QED
          BY <2>8, <2>12, <4>2, <5>1, <5>2
      <4>4. CASE j >= m
        <5>1. records[j].value = c.last
          BY <2>8, <4>4
        <5>2. j >= j
          BY <2>7
        <5>. QED
          BY <2>10, <2>12, <3>1, <5>1, <5>2
      <4>. QED
        BY <2>7, <4>2, <4>3, <4>4
    <3>2. Alike(r.sensor)' = {n + 1}
      BY <2>10, <3>1
    <3>3. Cardinality({n + 1}) = 1
      BY FS_Singleton
    <3>. QED
      BY <2>3, <2>12, <3>2, <3>3
  <2>13. flat'[r.sensor].count = Cardinality(Alike(r.sensor)') /\ Alike(r.sensor)' # {}
    BY <2>4, <2>10, <2>11, <2>12
  <2>14. \A x \in Sensors : x # r.sensor => PlausibleOf(x)' = PlausibleOf(x)
    BY <1>3
  <2>15. ASSUME NEW x \in Sensors
         PROVE  /\ flat'[x].count = Cardinality(Alike(x)')
                /\ PlausibleOf(x)' # {} => Alike(x)' # {}
    <3>1. CASE x = r.sensor
      BY <2>13, <3>1
    <3>2. CASE x # r.sensor
      BY <1>6, <2>4, <2>14, <3>2
    <3>. QED
      BY <3>1, <3>2
  <2>16. FlatTrue'
    BY <2>15 DEF FlatTrue
  <2>. QED
    BY <2>4, <2>16
<1>. QED
  BY <1>7, <1>8

(* The station's count after a new record                                   *)
LEMMA StreakStep ==
    ASSUME AnomalyTypeOK, StreakTrue, NEW rec \in Record, NEW s \in Stations, rec.sensor[1] = s,
           records' = Append(records, rec),
           streak' = [streak EXCEPT ![s] = Counted(streak[s], rec.state)]
    PROVE  StreakTrue' /\ streak' \in [Stations -> Nat]
<1>. DEFINE n == Len(records)
            own == OfStation(s)
            run == BadRun(s)
<1>1. streak \in [Stations -> Nat]
  BY DEF AnomalyTypeOK
<1>2. /\ n \in Nat
      /\ \A i \in DOMAIN records : i < n + 1 /\ i \in Nat /\ records'[i] = records[i]
      /\ records'[n + 1] = rec
      /\ \A x \in Stations :
            OfStation(x)' = IF rec.sensor[1] = x THEN OfStation(x) \cup {n + 1} ELSE OfStation(x)
  BY RecordAdded
<1>3. \A x : OfStation(x) \subseteq DOMAIN records
  BY DEF OfStation
<1>4. Counted(streak[s], rec.state) \in Nat
  BY <1>1 DEF Counted
<1>5. /\ streak' \in [Stations -> Nat]
      /\ streak'[s] = Counted(streak[s], rec.state)
      /\ \A x \in Stations : x # s => streak'[x] = streak[x]
  BY <1>1, <1>4
<1>6. \A x \in Stations :
          BadRun(x)' = {i \in OfStation(x)' : \A j \in OfStation(x)' : j >= i => records'[j].state \in Bad}
  BY DEF BadRun
<1>7. ASSUME NEW x \in Stations, x # s PROVE streak'[x] = Cardinality(BadRun(x)')
  <2>1. OfStation(x)' = OfStation(x)
    BY <1>2, <1>7
  <2>2. \A k \in OfStation(x) : records'[k] = records[k]
    BY <1>2, <1>3
  <2>3. BadRun(x)' = BadRun(x)
    BY <1>6, <2>1, <2>2 DEF BadRun
  <2>. QED
    BY <1>5, <1>7, <2>3 DEF StreakTrue
<1>8. streak'[s] = Cardinality(BadRun(s)')
  <2>1. OfStation(s)' = own \cup {n + 1}
    BY <1>2
  <2>2. /\ own \in SUBSET Nat /\ IsFiniteSet(own)
        /\ \A k \in own : k < n + 1 /\ k \in Nat /\ records'[k] = records[k]
        /\ n + 1 \notin own
    BY <1>2, <1>3, PositionsFinite
  <2>3. run = {i \in own : \A j \in own : j >= i => records[j].state \in Bad}
    BY DEF BadRun
  <2>4. streak[s] = Cardinality(run)
    BY DEF StreakTrue
  <2>5. BadRun(s)' =
            {i \in own \cup {n + 1} :
                \A j \in own \cup {n + 1} : j >= i => records'[j].state \in Bad}
    BY <1>6, <2>1
  <2>. HIDE DEF own, run, n
  <2>6. CASE rec.state \in Bad
    <3>1. BadRun(s)' = run \cup {n + 1}
      <4>1. \A k \in own : ~(k >= n + 1)
        BY <1>2, <2>2
      <4>2. records'[n + 1].state \in Bad /\ \A k \in own : records'[k] = records[k]
        BY <1>2, <2>2, <2>6
      <4>3. n + 1 \in BadRun(s)'
        BY <2>5, <4>1, <4>2
      <4>4. \A i \in own : i \in BadRun(s)' <=> i \in run
        BY <2>3, <2>5, <4>2
      <4>5. BadRun(s)' \subseteq own \cup {n + 1} /\ run \subseteq own
        BY <2>3, <2>5
      <4>. QED
        BY <4>3, <4>4, <4>5
    <3>2. IsFiniteSet(run) /\ n + 1 \notin run
      BY <2>2, <2>3, FS_Subset
    <3>3. Cardinality(run \cup {n + 1}) = Cardinality(run) + 1
      BY <3>2, FS_AddElement
    <3>. QED
      BY <1>5, <2>4, <2>6, <3>1, <3>3 DEF Counted
  <2>7. CASE rec.state \notin Bad
    <3>1. \A i \in own \cup {n + 1} : n + 1 >= i
      BY <1>2, <2>2
    <3>2. BadRun(s)' = {}
      BY <1>2, <2>5, <2>7, <3>1
    <3>. QED
      BY <1>5, <2>7, <3>2, FS_EmptySet DEF Counted
  <2>. QED
    BY <2>6, <2>7
<1>9. StreakTrue'
  BY <1>7, <1>8 DEF StreakTrue
<1>. QED
  BY <1>5, <1>9

(* What the records say of frozen sensors after a new one                   *)
LEMMA FrozenStep ==
    ASSUME AnomalyTypeOK, FlatTrue, FrozenTellsTracked,
           NEW r \in Readings, NEW rec \in Record,
           rec.sensor = r.sensor, rec.value = r.value,
           rec.frozen = (r.value # Missing /\ Frozen(flat, r)),
           records' = Append(records, rec)
    PROVE  FrozenTellsTracked'
<1>0. PICK n \in Nat : n = Len(records)
  BY LenProperties DEF AnomalyTypeOK
<1>. DEFINE Tells(i, newest) ==
                records'[i].frozen <=>
                    /\ records'[i].sensor[2] \in Watched
                    /\ records'[i].value # Missing
                    /\ Cardinality(newest) = FlatlineLimit
                    /\ \A j, k \in newest : records'[j].value = records'[k].value
<1>1. r.sensor \in Sensors
  BY DEF Readings
<1>2. /\ n \in Nat /\ DOMAIN records = 1 .. n
      /\ DOMAIN records' = DOMAIN records \cup {n + 1}
      /\ \A i \in DOMAIN records : i < n + 1 /\ i \in Nat /\ records'[i] = records[i]
      /\ records'[n + 1] = rec
  BY <1>0, RecordAdded
<1>3. ASSUME NEW i \in DOMAIN records PROVE Tells(i, Latest(i)')
  <2>1. \A j \in 1 .. i - 1 : j \in DOMAIN records
    BY <1>2
  <2>2. Before(i)' =
          {j \in 1 .. i - 1 : records'[j].sensor = records'[i].sensor /\ Plausible(records'[j])}
    BY DEF Before, Plausible
  <2>3. Before(i)' = Before(i)
    BY <1>2, <2>1, <2>2 DEF Before
  <2>4. Latest(i)' = {j \in Before(i)' : Cardinality({k \in Before(i)' : k > j}) < FlatlineLimit}
    BY DEF Latest
  <2>5. Latest(i)' = Latest(i)
    BY <2>3, <2>4 DEF Latest
  <2>6. \A j \in Latest(i) : records'[j] = records[j]
    BY <1>2, <2>1 DEF Latest, Before
  <2>7. records'[i] = records[i]
    BY <1>2
  <2>8. (\A j, k \in Latest(i) : records'[j].value = records'[k].value)
          <=> (\A j, k \in Latest(i) : records[j].value = records[k].value)
    <3>1. \A j \in Latest(i) : records'[j].value = records[j].value
      BY <2>6
    <3>2. ASSUME NEW j \in Latest(i), NEW k \in Latest(i)
          PROVE  records'[j].value = records'[k].value <=> records[j].value = records[k].value
      BY <3>1
    <3>. QED
      BY <3>2
  <2>9. records[i].frozen <=>
          /\ records[i].sensor[2] \in Watched
          /\ records[i].value # Missing
          /\ Cardinality(Latest(i)) = FlatlineLimit
          /\ \A j, k \in Latest(i) : records[j].value = records[k].value
    BY DEF FrozenTellsTracked
  <2>10. Tells(i, Latest(i))
    BY <2>7, <2>8, <2>9
  <2>. HIDE DEF Tells
  <2>. QED
    BY <2>5, <2>10
<1>4. Tells(n + 1, Latest(n + 1)')
  <2>. DEFINE newest == {j \in PlausibleOf(r.sensor) : Cardinality(After(PlausibleOf(r.sensor), j)) < FlatlineLimit}
  <2>1. Before(n + 1)' =
          {j \in 1 .. n : records'[j].sensor = r.sensor /\ Plausible(records'[j])}
    <3>1. (n + 1) - 1 = n
      BY <1>2
    <3>2. Before(n + 1)' =
            {j \in 1 .. (n + 1) - 1 :
                records'[j].sensor = records'[n + 1].sensor /\ Plausible(records'[j])}
      BY DEF Before, Plausible
    <3>. QED
      BY <1>2, <3>1, <3>2
  <2>2. Before(n + 1)' = PlausibleOf(r.sensor)
    BY <1>2, <2>1 DEF PlausibleOf
  <2>3. Latest(n + 1)' =
          {j \in Before(n + 1)' : Cardinality({k \in Before(n + 1)' : k > j}) < FlatlineLimit}
    BY DEF Latest
  <2>4. Latest(n + 1)' = newest
    BY <2>2, <2>3 DEF After
  <2>5. flat[r.sensor].count >= FlatlineLimit <=>
          /\ Cardinality(newest) = FlatlineLimit
          /\ \A j, k \in newest : records[j].value = records[k].value
    BY <1>1, FrozenIsAlike
  <2>6. \A j \in newest : records'[j] = records[j]
    BY <1>2 DEF PlausibleOf
  <2>. HIDE DEF newest
  <2>7. rec.frozen <=>
          /\ r.sensor[2] \in Watched
          /\ r.value # Missing
          /\ flat[r.sensor].count >= FlatlineLimit
    BY DEF Frozen
  <2>8. (\A j, k \in newest : records'[j].value = records'[k].value)
          <=> (\A j, k \in newest : records[j].value = records[k].value)
    <3>1. \A j \in newest : records'[j].value = records[j].value
      BY <2>6
    <3>2. ASSUME NEW j \in newest, NEW k \in newest
          PROVE  records'[j].value = records'[k].value <=> records[j].value = records[k].value
      BY <3>1
    <3>. QED
      BY <3>2
  <2>. QED
    BY <1>2, <2>4, <2>5, <2>7, <2>8
<1>. HIDE DEF Tells
<1>5. \A i \in DOMAIN records' : Tells(i, Latest(i)')
  BY <1>2, <1>3, <1>4
<1>. QED
  BY <1>5 DEF Tells, FrozenTellsTracked

LEMMA ProcessReadingInv == ASSUME AnomalyInv, ProcessReading PROVE AnomalyInv'
<1>. DEFINE n == Len(records)
            r == Head(arriving)
            state == StateOfReading(flat, r)
            frozen == r.value # Missing /\ Frozen(flat, r)
            rec == [sensor |-> r.sensor, value |-> r.value, state |-> state, frozen |-> frozen]
            s == r.sensor[1]
            note == <<n + 1, PriorityOfState(state)>>
<1>1. /\ AnomalyTypeOK /\ Len(records) + Len(arriving) <= MaxRecords
      /\ FlatTrue /\ StreakTrue /\ FrozenTellsTracked
  BY DEF AnomalyInv
<1>2. /\ arriving # <<>>
      /\ flat' = Tracked(flat, r)
      /\ streak' = [streak EXCEPT ![s] = Counted(streak[s], state)]
      /\ records' = Append(records, rec)
      /\ \/ announced' = announced \cup {note} /\ arriving' = Tail(arriving)
         \/ announced' = announced /\ arriving' = <<>>
  BY DEF ProcessReading
<1>3. arriving \in Seq(Readings) /\ records \in Seq(Record)
  BY <1>1 DEF AnomalyTypeOK
<1>4. /\ r \in Readings /\ Tail(arriving) \in Seq(Readings)
      /\ Len(arriving) \in Nat /\ Len(arriving) > 0
      /\ Len(Tail(arriving)) = Len(arriving) - 1
  BY <1>2, <1>3, HeadTailProperties, EmptySeq, LenProperties
<1>5. /\ r.sensor \in Sensors /\ s \in Stations /\ r.value \in Int
  <2>. HIDE DEF r
  <2>. QED
    BY <1>4 DEF Readings, Sensors
<1>6. state \in States
  BY StateKnown
<1>7. PriorityOfState(state) \in {"CRITICAL", "HIGH", "NORMAL"}
  <2>. HIDE DEF state
  <2>. QED
    BY <1>6 DEF PriorityOfState, States
<1>8. frozen \in BOOLEAN
  OBVIOUS
<1>9. rec \in Record /\ rec.sensor = r.sensor /\ rec.value = r.value /\ rec.state = state
      /\ rec.frozen = frozen
  <2>. HIDE DEF r, state, frozen
  <2>. QED
    BY <1>5, <1>6, <1>8 DEF Record
<1>10. n \in Nat /\ Len(records') = n + 1 /\ records' \in Seq(Record)
  <2>. HIDE DEF rec
  <2>. QED
    BY <1>2, <1>3, <1>9, AppendProperties, LenProperties
<1>. HIDE DEF n, r, state, frozen, rec
<1>11. FlatTrue' /\ flat' \in [Sensors -> [last : Int, count : Nat]]
  BY <1>1, <1>2, <1>4, <1>9, FlatStep
<1>12. StreakTrue' /\ streak' \in [Stations -> Nat]
  BY <1>1, <1>2, <1>5, <1>9, StreakStep
<1>13. FrozenTellsTracked'
  BY <1>1, <1>2, <1>4, <1>9, FrozenStep DEF frozen
<1>14. arriving' \in Seq(Readings) /\ Len(records') + Len(arriving') <= MaxRecords
  <2>1. <<>> \in Seq(Readings) /\ Len(<<>>) = 0
    BY EmptySeq
  <2>2. MaxRecords \in Nat
    BY AnomalyAssumption
  <2>3. CASE arriving' = Tail(arriving)
    BY <1>1, <1>4, <1>10, <2>2, <2>3 DEF n
  <2>4. CASE arriving' = <<>>
    <3>1. Len(arriving') = 0
      BY <2>1, <2>4
    <3>2. n + 1 <= MaxRecords
      BY <1>1, <1>4, <1>10, <2>2 DEF n
    <3>. QED
      BY <1>10, <2>1, <2>2, <2>4, <3>1, <3>2
  <2>. QED
    BY <1>2, <2>3, <2>4
<1>15. announced' \subseteq (1 .. MaxRecords) \X {"CRITICAL", "HIGH", "NORMAL"}
  <2>1. n + 1 \in 1 .. MaxRecords
    BY <1>1, <1>4, <1>10, AnomalyAssumption DEF n
  <2>2. announced \subseteq (1 .. MaxRecords) \X {"CRITICAL", "HIGH", "NORMAL"}
    BY <1>1 DEF AnomalyTypeOK
  <2>. QED
    BY <1>2, <1>7, <2>1, <2>2
<1>16. AnomalyTypeOK'
  BY <1>10, <1>11, <1>12, <1>14, <1>15 DEF AnomalyTypeOK
<1>. QED
  BY <1>11, <1>12, <1>13, <1>14, <1>16 DEF AnomalyInv

LEMMA AnomalyInvStep == AnomalyInv /\ [AnomalyNext]_anomalyVars => AnomalyInv'
<1>. SUFFICES ASSUME AnomalyInv, [AnomalyNext]_anomalyVars PROVE AnomalyInv'
  OBVIOUS
<1>1. CASE UNCHANGED anomalyVars
  <2>1. FlatTrue' /\ StreakTrue' /\ FrozenTellsTracked'
    BY <1>1, TrackingKept DEF AnomalyInv, anomalyVars
  <2>2. AnomalyTypeOK'
    BY <1>1 DEF AnomalyInv, AnomalyTypeOK, anomalyVars
  <2>3. Len(records') + Len(arriving') <= MaxRecords
    BY <1>1 DEF AnomalyInv, anomalyVars
  <2>. QED
    BY <2>1, <2>2, <2>3 DEF AnomalyInv
<1>2. ASSUME NEW readings \in Payloads, StreamEvent(readings) PROVE AnomalyInv'
  <2>1. readings \in Seq(Readings) /\ Arrive(readings)
    BY <1>2, ReadingsAssumption DEF StreamEvent
  <2>. QED
    BY <2>1, ArriveInv
<1>3. ASSUME NEW r \in Injected, InjectTest(r) PROVE AnomalyInv'
  <2>1. <<r>> \in Seq(Readings) /\ Arrive(<<r>>)
    BY <1>3, ReadingsAssumption DEF InjectTest
  <2>. QED
    BY <2>1, ArriveInv
<1>4. CASE ProcessReading
  BY <1>4, ProcessReadingInv
(* After a restart all is as it was at the start. *)
<1>5. CASE AnomalyRestart
  <2>1. AnomalyInit'
    BY <1>5 DEF AnomalyRestart, AnomalyInit
  <2>. QED
    BY <2>1, AnomalyInvInit, PTL
<1>. QED
  BY <1>1, <1>2, <1>3, <1>4, <1>5 DEF AnomalyNext

LEMMA AnomalyInvHolds == AnomalySpec => []AnomalyInv
<1>. QED
  BY AnomalyInvInit, AnomalyInvStep, PTL DEF AnomalySpec

(* Every reachable state of the detector and its records is well typed.     *)
THEOREM AnomalyTypeCorrect == AnomalySpec => []AnomalyTypeOK
<1>1. AnomalyInv => AnomalyTypeOK
  BY DEF AnomalyInv
<1>. QED
  BY <1>1, AnomalyInvHolds, PTL

(* FrozenTellsReadings: a reading that repeats the sensor's last plausible  *)
(* one is recorded as frozen exactly if it and the FlatlineLimit plausible  *)
(* readings before it are alike, for any limit, bounds, stations and        *)
(* events. _is_flatline compares no readings; that the counter it looks at  *)
(* stands for them is the tracker's invariant.                              *)
THEOREM FrozenIsTrue == AnomalySpec => []FrozenTellsReadings
<1>1. ASSUME AnomalyInv PROVE FrozenTellsReadings
  <2>. SUFFICES ASSUME NEW i \in DOMAIN records, Repeats(i)
       PROVE  records[i].frozen <=>
                /\ records[i].sensor[2] \in Watched
                /\ Cardinality(Latest(i)) = FlatlineLimit
                /\ \A j \in Latest(i) : records[j].value = records[i].value
    BY DEF FrozenTellsReadings
  <2>1. PICK j \in Before(i) :
           (\A k \in Before(i) : k <= j) /\ records[j].value = records[i].value
    BY DEF Repeats
  <2>2. records[i].value # Missing
    BY <2>1 DEF Before, Plausible
  (* Nothing is later than the last one: it is among the latest. *)
  <2>3. {k \in Before(i) : k > j} = {}
    <3>1. \A k \in Before(i) : k \in Int
      BY DEF Before
    <3>. QED
      BY <2>1, <3>1
  <2>4. j \in Latest(i)
    <3>. DEFINE later == {k \in Before(i) : k > j}
    <3>1. Cardinality(later) = 0
      BY <2>3, FS_EmptySet, Zenon
    <3>2. 0 < FlatlineLimit
      BY AnomalyAssumption
    <3>. QED
      BY <2>1, <3>1, <3>2 DEF Latest
  <2>5. (\A m, k \in Latest(i) : records[m].value = records[k].value)
           <=> \A m \in Latest(i) : records[m].value = records[i].value
    BY <2>1, <2>4
  <2>. QED
    BY <1>1, <2>2, <2>5 DEF AnomalyInv, FrozenTellsTracked
<1>. QED
  BY <1>1, AnomalyInvHolds, PTL

(* StreakTellsRecords: _consecutive_anomalies counts the latest records of  *)
(* a station in a row that were anomalous, over all its variables.          *)
THEOREM StreakIsTrue == AnomalySpec => []StreakTellsRecords
<1>1. ASSUME AnomalyInv PROVE StreakTellsRecords
  <2>. SUFFICES ASSUME NEW s \in Stations
       PROVE  LET own == {i \in DOMAIN records : records[i].sensor[1] = s}
              IN  /\ streak[s] <= Cardinality(own)
                  /\ \A i \in own :
                        (records[i].state \in Bad /\ Cardinality({j \in own : j > i}) < streak[s])
                        \/ Cardinality({j \in own : j > i}) >= streak[s]
                  /\ streak[s] < Cardinality(own) =>
                        \E i \in own : /\ Cardinality({j \in own : j > i}) = streak[s]
                                       /\ records[i].state \notin Bad
    BY DEF StreakTellsRecords
  <2>. DEFINE own == OfStation(s)
              run == BadRun(s)
              rank(i) == Cardinality(After(own, i))
              c == streak[s]
  <2>1. own \in SUBSET Nat /\ IsFiniteSet(own)
    BY <1>1, PositionsFinite DEF AnomalyInv
  <2>2. c = Cardinality(run)
    BY <1>1 DEF AnomalyInv, StreakTrue
  <2>3. \A i \in own : i \in run <=> \A j \in own : j >= i => records[j].state \in Bad
    BY DEF BadRun
  <2>4. run \in SUBSET own
    BY DEF BadRun
  <2>5. own = {i \in DOMAIN records : records[i].sensor[1] = s}
    BY DEF OfStation
  <2>. HIDE DEF own, run, c
  <2>6. \A i \in run, j \in own : j >= i => j \in run
    <3>. SUFFICES ASSUME NEW i \in run, NEW j \in own, j >= i, NEW k \in own, k >= j
                  PROVE  records[k].state \in Bad
      BY <2>3
    <3>1. i \in Nat /\ j \in Nat /\ k \in Nat
      BY <2>1, <2>4
    <3>2. k >= i
      BY <3>1
    <3>. QED
      BY <2>3, <2>4, <3>2
  <2>7. c \in 0 .. Cardinality(own) /\ \A i \in own : i \in run <=> rank(i) < c
    BY <2>1, <2>2, <2>4, <2>6, UpwardClosed
  <2>8. Cardinality(own) \in Nat
    BY <2>1, FS_CardinalityType
  <2>9. /\ \A i \in own : rank(i) \in Nat
        /\ \A i, j \in own : i < j => rank(j) < rank(i)
        /\ \A m \in 0 .. Cardinality(own) - 1 : \E i \in own : rank(i) = m
    BY <2>1, <2>8, Ranked
  <2>10. \A i \in own : rank(i) = Cardinality({j \in own : j > i})
    BY DEF After
  <2>. HIDE DEF rank
  <2>11. c <= Cardinality(own)
    BY <2>7, <2>8
  <2>12. ASSUME NEW i \in own PROVE (records[i].state \in Bad /\ rank(i) < c) \/ rank(i) >= c
    <3>1. CASE i \in run
      <4>1. i >= i
        BY <2>1
      <4>. QED
        BY <2>3, <2>7, <3>1, <4>1
    <3>2. CASE i \notin run
      <4>1. ~(rank(i) < c) /\ rank(i) \in Nat /\ c \in Int
        BY <2>7, <2>8, <2>9, <3>2
      <4>. QED
        BY <4>1
    <3>. QED
      BY <3>1, <3>2
  <2>13. ASSUME c < Cardinality(own)
         PROVE  \E i \in own : rank(i) = c /\ records[i].state \notin Bad
    <3>1. c \in 0 .. Cardinality(own) - 1
      BY <2>7, <2>8, <2>13
    <3>2. PICK i \in own : rank(i) = c
      BY <2>9, <3>1
    <3>3. i \notin run
      BY <2>7, <2>8, <3>1, <3>2
    <3>4. PICK j \in own : j >= i /\ records[j].state \notin Bad
      BY <2>3, <3>3
    <3>5. j = i
      <4>1. i \in Nat /\ j \in Nat
        BY <2>1
      <4>2. ASSUME i < j PROVE FALSE
        <5>1. rank(j) < c
          BY <2>9, <3>2, <4>2
        <5>2. j \in run /\ j >= j
          BY <2>7, <4>1, <5>1
        <5>. QED
          BY <2>3, <3>4, <5>2
      <4>. QED
        BY <3>4, <4>1, <4>2
    <3>. QED
      BY <3>2, <3>4, <3>5
  <2>. QED
    BY <2>5, <2>10, <2>11, <2>12, <2>13 DEF c
<1>. QED
  BY <1>1, AnomalyInvHolds, PTL
-----------------------------------------------------------------------------
(*                          The sources that fail                          *)

Listed(x, todo) == \E i \in 1 .. Len(todo) : todo[i] = x

(* The reads of an answer, of each kind *)
Planned(kind) ==
    IF kind = "alerts"
    THEN AllSources \X {"status"} \cup {<<RADAR, "again">>, <<CWC, "again">>}
    ELSE AllSources \X Attributes

(* The history of a reader takes note of what is good now, and keeps what   *)
(* was good when it was read.                                               *)
HistoryTrue(r) ==
    /\ r.always \subseteq Good /\ Good \subseteq r.ever
    /\ \A x \in r.seen : Looked(x) \in r.ever

(* A planned read is still to come, or was good, or was bad at a moment. *)
NoneSkipped(r) ==
    \A x \in Planned(r.kind) :
        Listed(x, r.todo) \/ x \in r.seen \/ Looked(x) \notin r.always

AnswerOf(r) == IF r.kind = "alerts" THEN AlertConfidence(r.seen) ELSE FusedConfidence(r.seen)
AnsweredLast(r) == r.answer # "NONE" => r.todo = <<>> /\ r.answer = AnswerOf(r)

(* Whoever sets a health writes attributes, and never an "again". *)
Sound(r) ==
    /\ r.kind \in {"offline", "restore"} => r.todo \in Seq(Reads)
    /\ r.kind \in {"alerts", "nowcast"} => HistoryTrue(r) /\ NoneSkipped(r) /\ AnsweredLast(r)

OutageInv ==
    /\ health \in [Reads -> BOOLEAN] /\ request \in [Requests -> RequestStates]
    /\ \A t \in Requests : Sound(request[t])
-----------------------------------------------------------------------------
LEMMA AsSequence ==
    ASSUME NEW S, NEW n \in Nat, NEW f \in [1 .. n -> S]
    PROVE  f \in Seq(S) /\ Len(f) = n
<1>1. Seq(S) = UNION {[1 .. m -> S] : m \in Nat}
  OBVIOUS
<1>2. f \in Seq(S)
  BY <1>1
<1>3. Len(f) \in Nat /\ DOMAIN f = 1 .. Len(f)
  BY <1>2, LenProperties
<1>4. \A m \in Nat : 1 .. m = 1 .. n => m = n
  <2>. SUFFICES ASSUME NEW m \in Nat, 1 .. m = 1 .. n PROVE m = n
    OBVIOUS
  <2>1. m >= 1 => m \in 1 .. n
    OBVIOUS
  <2>2. n >= 1 => n \in 1 .. m
    OBVIOUS
  <2>. QED
    BY <2>1, <2>2
<1>. QED
  BY <1>2, <1>3, <1>4

LEMMA SourcesFinite == IsFiniteSet(AllSources)
<1>. DEFINE n == Len(Adapters)
<1>1. n \in Nat /\ Adapters \in [1 .. n -> AllSources]
  BY OutageAssumption, LenProperties DEF AllSources
<1>2. \A s \in AllSources : \E i \in 1 .. n : Adapters[i] = s
  BY <1>1 DEF AllSources, Range
<1>3. Adapters \in Surjection(1 .. n, AllSources)
  BY <1>1, <1>2 DEF Surjection
<1>4. IsFiniteSet(1 .. n)
  BY <1>1, FS_Interval
<1>. QED
  BY <1>3, <1>4, FS_Surjection

LEMMA SourceIndex ==
    /\ Len(Adapters) \in Nat
    /\ \A i \in 1 .. Len(Adapters) : Adapters[i] \in AllSources
    /\ \A s \in AllSources : \E i \in 1 .. Len(Adapters) : Adapters[i] = s
    /\ {RADAR, GAUGES, CWC} \subseteq AllSources
<1>1. Len(Adapters) \in Nat /\ Adapters \in [1 .. Len(Adapters) -> AllSources]
  BY OutageAssumption, LenProperties DEF AllSources
<1>. QED
  BY <1>1, OutageAssumption DEF AllSources, Range

LEMMA NowcastPlan ==
    /\ PairedReads \in Seq(AllSources \X Looks)
    /\ \A x \in Planned("nowcast") : Listed(x, PairedReads)
<1>. DEFINE n == Len(Adapters)
<1>1. n \in Nat /\ 2 * n \in Nat
  BY SourceIndex
<1>2. ASSUME NEW i \in 1 .. 2 * n
      PROVE  (i + 1) \div 2 \in 1 .. n
  BY <1>1
<1>3. \A i \in 1 .. 2 * n : PairedReads[i] \in AllSources \X Looks
  BY <1>2, SourceIndex DEF PairedReads, Looks, Attributes
<1>4. PairedReads \in [1 .. 2 * n -> AllSources \X Looks]
  BY <1>3 DEF PairedReads
<1>5. PairedReads \in Seq(AllSources \X Looks) /\ Len(PairedReads) = 2 * n
  BY <1>1, <1>4, AsSequence
<1>6. ASSUME NEW j \in 1 .. n
      PROVE  /\ 2 * j - 1 \in 1 .. 2 * n /\ 2 * j \in 1 .. 2 * n
             /\ PairedReads[2 * j - 1] = <<Adapters[j], "flag">>
             /\ PairedReads[2 * j] = <<Adapters[j], "status">>
  <2>1. 2 * j - 1 \in 1 .. 2 * n /\ 2 * j \in 1 .. 2 * n
    BY <1>1
  <2>2. /\ ((2 * j - 1) + 1) \div 2 = j /\ (2 * j + 1) \div 2 = j
        /\ (2 * j - 1) % 2 = 1 /\ (2 * j) % 2 = 0
    OBVIOUS
  <2>. QED
    BY <2>1, <2>2 DEF PairedReads
<1>7. ASSUME NEW s \in AllSources, NEW l \in Attributes
      PROVE  Listed(<<s, l>>, PairedReads)
  <2>1. PICK j \in 1 .. n : Adapters[j] = s
    BY SourceIndex
  <2>. QED
    BY <1>5, <1>6, <2>1 DEF Listed, Attributes
<1>. QED
  BY <1>5, <1>7 DEF Planned

LEMMA AlertsPlan ==
    LET todo == StatusReads \o <<<<RADAR, "again">>, <<CWC, "again">>>> IN
    /\ todo \in Seq(AllSources \X Looks)
    /\ \A x \in Planned("alerts") : Listed(x, todo)
<1>. DEFINE n == Len(Adapters)
            again == <<<<RADAR, "again">>, <<CWC, "again">>>>
            todo == StatusReads \o again
<1>1. n \in Nat
  BY SourceIndex
<1>2. StatusReads \in [1 .. n -> AllSources \X Looks]
  BY SourceIndex DEF StatusReads, Looks, Attributes
<1>3. StatusReads \in Seq(AllSources \X Looks) /\ Len(StatusReads) = n
  BY <1>1, <1>2, AsSequence
<1>4. again \in Seq(AllSources \X Looks) /\ Len(again) = 2
      /\ again[1] = <<RADAR, "again">> /\ again[2] = <<CWC, "again">>
  BY SourceIndex DEF Looks
<1>. HIDE DEF again
<1>5. /\ todo \in Seq(AllSources \X Looks) /\ Len(todo) = n + 2
      /\ \A i \in 1 .. n + 2 : todo[i] = IF i <= n THEN StatusReads[i] ELSE again[i - n]
  <2>1. /\ todo \in Seq(AllSources \X Looks) /\ Len(todo) = Len(StatusReads) + Len(again)
        /\ \A i \in 1 .. Len(StatusReads) + Len(again) :
               todo[i] = IF i <= Len(StatusReads) THEN StatusReads[i]
                                                 ELSE again[i - Len(StatusReads)]
    BY <1>3, <1>4, ConcatProperties
  <2>. HIDE DEF todo
  <2>. QED
    BY <1>3, <1>4, <2>1
<1>6. \A s \in AllSources : Listed(<<s, "status">>, todo)
  <2>. SUFFICES ASSUME NEW s \in AllSources PROVE Listed(<<s, "status">>, todo)
    OBVIOUS
  <2>1. PICK i \in 1 .. n : Adapters[i] = s
    BY SourceIndex
  <2>2. todo[i] = <<s, "status">> /\ i \in 1 .. n + 2
    BY <1>1, <1>5, <2>1 DEF StatusReads
  <2>. QED
    BY <1>5, <2>2 DEF Listed
<1>7. Listed(<<RADAR, "again">>, todo) /\ Listed(<<CWC, "again">>, todo)
  <2>1. todo[n + 1] = again[1] /\ todo[n + 2] = again[2]
        /\ n + 1 \in 1 .. n + 2 /\ n + 2 \in 1 .. n + 2
    BY <1>1, <1>5
  <2>. QED
    BY <1>4, <1>5, <2>1 DEF Listed
<1>8. \A x \in AllSources \X {"status"} : Listed(x, todo)
  BY <1>6
<1>9. \A x \in Planned("alerts") : Listed(x, todo)
  <2>. HIDE DEF todo
  <2>. QED
    BY <1>7, <1>8 DEF Planned
<1>. QED
  BY <1>5, <1>9 DEF again

LEMMA ReadOff ==
    ASSUME NEW S, NEW todo \in Seq(S), todo # <<>>
    PROVE  /\ Head(todo) \in S /\ Tail(todo) \in Seq(S)
           /\ \A x : Listed(x, todo) => x = Head(todo) \/ Listed(x, Tail(todo))
<1>1. /\ Head(todo) \in S /\ Tail(todo) \in Seq(S)
      /\ Len(todo) \in Nat /\ Len(Tail(todo)) = Len(todo) - 1
      /\ \A i \in 1 .. Len(Tail(todo)) : Tail(todo)[i] = todo[i + 1]
      /\ Head(todo) = todo[1]
  BY HeadTailProperties, LenProperties
<1>2. ASSUME NEW i \in 1 .. Len(todo), i # 1
      PROVE  i - 1 \in 1 .. Len(Tail(todo)) /\ Tail(todo)[i - 1] = todo[i]
  <2>. DEFINE n == Len(todo)
              m == Len(Tail(todo))
  <2>1. i - 1 \in 1 .. m /\ (i - 1) + 1 = i
    <3>1. n \in Nat /\ m = n - 1 /\ i \in 1 .. n
      BY <1>1, <1>2
    <3>. HIDE DEF n, m
    <3>. QED
      BY <1>2, <3>1
  <2>. QED
    BY <1>1, <2>1
<1>. QED
  BY <1>1, <1>2 DEF Listed
LEMMA OutageInvInit == OutageInit => OutageInv
<1>. SUFFICES ASSUME OutageInit PROVE OutageInv
  OBVIOUS
<1>1. NoRequest \in RequestStates /\ NoRequest.kind = "idle"
  BY DEF NoRequest, RequestStates, Confidence
<1>. QED
  BY <1>1 DEF OutageInit, OutageInv, Sound

(* A step of one thread that leaves the health alone. *)
LEMMA RequestMovedOn ==
    ASSUME OutageInv, NEW t \in Requests, NEW r \in RequestStates, Sound(r),
           request' = [request EXCEPT ![t] = r], UNCHANGED health
    PROVE  OutageInv'
<1>1. /\ request' \in [Requests -> RequestStates] /\ request'[t] = r
      /\ \A u \in Requests \ {t} : request'[u] = request[u]
  BY DEF OutageInv
<1>2. Good' = Good
  BY DEF Good
<1>3. ASSUME NEW u \in Requests PROVE Sound(request[u])'
  <2>1. CASE u = t
    BY <1>1, <1>2, <2>1 DEF Sound, HistoryTrue, NoneSkipped, AnsweredLast, AnswerOf
  <2>2. CASE u # t
    BY <1>1, <1>2, <2>2 DEF OutageInv, Sound, HistoryTrue, NoneSkipped, AnsweredLast, AnswerOf
  <2>. QED
    BY <2>1, <2>2
<1>. QED
  BY <1>1, <1>3 DEF OutageInv

LEMMA SetHealthInv ==
    ASSUME OutageInv, NEW t \in Requests, NEW s \in AllSources,
           NEW kind \in {"offline", "restore"}, SetHealth(t, s, kind)
    PROVE  OutageInv'
<1>. DEFINE todo == <<<<s, "status">>, <<s, "flag">>>>
            r == [NoRequest EXCEPT !.kind = kind, !.todo = todo]
<1>1. todo \in Seq(Reads) /\ todo \in Seq(AllSources \X Looks)
  BY DEF Reads, Attributes, Looks
<1>. HIDE DEF todo
<1>2. r \in RequestStates /\ r.kind = kind /\ r.todo = todo
  BY <1>1 DEF NoRequest, RequestStates, Confidence
<1>3. request' = [request EXCEPT ![t] = r] /\ UNCHANGED health
  BY DEF SetHealth, todo
<1>. HIDE DEF r
<1>4. Sound(r)
  BY <1>1, <1>2 DEF Sound
<1>. QED
  BY <1>2, <1>3, <1>4, RequestMovedOn

LEMMA PlanInv ==
    ASSUME OutageInv, NEW t \in Requests, NEW kind \in {"alerts", "nowcast"},
           NEW todo \in Seq(AllSources \X Looks),
           \A x \in Planned(kind) : Listed(x, todo),
           request' = [request EXCEPT ![t] =
               [NoRequest EXCEPT !.kind = kind, !.todo = todo, !.ever = Good, !.always = Good]],
           UNCHANGED health
    PROVE  OutageInv'
<1>. DEFINE r == [NoRequest EXCEPT !.kind = kind, !.todo = todo, !.ever = Good, !.always = Good]
<1>1. Good \in SUBSET Reads
  BY DEF Good
<1>2. /\ r \in RequestStates /\ r.kind = kind /\ r.todo = todo /\ r.ever = Good
      /\ r.always = Good /\ r.seen = {} /\ r.answer = "NONE"
  BY <1>1 DEF NoRequest, RequestStates, Confidence
<1>. HIDE DEF r
<1>3. Sound(r)
  BY <1>2 DEF Sound, HistoryTrue, NoneSkipped, AnsweredLast
<1>. QED
  BY <1>2, <1>3, RequestMovedOn DEF r

LEMMA LooksAtAttribute == ASSUME NEW x \in AllSources \X Looks PROVE Looked(x) \in Reads
<1>1. PICK s \in AllSources, l \in Looks : x = <<s, l>>
  OBVIOUS
<1>2. l \in Attributes \/ l = "again"
  BY DEF Looks
<1>. QED
  BY <1>1, <1>2 DEF Looked, Reads, Attributes

LEMMA ReadInv == ASSUME OutageInv, NEW t \in Requests, Read(t) PROVE OutageInv'
<1>. DEFINE q == request[t]
            x == Head(q.todo)
            good == health[Looked(x)]
            r == [q EXCEPT !.todo = Tail(q.todo), !.seen = IF good THEN q.seen \cup {x} ELSE q.seen]
<1>1. /\ q \in RequestStates /\ q.kind \in {"alerts", "nowcast"} /\ q.todo # <<>>
      /\ Sound(q)
  BY DEF Read, OutageInv
<1>2. q.todo \in Seq(AllSources \X Looks)
  BY <1>1 DEF RequestStates
<1>3. /\ x \in AllSources \X Looks /\ Tail(q.todo) \in Seq(AllSources \X Looks)
      /\ \A y : Listed(y, q.todo) => y = x \/ Listed(y, Tail(q.todo))
  BY <1>1, <1>2, ReadOff
<1>4. request' = [request EXCEPT ![t] = r] /\ UNCHANGED health
  BY DEF Read, OutageInv
<1>5. Looked(x) \in Reads
  BY <1>3, LooksAtAttribute
<1>6. good \in BOOLEAN /\ (good <=> Looked(x) \in Good)
  BY <1>5 DEF OutageInv, Good
<1>. HIDE DEF x, good
<1>7. /\ r \in RequestStates /\ r.kind = q.kind /\ r.todo = Tail(q.todo)
      /\ r.seen = (IF good THEN q.seen \cup {x} ELSE q.seen)
      /\ r.ever = q.ever /\ r.always = q.always /\ r.answer = q.answer
  BY <1>1, <1>3, <1>6 DEF RequestStates
<1>. HIDE DEF r
<1>8. q.answer = "NONE"
  BY <1>1 DEF Sound, AnsweredLast
<1>9. HistoryTrue(q) /\ NoneSkipped(q)
  BY <1>1 DEF Sound
<1>10. HistoryTrue(r)
  BY <1>6, <1>7, <1>9 DEF HistoryTrue
<1>11. NoneSkipped(r)
  <2>. SUFFICES ASSUME NEW y \in Planned(r.kind)
                PROVE  Listed(y, r.todo) \/ y \in r.seen \/ Looked(y) \notin r.always
    BY DEF NoneSkipped
  <2>1. Listed(y, q.todo) \/ y \in q.seen \/ Looked(y) \notin q.always
    BY <1>7, <1>9 DEF NoneSkipped
  <2>2. CASE y = x
    BY <1>6, <1>7, <1>9, <2>2 DEF HistoryTrue
  <2>3. CASE y # x
    BY <1>3, <1>7, <2>1, <2>3
  <2>. QED
    BY <2>2, <2>3
<1>12. Sound(r)
  BY <1>1, <1>7, <1>8, <1>10, <1>11 DEF Sound, AnsweredLast
<1>. HIDE DEF q
<1>. QED
  BY <1>4, <1>7, <1>12, RequestMovedOn

LEMMA AnswerInv == ASSUME OutageInv, NEW t \in Requests, Answer(t) PROVE OutageInv'
<1>. DEFINE q == request[t]
            r == [q EXCEPT !.answer = AnswerOf(q)]
<1>1. /\ q \in RequestStates /\ q.kind \in {"alerts", "nowcast"} /\ q.todo = <<>>
      /\ Sound(q)
  BY DEF Answer, OutageInv
<1>2. AnswerOf(q) \in Confidence
  BY DEF AnswerOf, AlertConfidence, FusedConfidence, Confidence
<1>3. request' = [request EXCEPT ![t] = r] /\ UNCHANGED health
  BY DEF Answer, OutageInv, AnswerOf
<1>4. /\ r \in RequestStates /\ r.kind = q.kind /\ r.todo = q.todo /\ r.seen = q.seen
      /\ r.ever = q.ever /\ r.always = q.always /\ r.answer = AnswerOf(q)
  BY <1>1, <1>2 DEF RequestStates
<1>5. AnswerOf(r) = AnswerOf(q)
  BY <1>4 DEF AnswerOf
<1>. HIDE DEF q, r
<1>6. Sound(r)
  BY <1>1, <1>4, <1>5 DEF Sound, HistoryTrue, NoneSkipped, AnsweredLast
<1>. QED
  BY <1>3, <1>4, <1>6, RequestMovedOn

LEMMA WriteInv == ASSUME OutageInv, NEW t \in Requests, Write(t) PROVE OutageInv'
<1>. DEFINE q == request[t]
            x == Head(q.todo)
            good == q.kind = "restore"
            r == [q EXCEPT !.todo = Tail(q.todo)]
            noted(p) == [p EXCEPT !.ever = IF good THEN p.ever \cup {x} ELSE p.ever,
                                  !.always = IF good THEN p.always ELSE p.always \ {x}]
<1>1. /\ q \in RequestStates /\ q.kind \in {"offline", "restore"} /\ q.todo # <<>>
      /\ q.todo \in Seq(Reads)
  BY DEF Write, OutageInv, Sound
<1>2. x \in Reads /\ Tail(q.todo) \in Seq(Reads)
  BY <1>1, ReadOff
<1>3. q.todo \in Seq(AllSources \X Looks)
  BY <1>1 DEF RequestStates
<1>4. Tail(q.todo) \in Seq(AllSources \X Looks)
  BY <1>1, <1>3, ReadOff
<1>5. /\ health' = [health EXCEPT ![x] = good] /\ health' \in [Reads -> BOOLEAN]
      /\ request' = [u \in Requests |->
             IF u = t THEN r
             ELSE IF request[u].kind \in {"alerts", "nowcast"} THEN noted(request[u])
             ELSE request[u]]
  BY DEF Write, OutageInv
<1>6. Good' = IF good THEN Good \cup {x} ELSE Good \ {x}
  BY <1>2, <1>5 DEF Good, OutageInv
<1>7. r \in RequestStates /\ r.kind = q.kind /\ r.todo = Tail(q.todo)
  BY <1>1, <1>4 DEF RequestStates
<1>. HIDE DEF q, x, r
<1>8. ASSUME NEW u \in Requests PROVE request'[u] \in RequestStates /\ Sound(request[u])'
  <2>1. CASE u = t
    <3>1. request'[u] = r
      BY <1>5, <2>1
    <3>. QED
      BY <1>1, <1>2, <1>7, <3>1 DEF Sound
  <2>2. CASE u # t /\ request[u].kind \notin {"alerts", "nowcast"}
    <3>1. request'[u] = request[u]
      BY <1>5, <2>2
    <3>. QED
      BY <2>2, <3>1 DEF OutageInv, Sound
  <2>3. CASE u # t /\ request[u].kind \in {"alerts", "nowcast"}
    <3>. DEFINE p == request[u]
                n == noted(request[u])
    <3>1. request'[u] = n
      BY <1>5, <2>3
    <3>2. p \in RequestStates /\ HistoryTrue(p) /\ NoneSkipped(p) /\ AnsweredLast(p)
      BY <2>3 DEF OutageInv, Sound
    <3>3. /\ n \in RequestStates /\ n.kind = p.kind /\ n.todo = p.todo /\ n.seen = p.seen
          /\ n.answer = p.answer
          /\ n.ever = (IF good THEN p.ever \cup {x} ELSE p.ever)
          /\ n.always = (IF good THEN p.always ELSE p.always \ {x})
      BY <1>2, <3>2 DEF RequestStates
    <3>. HIDE DEF p, n, noted, good
    <3>4. /\ n.always \subseteq Good' /\ Good' \subseteq n.ever
          /\ \A y \in n.seen : Looked(y) \in n.ever
      BY <1>6, <3>2, <3>3 DEF HistoryTrue
    <3>5. NoneSkipped(n)
      BY <3>2, <3>3 DEF NoneSkipped
    <3>6. AnsweredLast(n)
      BY <3>2, <3>3 DEF AnsweredLast, AnswerOf
    <3>7. request'[u].kind \notin {"offline", "restore"}
      BY <2>3, <3>1, <3>3 DEF p
    <3>. QED
      BY <3>1, <3>3, <3>4, <3>5, <3>6, <3>7
      DEF Sound, HistoryTrue, NoneSkipped, AnsweredLast, AnswerOf
  <2>. QED
    BY <2>1, <2>2, <2>3
<1>. QED
  BY <1>5, <1>8 DEF OutageInv

LEMMA OutageInvStep == OutageInv /\ [OutageNext]_outageVars => OutageInv'
<1>. SUFFICES ASSUME OutageInv, [OutageNext]_outageVars PROVE OutageInv'
  OBVIOUS
<1>1. ASSUME NEW t \in Requests, AskAlerts(t) PROVE OutageInv'
  <2>. DEFINE todo == StatusReads \o <<<<RADAR, "again">>, <<CWC, "again">>>>
  <2>1. todo \in Seq(AllSources \X Looks) /\ \A x \in Planned("alerts") : Listed(x, todo)
    BY AlertsPlan
  <2>2. /\ request' = [request EXCEPT ![t] = [NoRequest EXCEPT !.kind = "alerts",
                           !.todo = todo, !.ever = Good, !.always = Good]]
        /\ UNCHANGED health
    BY <1>1 DEF AskAlerts
  <2>. HIDE DEF todo
  <2>. QED
    BY <2>1, <2>2, PlanInv
<1>2. ASSUME NEW t \in Requests, AskNowcast(t) PROVE OutageInv'
  BY <1>2, PlanInv, NowcastPlan DEF AskNowcast
<1>3. ASSUME NEW t \in Requests, EndRequest(t) PROVE OutageInv'
  <2>1. NoRequest \in RequestStates /\ Sound(NoRequest)
    BY DEF NoRequest, RequestStates, Confidence, Sound
  <2>. QED
    BY <1>3, <2>1, RequestMovedOn DEF EndRequest
<1>4. CASE UNCHANGED outageVars
  BY <1>4 DEF outageVars, OutageInv, Sound, HistoryTrue, NoneSkipped, AnsweredLast, AnswerOf, Good
<1>. QED
  BY <1>1, <1>2, <1>3, <1>4, SetHealthInv, WriteInv, ReadInv, AnswerInv DEF OutageNext

(* Radar and gauges alone weigh enough. *)
LEMMA EnoughWeight ==
    ASSUME NEW valid \in SUBSET AllSources, {RADAR, GAUGES} \subseteq valid
    PROVE  TotalWeight(valid) >= 65
<1>. DEFINE others == valid \ {RADAR, GAUGES, MOSDAC, IMERG}
<1>1. Cardinality(others) \in Nat
  BY SourcesFinite, FS_Subset, FS_CardinalityType
<1>. HIDE DEF others
<1>. QED
  BY <1>1 DEF TotalWeight, others

(* Every reachable state of the sources and their requests is well typed.   *)
THEOREM OutageTypeCorrect == OutageSpec => []OutageTypeOK
<1>. DEFINE Typed == OutageInv /\ outages \in 0 .. MaxOutages
<1>1. OutageInit => Typed
  BY OutageInvInit, OutagesAssumption DEF OutageInit
<1>2. Typed /\ [OutageNext]_outageVars => Typed'
  <2>. SUFFICES ASSUME Typed, [OutageNext]_outageVars PROVE outages' \in 0 .. MaxOutages
    BY OutageInvStep
  <2>1. CASE UNCHANGED outages
    BY <2>1
  <2>2. CASE outages < MaxOutages /\ outages' = outages + 1
    BY <2>2, OutagesAssumption
  <2>. QED
    BY <2>1, <2>2 DEF OutageNext, outageVars, SetHealth, AskAlerts, AskNowcast, Write, Read,
                      Answer, EndRequest
<1>3. Typed => OutageTypeOK
  BY DEF OutageInv, OutageTypeOK
<1>. HIDE DEF Typed
<1>. QED
  BY <1>1, <1>2, <1>3, PTL DEF OutageSpec

(* An answer of HIGH rests on what was good at some moment of the request,  *)
(* one of DATA_DEGRADED on what was not good all the time, however outages  *)
(* are written while it reads (get_alerts, get_rainfall_nowcast).           *)
THEOREM ConfidenceTold == OutageSpec => []ConfidenceTellsOutage
<1>1. OutageInv => ConfidenceTellsOutage
  <2>. SUFFICES ASSUME OutageInv PROVE ConfidenceTellsOutage
    OBVIOUS
  <2>. SUFFICES ASSUME NEW t \in Requests
                PROVE  LET r == request[t]
                           fit(s, reads) == {s} \X Attributes \subseteq reads
                       IN  /\ r.kind = "nowcast" /\ r.answer = "HIGH" =>
                                  fit(RADAR, r.ever) /\ fit(GAUGES, r.ever)
                           /\ r.kind = "nowcast" /\ r.answer # "NONE" /\ r.answer # "HIGH" =>
                                  ~fit(RADAR, r.always) \/ ~fit(GAUGES, r.always)
                           /\ r.kind = "alerts" /\ r.answer = "HIGH" =>
                                  AllSources \X {"status"} \subseteq r.ever
                           /\ r.kind = "alerts" /\ r.answer = "DATA_DEGRADED" =>
                                  \/ <<RADAR, "status">> \notin r.always
                                  \/ <<CWC, "status">> \notin r.always
                                  \/ Cardinality({s \in AllSources : <<s, "status">> \notin r.always}) >= 3
    BY DEF ConfidenceTellsOutage
  <2>. DEFINE r == request[t]
              out == {s \in AllSources : <<s, "status">> \notin r.seen}
              bad == {s \in AllSources : <<s, "status">> \notin r.always}
  <2>0. Sound(r) /\ r \in RequestStates
    BY DEF OutageInv
  <2>. HIDE DEF r
  <2>1. ASSUME r.kind \in {"alerts", "nowcast"}, r.answer # "NONE"
        PROVE  /\ r.answer = AnswerOf(r)
               /\ \A x \in r.seen : Looked(x) \in r.ever
               /\ \A x \in Planned(r.kind) : x \in r.seen \/ Looked(x) \notin r.always
    <3>1. r.todo = <<>> /\ r.answer = AnswerOf(r)
      BY <2>0, <2>1 DEF Sound, AnsweredLast
    <3>2. \A x : ~Listed(x, r.todo)
      BY <3>1 DEF Listed
    <3>. QED
      BY <2>0, <2>1, <3>1, <3>2 DEF Sound, HistoryTrue, NoneSkipped
  <2>2. /\ RADAR \in AllSources /\ GAUGES \in AllSources /\ CWC \in AllSources
        /\ \A s, l : l \in Attributes => Looked(<<s, l>>) = <<s, l>>
        /\ \A s : Looked(<<s, "again">>) = <<s, "status">>
    BY OutageAssumption DEF AllSources, Looked, Attributes
  <2>3. ASSUME r.kind = "nowcast", r.answer = "HIGH"
        PROVE  {RADAR, GAUGES} \X Attributes \subseteq r.ever
    <3>1. {RADAR, GAUGES} \subseteq Valid(r.seen)
      BY <2>1, <2>3 DEF AnswerOf, FusedConfidence
    <3>2. {RADAR, GAUGES} \X Attributes \subseteq r.seen
      BY <3>1 DEF Valid, Attributes
    <3>. QED
      BY <2>1, <2>2, <2>3, <3>2
  <2>4. ASSUME r.kind = "nowcast", r.answer # "NONE", r.answer # "HIGH",
               {RADAR, GAUGES} \X Attributes \subseteq r.always
        PROVE  FALSE
    <3>1. {RADAR, GAUGES} \X Attributes \subseteq r.seen
      BY <2>1, <2>2, <2>4 DEF Planned
    <3>2. {RADAR, GAUGES} \subseteq Valid(r.seen)
      BY <2>2, <3>1 DEF Valid, Attributes
    <3>3. TotalWeight(Valid(r.seen)) >= 65
      BY <3>2, EnoughWeight DEF Valid
    <3>. QED
      BY <2>1, <2>4, <3>2, <3>3 DEF AnswerOf, FusedConfidence
  <2>5. ASSUME r.kind = "alerts", r.answer = "HIGH"
        PROVE  AllSources \X {"status"} \subseteq r.ever
    <3>1. out = {}
      BY <2>1, <2>5 DEF AnswerOf, AlertConfidence
    <3>2. AllSources \X {"status"} \subseteq r.seen
      BY <3>1
    <3>. QED
      BY <2>1, <2>2, <2>5, <3>2 DEF Attributes
  <2>6. ASSUME r.kind = "alerts", r.answer = "DATA_DEGRADED"
        PROVE  \/ <<RADAR, "status">> \notin r.always
               \/ <<CWC, "status">> \notin r.always
               \/ Cardinality(bad) >= 3
    <3>1. \/ {<<RADAR, "again">>, <<CWC, "again">>} \ r.seen # {}
          \/ Cardinality(out) >= 3
      BY <2>1, <2>6 DEF AnswerOf, AlertConfidence
    <3>2. CASE {<<RADAR, "again">>, <<CWC, "again">>} \ r.seen # {}
      BY <2>1, <2>2, <2>6, <3>2 DEF Planned
    <3>3. CASE Cardinality(out) >= 3
      <4>1. out \subseteq bad
        BY <2>1, <2>2, <2>6 DEF Planned, Attributes
      <4>2. IsFiniteSet(bad) /\ IsFiniteSet(out)
        BY SourcesFinite, FS_Subset
      <4>3. Cardinality(out) <= Cardinality(bad) /\ Cardinality(out) \in Nat
            /\ Cardinality(bad) \in Nat
        BY <4>1, <4>2, FS_Subset, FS_CardinalityType
      <4>. QED
        BY <3>3, <4>3
    <3>. QED
      BY <3>1, <3>2, <3>3
  <2>7. \A s, reads : {s} \X Attributes \subseteq reads <=>
            \A l \in Attributes : <<s, l>> \in reads
    OBVIOUS
  <2>8. /\ r.kind = "nowcast" /\ r.answer = "HIGH" =>
               ({RADAR} \X Attributes \subseteq r.ever) /\ ({GAUGES} \X Attributes \subseteq r.ever)
        /\ r.kind = "nowcast" /\ r.answer # "NONE" /\ r.answer # "HIGH" =>
               \/ ~({RADAR} \X Attributes \subseteq r.always)
               \/ ~({GAUGES} \X Attributes \subseteq r.always)
    BY <2>3, <2>4
  <2>. QED
    BY <2>5, <2>6, <2>8 DEF r
<1>2. OutageSpec => []OutageInv
  BY OutageInvInit, OutageInvStep, PTL DEF OutageSpec
<1>. QED
  BY <1>1, <1>2, PTL
-----------------------------------------------------------------------------
(*                         The notification policy                         *)

Order(p) == SEVERITY_ORDER[p]
Above(s, f) == lastSent[s] # None /\ Order(lastSent[s]) >= Order(f[2])

(* What was sent in the present window stays in its cooldown to the end of  *)
(* it: these are the lower warnings of a locality that do.                  *)
Open(f) == {g \in LowerFingerprints(f) : cooldown[g] >= window}

(* One who was told of f in the present window lives there, and f is in its *)
(* cooldown to the end of the window.                                       *)
ToldNow ==
    \A s \in Subs, f \in Fingerprints :
        told[<<s, f>>] > 0 => f[3] = Locality[s] /\ cooldown[f] >= window

(* He was told of it once for every lower warning in its cooldown, and once *)
(* more unless he has come down to a lower one since.                       *)
ToldInTurn ==
    \A s \in Subs, f \in Fingerprints :
        told[<<s, f>>] <= (IF Above(s, f) THEN 1 ELSE 0) + Cardinality(Open(f))

PolicyInv ==
    /\ TypeOK
    /\ ToldNow /\ ToldInTurn
-----------------------------------------------------------------------------
LEMMA Orders ==
    /\ Policy = {"INFO", "WATCH", "WARNING", "CRITICAL", "RESOLVED"}
    /\ \A p \in Policy : Order(p) \in 0 .. 4
    /\ Order("WATCH") = 1
  BY DEF Policy, SEVERITY_ORDER, Order

LEMMA PolicyKnown == ASSUME NEW e \in AlertEvents PROVE PolicyOf(e) \in Policy
<1>1. e.severity \in AlertSeverity
  BY EventsAssumption
<1>. QED
  BY <1>1, Orders DEF PolicyOf, AlertSeverity, SEVERITY_MAPPING

LEMMA FingerprintKnown ==
    ASSUME NEW e \in AlertEvents, NEW p \in Policy, NEW s \in Subs
    PROVE  /\ Fingerprint(e, p, s) \in Fingerprints
           /\ Fingerprint(e, p, s)[2] = p
           /\ Fingerprint(e, p, s)[3] = Locality[s]
  BY DEF Fingerprint, Fingerprints

LEMMA FingerprintFields ==
    ASSUME NEW f \in Fingerprints
    PROVE  f[2] \in Policy
  BY DEF Fingerprints

(* There are finitely many fingerprints: images of the events, the policies *)
(* and the subscriptions.                                                   *)
LEMMA FingerprintsFinite == IsFiniteSet(Fingerprints)
<1>. DEFINE A == {e.alert : e \in AlertEvents}
            L == {Locality[s] : s \in Subs}
            a == [e \in AlertEvents |-> e.alert]
            l == [s \in Subs |-> Locality[s]]
            t == [x \in (A \X Policy) \X L |-> <<x[1][1], x[1][2], x[2]>>]
<1>1. a \in Surjection(AlertEvents, A)
  BY DEF Surjection
<1>2. l \in Surjection(Subs, L)
  BY DEF Surjection
<1>3. IsFiniteSet(Subs)
  BY FS_Interval, SubsAssumption DEF Subs
<1>4. IsFiniteSet(A)
  BY <1>1, FS_Surjection, AlertsAssumption
<1>5. IsFiniteSet(L)
  BY <1>2, <1>3, FS_Surjection
<1>6. IsFiniteSet(Policy)
  <2>1. IsFiniteSet({}) 
    BY FS_EmptySet
  <2>2. IsFiniteSet({} \cup {"INFO"})
    BY <2>1, FS_AddElement
  <2>3. IsFiniteSet({} \cup {"INFO"} \cup {"WATCH"})
    BY <2>2, FS_AddElement
  <2>4. IsFiniteSet({} \cup {"INFO"} \cup {"WATCH"} \cup {"WARNING"})
    BY <2>3, FS_AddElement
  <2>5. IsFiniteSet({} \cup {"INFO"} \cup {"WATCH"} \cup {"WARNING"} \cup {"CRITICAL"})
    BY <2>4, FS_AddElement
  <2>6. IsFiniteSet({} \cup {"INFO"} \cup {"WATCH"} \cup {"WARNING"} \cup {"CRITICAL"}
                    \cup {"RESOLVED"})
    BY <2>5, FS_AddElement
  <2>7. Policy = {} \cup {"INFO"} \cup {"WATCH"} \cup {"WARNING"} \cup {"CRITICAL"}
                    \cup {"RESOLVED"}
    BY Orders
  <2>. QED
    BY <2>6, <2>7
<1>7. Fingerprints = A \X Policy \X L
  BY DEF Fingerprints
<1>. HIDE DEF A, L, a, l
<1>8. IsFiniteSet((A \X Policy) \X L)
  BY <1>4, <1>5, <1>6, FS_Product
<1>9. t \in Surjection((A \X Policy) \X L, A \X Policy \X L)
  <2>1. t \in [(A \X Policy) \X L -> A \X Policy \X L]
    OBVIOUS
  <2>2. ASSUME NEW f \in A \X Policy \X L
        PROVE  \E x \in (A \X Policy) \X L : t[x] = f
    <3>1. /\ f[1] \in A /\ f[2] \in Policy /\ f[3] \in L
          /\ f = <<f[1], f[2], f[3]>>
      OBVIOUS
    <3>2. <<<<f[1], f[2]>>, f[3]>> \in (A \X Policy) \X L
      BY <3>1
    <3>3. t[<<<<f[1], f[2]>>, f[3]>>] = <<f[1], f[2], f[3]>>
      BY <3>2
    <3>. QED
      BY <3>1, <3>2, <3>3
  <2>. QED
    BY <2>1, <2>2 DEF Surjection
<1>. HIDE DEF t
<1>. QED
  BY <1>7, <1>8, <1>9, FS_Surjection

LEMMA OpenFinite ==
    ASSUME NEW f \in Fingerprints
    PROVE  /\ IsFiniteSet(LowerFingerprints(f)) /\ IsFiniteSet(Open(f))
           /\ Open(f) \subseteq LowerFingerprints(f)
           /\ Cardinality(Open(f)) \in Nat
           /\ Cardinality(LowerFingerprints(f)) \in Nat
           /\ Cardinality(Open(f)) <= Cardinality(LowerFingerprints(f))
<1>1. LowerFingerprints(f) \subseteq Fingerprints /\ Open(f) \subseteq LowerFingerprints(f)
  BY DEF LowerFingerprints, Open
<1>2. IsFiniteSet(LowerFingerprints(f))
  BY <1>1, FingerprintsFinite, FS_Subset
<1>. QED
  BY <1>1, <1>2, FS_Subset, FS_CardinalityType

LEMMA PolicyInvInit == Init => PolicyInv
<1>. SUFFICES ASSUME Init PROVE PolicyInv
  OBVIOUS
<1>1. TypeOK
  BY Orders, CooldownAssumption DEF Init, TypeOK
<1>3. ToldNow
  BY DEF Init, ToldNow
<1>4. ToldInTurn
  <2>. SUFFICES ASSUME NEW s \in Subs, NEW f \in Fingerprints
                PROVE  told[<<s, f>>] <= (IF Above(s, f) THEN 1 ELSE 0) + Cardinality(Open(f))
    BY DEF ToldInTurn
  <2>1. told[<<s, f>>] = 0
    BY DEF Init
  <2>. QED
    BY <2>1, OpenFinite
<1>. QED
  BY <1>1, <1>3, <1>4 DEF PolicyInv

LEMMA TickInv == ASSUME PolicyInv, Tick PROVE PolicyInv'
<1>1. /\ window \in 1 .. CooldownTicks
      /\ \A f \in Fingerprints : cooldown[f] \in 0 .. CooldownTicks
      /\ CooldownTicks \in Nat \ {0} /\ MaxEvents \in Nat
  BY CooldownAssumption DEF PolicyInv, TypeOK
<1>2. \A f \in Fingerprints : cooldown'[f] = (IF cooldown[f] > 0 THEN cooldown[f] - 1 ELSE 0)
  BY DEF Tick
<1>3. TypeOK'
  <2>1. /\ cooldown' \in [Fingerprints -> 0 .. CooldownTicks]
        /\ window' \in 1 .. CooldownTicks
        /\ events' \in 0 .. MaxEvents
    BY <1>1 DEF Tick
  <2>2. told' \in [Subs \X Fingerprints -> Nat]
    BY DEF PolicyInv, TypeOK, Tick
  <2>. QED
    BY <2>1, <2>2 DEF PolicyInv, TypeOK, Tick
<1>4. CASE window > 1
  <2>1. window' = window - 1 /\ told' = told /\ lastSent' = lastSent
    BY <1>1, <1>4 DEF Tick
  <2>2. \A f \in Fingerprints : cooldown[f] >= window => cooldown'[f] >= window'
    BY <1>1, <1>2, <1>4, <2>1
  <2>3. ToldNow'
    BY <2>1, <2>2 DEF PolicyInv, ToldNow
  <2>4. ToldInTurn'
    <3>. SUFFICES ASSUME NEW s \in Subs, NEW f \in Fingerprints
                  PROVE  told'[<<s, f>>] <= (IF Above(s, f)' THEN 1 ELSE 0) + Cardinality(Open(f)')
      BY DEF ToldInTurn
    <3>1. told[<<s, f>>] <= (IF Above(s, f) THEN 1 ELSE 0) + Cardinality(Open(f))
      BY DEF PolicyInv, ToldInTurn
    <3>2. told[<<s, f>>] \in Nat
      BY DEF PolicyInv, TypeOK
    <3>3. Above(s, f)' <=> Above(s, f)
      BY <2>1 DEF Above
    <3>4. Open(f) \subseteq Open(f)' /\ Open(f)' \subseteq LowerFingerprints(f)
      BY <2>2 DEF Open, LowerFingerprints
    <3>5. /\ Cardinality(Open(f)) \in Nat /\ Cardinality(Open(f)') \in Nat
          /\ Cardinality(Open(f)) <= Cardinality(Open(f)')
      BY <3>4, OpenFinite, FS_Subset, FS_CardinalityType
    <3>. QED
      BY <2>1, <3>1, <3>2, <3>3, <3>5
  <2>. QED
    BY <1>3, <2>3, <2>4 DEF PolicyInv
<1>5. CASE window = 1
  <2>1. \A sf \in Subs \X Fingerprints : told'[sf] = 0
    BY <1>5 DEF PolicyInv, TypeOK, Tick
  <2>2. ToldNow'
    BY <2>1 DEF ToldNow
  <2>3. ToldInTurn'
    <3>. SUFFICES ASSUME NEW s \in Subs, NEW f \in Fingerprints
                  PROVE  told'[<<s, f>>] <= (IF Above(s, f)' THEN 1 ELSE 0) + Cardinality(Open(f)')
      BY DEF ToldInTurn
    <3>1. told'[<<s, f>>] = 0
      BY <2>1
    <3>2. Open(f)' \subseteq LowerFingerprints(f)
      BY DEF Open, LowerFingerprints
    <3>3. Cardinality(Open(f)') \in Nat
      BY <3>2, OpenFinite, FS_Subset, FS_CardinalityType
    <3>. QED
      BY <3>1, <3>3
  <2>. QED
    BY <1>3, <2>2, <2>3 DEF PolicyInv
<1>. QED
  BY <1>1, <1>4, <1>5

(* What a fan-out does, in terms of who is told of what. *)
LEMMA FanOutTyped ==
    ASSUME PolicyInv, NEW e \in AlertEvents, NEW area \in Areas, NEW p \in Policy,
           p = PolicyOf(e), FanOut(e, area)
    PROVE  /\ area \subseteq Subs
           /\ cooldown' \in [Fingerprints -> 0 .. CooldownTicks]
           /\ lastSent' \in [Subs -> Policy \cup {None}]
           /\ DOMAIN told' = Subs \X Fingerprints /\ told' = [x \in DOMAIN told' |-> told'[x]]
           /\ last'.policy = p /\ last'.area = area /\ last'.messages \subseteq Subs \X Channels
<1>. DEFINE to == Recipients(e, area)
<1>1. area \subseteq Subs /\ to \subseteq area
  BY SubsAssumption DEF Recipients
<1>2. cooldown' = [f \in Fingerprints |->
          IF f \in {Fingerprint(e, p, s) : s \in to} THEN CooldownTicks ELSE cooldown[f]]
  BY DEF FanOut
<1>3. lastSent' = [s \in Subs |-> IF s \in to THEN p ELSE lastSent[s]]
  BY DEF FanOut
<1>4. told' = [sf \in DOMAIN told |->
                  IF sf[1] \in to /\ sf[2] = Fingerprint(e, p, sf[1])
                  THEN told[sf] + 1 ELSE told[sf]]
  BY DEF FanOut
<1>5. /\ last'.policy = p /\ last'.area = area
      /\ last'.messages = {sc \in to \X Channels : sc[2] \in EligibleChannels(sc[1], p)}
  BY DEF FanOut
<1>. HIDE DEF to
<1>6. cooldown' \in [Fingerprints -> 0 .. CooldownTicks]
  BY <1>2, CooldownAssumption DEF PolicyInv, TypeOK
<1>7. lastSent' \in [Subs -> Policy \cup {None}]
  BY <1>3 DEF PolicyInv, TypeOK
<1>8. DOMAIN told = Subs \X Fingerprints
  BY DEF PolicyInv, TypeOK
<1>9. DOMAIN told' = Subs \X Fingerprints /\ told' = [x \in DOMAIN told' |-> told'[x]]
  BY <1>4, <1>8
<1>10. last'.messages \subseteq Subs \X Channels
  BY <1>1, <1>5
<1>. QED
  BY <1>1, <1>5, <1>6, <1>7, <1>9, <1>10

LEMMA FannedOut ==
    ASSUME PolicyInv, NEW e \in AlertEvents, NEW area \in Areas, NEW p \in Policy,
           p = PolicyOf(e), FanOut(e, area)
    PROVE  LET to == Recipients(e, area) IN
           /\ to \subseteq Subs
           /\ \A f \in Fingerprints :
                  cooldown'[f] = (IF f \in {Fingerprint(e, p, s) : s \in to}
                                  THEN CooldownTicks ELSE cooldown[f])
           /\ \A s \in Subs : lastSent'[s] = (IF s \in to THEN p ELSE lastSent[s])
           /\ \A s \in Subs, f \in Fingerprints :
                  told'[<<s, f>>] = (IF s \in to /\ f = Fingerprint(e, p, s)
                                     THEN told[<<s, f>>] + 1 ELSE told[<<s, f>>])
           /\ \A s \in to : Order(p) >= 1 /\ (Escalates(s, p) \/ cooldown[Fingerprint(e, p, s)] = 0)
           /\ \A s \in area \ to : Order(p) = 0 \/ ~Escalates(s, p)
<1>. DEFINE to == Recipients(e, area)
<1>1. area \subseteq Subs /\ to \subseteq area
  BY SubsAssumption DEF Recipients
<1>2. cooldown' = [f \in Fingerprints |->
          IF f \in {Fingerprint(e, p, s) : s \in to} THEN CooldownTicks ELSE cooldown[f]]
  BY DEF FanOut
<1>3. lastSent' = [s \in Subs |-> IF s \in to THEN p ELSE lastSent[s]]
  BY DEF FanOut
<1>4. told' = [sf \in DOMAIN told |->
                  IF sf[1] \in to /\ sf[2] = Fingerprint(e, p, sf[1])
                  THEN told[sf] + 1 ELSE told[sf]]
  BY DEF FanOut
<1>6. \A s \in to : EligibleChannels(s, p) # {} /\ Allowed(e, p, s, area)
  BY DEF Recipients
<1>7. \A s \in area \ to : EligibleChannels(s, p) = {} \/ ~Allowed(e, p, s, area)
  BY DEF Recipients
<1>8. \A s : Order(p) < 1 => EligibleChannels(s, p) = {}
  BY Orders DEF EligibleChannels, Order
<1>9. \A s : Order(p) >= 1 => EligibleChannels(s, p) # {}
  BY Orders DEF EligibleChannels, Order
<1>10. Order(p) \in 0 .. 4
  BY Orders
<1>11. \A s \in to : Order(p) >= 1 /\ (Escalates(s, p) \/ cooldown[Fingerprint(e, p, s)] = 0)
  BY <1>6, <1>8, <1>10 DEF Allowed
<1>12. \A s \in area \ to : Order(p) = 0 \/ ~Escalates(s, p)
  BY <1>7, <1>9, <1>10 DEF Allowed
<1>. HIDE DEF to
<1>15. DOMAIN told = Subs \X Fingerprints
  BY DEF PolicyInv, TypeOK
<1>16. \A s \in Subs, f \in Fingerprints :
           told'[<<s, f>>] = (IF s \in to /\ f = Fingerprint(e, p, s)
                              THEN told[<<s, f>>] + 1 ELSE told[<<s, f>>])
  BY <1>4, <1>15
<1>19. \A f \in Fingerprints :
           cooldown'[f] = (IF f \in {Fingerprint(e, p, s) : s \in to}
                           THEN CooldownTicks ELSE cooldown[f])
  BY <1>2
<1>20. \A s \in Subs : lastSent'[s] = (IF s \in to THEN p ELSE lastSent[s])
  BY <1>3
<1>. QED
  BY <1>1, <1>11, <1>12, <1>16, <1>19, <1>20 DEF to

LEMMA ToldStep ==
    ASSUME PolicyInv, NEW e \in AlertEvents, NEW area \in Areas, ~Gated(e),
           FanOut(e, area), UNCHANGED window, NEW s \in Subs, NEW f \in Fingerprints
    PROVE  /\ told'[<<s, f>>] \in Nat
           /\ told'[<<s, f>>] > 0 => f[3] = Locality[s] /\ cooldown'[f] >= window'
           /\ told'[<<s, f>>] <= (IF Above(s, f)' THEN 1 ELSE 0) + Cardinality(Open(f)')
<1>. DEFINE to == Recipients(e, area)
            n == told[<<s, f>>]
            was == Cardinality(Open(f))
            is == Cardinality(Open(f)')
<1>1. PICK p \in Policy : p = PolicyOf(e)
  BY PolicyKnown
<1>. DEFINE g == Fingerprint(e, p, s)
<1>2. /\ to \subseteq Subs
      /\ \A h \in Fingerprints :
             cooldown'[h] = (IF h \in {Fingerprint(e, p, r) : r \in to}
                             THEN CooldownTicks ELSE cooldown[h])
      /\ lastSent'[s] = (IF s \in to THEN p ELSE lastSent[s])
      /\ told'[<<s, f>>] = (IF s \in to /\ f = g THEN n + 1 ELSE n)
      /\ s \in to => Order(p) >= 1 /\ (Escalates(s, p) \/ cooldown[g] = 0)
  BY <1>1, FannedOut
<1>3. /\ n \in Nat
      /\ n > 0 => f[3] = Locality[s] /\ cooldown[f] >= window
      /\ n <= (IF Above(s, f) THEN 1 ELSE 0) + was
      /\ \A h \in Fingerprints : cooldown[h] \in 0 .. CooldownTicks
      /\ lastSent[s] \in Policy \cup {None}
      /\ CooldownTicks \in Nat \ {0}
      /\ window \in 1 .. CooldownTicks /\ window' = window
  BY CooldownAssumption DEF PolicyInv, TypeOK, ToldNow, ToldInTurn
<1>4. /\ g \in Fingerprints /\ g[2] = p /\ g[3] = Locality[s]
  BY FingerprintKnown
<1>. HIDE DEF g, to
<1>5. \A h \in Fingerprints : cooldown[h] >= window => cooldown'[h] >= window'
  BY <1>2, <1>3
<1>6. s \in to => cooldown'[g] >= window'
  BY <1>2, <1>3, <1>4 DEF g
<1>7. Open(f) \subseteq Open(f)' /\ Open(f)' \subseteq LowerFingerprints(f)
  BY <1>5 DEF Open, LowerFingerprints
<1>8. /\ IsFiniteSet(Open(f)) /\ IsFiniteSet(Open(f)') /\ was \in Nat /\ is \in Nat /\ was <= is
  BY <1>7, OpenFinite, FS_Subset, FS_CardinalityType
<1>9. Order(p) \in 0 .. 4 /\ Order(f[2]) \in 0 .. 4
      /\ (lastSent[s] # None => Order(lastSent[s]) \in 0 .. 4)
  BY <1>3, Orders, FingerprintFields
<1>10. s \in to => (Above(s, f)' <=> Order(p) >= Order(f[2]))
  <2>1. None \notin Policy
    BY Orders DEF None
  <2>. QED
    BY <1>2, <2>1 DEF Above
<1>11. Escalates(s, p) <=> lastSent[s] # None /\ Order(p) > Order(lastSent[s])
  BY DEF Escalates, Order
<1>12. CASE s \notin to
  <2>1. told'[<<s, f>>] = n /\ (Above(s, f)' <=> Above(s, f))
    BY <1>2, <1>12 DEF Above
  <2>. HIDE DEF n, was, is
  <2>. QED
    BY <1>3, <1>5, <1>8, <2>1 DEF n, is
<1>13. CASE s \in to /\ f # g
  <2>1. told'[<<s, f>>] = n
    BY <1>2, <1>13
  <2>2. n <= (IF Above(s, f)' THEN 1 ELSE 0) + is
    <3>1. CASE Order(p) >= Order(f[2])
      <4>1. Above(s, f)'
        BY <1>10, <1>13, <3>1
      <4>. HIDE DEF n, was, is
      <4>. QED
        BY <1>3, <1>8, <4>1
    <3>2. CASE ~(Order(p) >= Order(f[2]))
      <4>1. ~Above(s, f)'
        BY <1>10, <1>13, <3>2
      <4>2. CASE ~Above(s, f) \/ n = 0
        <5>1. n <= is
          <6>. HIDE DEF n, was, is
          <6>. QED
            BY <1>3, <1>8, <4>2
        <5>. QED
          BY <1>8, <4>1, <5>1
      <4>3. CASE Above(s, f) /\ n > 0
        <5>1. ~Escalates(s, p)
          BY <1>9, <1>11, <3>2, <4>3 DEF Above
        <5>2. ~(cooldown[g] >= window) /\ cooldown'[g] >= window' /\ Order(p) >= 1
          BY <1>2, <1>3, <1>4, <1>6, <1>13, <5>1
        <5>3. g[3] = f[3]
          BY <1>3, <1>4, <4>3
        <5>4. g \in LowerFingerprints(f)
          <6>1. Order(p) \in 1 .. Order(f[2]) - 1
            BY <1>9, <3>2, <5>2
          <6>. QED
            BY <1>4, <5>3, <6>1 DEF LowerFingerprints, Order
        <5>5. g \notin Open(f) /\ g \in Open(f)'
          <6>1. g \notin Open(f)
            BY <5>2 DEF Open
          <6>2. g \in {h \in LowerFingerprints(f) : cooldown'[h] >= window'}
            BY <5>2, <5>4
          <6>3. Open(f)' = {h \in LowerFingerprints(f) : cooldown'[h] >= window'}
            BY DEF Open, LowerFingerprints
          <6>. QED
            BY <6>1, <6>2, <6>3
        <5>6. Open(f) \cup {g} \subseteq Open(f)'
          BY <1>7, <5>5
        <5>7. Cardinality(Open(f) \cup {g}) = was + 1 /\ IsFiniteSet(Open(f) \cup {g})
          BY <1>8, <5>5, FS_AddElement
        <5>8. was + 1 <= is
          BY <1>8, <5>6, <5>7, FS_Subset
        <5>9. n <= is
          <6>. HIDE DEF n, was, is
          <6>. QED
            BY <1>3, <1>8, <5>8, <4>3
        <5>. QED
          BY <1>8, <4>1, <5>9
      <4>. QED
        BY <1>3, <4>2, <4>3
    <3>. QED
      BY <3>1, <3>2
  <2>. QED
    BY <1>3, <1>5, <2>1, <2>2
<1>14. CASE s \in to /\ f = g
  <2>1. told'[<<s, f>>] = n + 1
    BY <1>2, <1>14
  <2>2. Above(s, f)'
    BY <1>4, <1>9, <1>10, <1>14
  <2>3. n + 1 <= 1 + is
    <3>1. CASE n = 0
      BY <1>8, <3>1
    <3>2. CASE n > 0
      <4>1. cooldown[f] > 0
        BY <1>3, <3>2
      <4>2. Escalates(s, p)
        BY <1>2, <1>3, <1>14, <4>1
      <4>3. ~Above(s, f)
        BY <1>4, <1>9, <1>11, <1>14, <4>2 DEF Above
      <4>. HIDE DEF n, was, is
      <4>. QED
        BY <1>3, <1>8, <4>3
    <3>. QED
      BY <1>3, <3>1, <3>2
  <2>4. f[3] = Locality[s] /\ cooldown'[f] >= window'
    BY <1>4, <1>6, <1>14
  <2>. HIDE DEF n, is
  <2>. QED
    BY <1>3, <2>1, <2>2, <2>3, <2>4 DEF n, is
<1>. QED
  BY <1>12, <1>13, <1>14

LEMMA FanOutInv ==
    ASSUME PolicyInv, NEW e \in AlertEvents, NEW area \in Areas, ~Gated(e),
           FanOut(e, area), UNCHANGED window,
           events < MaxEvents, events' = events + 1
    PROVE  PolicyInv'
<1>1. PICK p \in Policy : p = PolicyOf(e)
  BY PolicyKnown
<1>2. /\ cooldown' \in [Fingerprints -> 0 .. CooldownTicks]
      /\ lastSent' \in [Subs -> Policy \cup {None}]
      /\ DOMAIN told' = Subs \X Fingerprints /\ told' = [x \in DOMAIN told' |-> told'[x]]
      /\ last'.policy = p /\ last'.area \subseteq Subs
      /\ last'.messages \subseteq Subs \X Channels
  BY <1>1, FanOutTyped
<1>3. events \in 0 .. MaxEvents /\ events' \in 0 .. MaxEvents /\ MaxEvents \in Nat
  BY CooldownAssumption DEF PolicyInv, TypeOK
<1>4. told' \in [Subs \X Fingerprints -> Nat]
  <2>1. \A sf \in Subs \X Fingerprints : told'[sf] \in Nat
    BY ToldStep
  <2>. QED
    BY <1>2, <2>1
<1>7. TypeOK'
  BY <1>2, <1>3, <1>4 DEF PolicyInv, TypeOK
<1>8. ToldNow'
  BY ToldStep DEF ToldNow
<1>9. ToldInTurn'
  BY ToldStep DEF ToldInTurn
<1>. QED
  BY <1>7, <1>8, <1>9 DEF PolicyInv

LEMMA PolicyInvStep == PolicyInv /\ [Next]_vars => PolicyInv'
<1>. SUFFICES ASSUME PolicyInv, [Next]_vars PROVE PolicyInv'
  OBVIOUS
<1>1. ASSUME NEW e \in AlertEvents, NEW area \in Areas, HandleAlertEvent(e, area)
      PROVE  PolicyInv'
  <2>1. CASE Gated(e) /\ UNCHANGED <<cooldown, lastSent, last, told>>
    <3>1. events \in 0 .. MaxEvents /\ events' = events + 1 /\ events < MaxEvents
          /\ events' \in 0 .. MaxEvents /\ MaxEvents \in Nat
      BY <1>1, CooldownAssumption DEF HandleAlertEvent, PolicyInv, TypeOK
    <3>2. TypeOK'
      BY <1>1, <2>1, <3>1 DEF HandleAlertEvent, PolicyInv, TypeOK
    <3>4. ToldNow' /\ ToldInTurn'
      BY <1>1, <2>1 DEF HandleAlertEvent, PolicyInv, ToldNow, ToldInTurn, Above, Open, LowerFingerprints
    <3>. QED
      BY <3>2, <3>4 DEF PolicyInv
  <2>2. CASE ~Gated(e) /\ FanOut(e, area)
    BY <1>1, <2>2, FanOutInv DEF HandleAlertEvent
  <2>. QED
    BY <1>1, <2>1, <2>2 DEF HandleAlertEvent
<1>2. CASE UNCHANGED vars
  BY <1>2 DEF vars, PolicyInv, TypeOK, ToldNow, ToldInTurn, Above, Open, LowerFingerprints
<1>. QED
  BY <1>1, <1>2, TickInv DEF Next

LEMMA PolicyInvHolds == Spec => []PolicyInv
  BY PolicyInvInit, PolicyInvStep, PTL DEF Spec

(* Every reachable state of the policy engine's registries is well typed.   *)
THEOREM PolicyTypeCorrect == Spec => []TypeOK
<1>1. PolicyInv => TypeOK
  BY DEF PolicyInv
<1>. QED
  BY <1>1, PolicyInvHolds, PTL

(* In any time as long as a cooldown no citizen is sent one warning more    *)
(* often than once, and once more for every lower warning of his locality   *)
(* (check_anti_spam).                                                       *)
THEOREM StormsBounded == Spec => []StormBounded
<1>1. PolicyInv => StormBounded
  <2>. SUFFICES ASSUME PolicyInv, NEW s \in Subs, NEW f \in Fingerprints
                PROVE  told[<<s, f>>] <= 1 + Cardinality(LowerFingerprints(f))
    BY DEF StormBounded
  <2>1. told[<<s, f>>] <= (IF Above(s, f) THEN 1 ELSE 0) + Cardinality(Open(f))
    BY DEF PolicyInv, ToldInTurn
  <2>2. told[<<s, f>>] \in Nat
    BY CooldownAssumption DEF PolicyInv, TypeOK
  <2>. QED
    BY <2>1, <2>2, OpenFinite
<1>. QED
  BY <1>1, PolicyInvHolds, PTL

(* Whoever the shared registry of fingerprints suppresses an alert for was  *)
(* told of a danger at least as high, or has been told of none.             *)
THEOREM SuppressedTold == Spec => []SuppressedAlreadyTold
<1>1. Init => SuppressedAlreadyTold
  BY DEF Init, SuppressedAlreadyTold
<1>2. ASSUME PolicyInv, SuppressedAlreadyTold, [Next]_vars
      PROVE  SuppressedAlreadyTold'
  <2>1. CASE UNCHANGED <<last, lastSent>>
    BY <1>2, <2>1 DEF SuppressedAlreadyTold
  <2>2. ASSUME NEW e \in AlertEvents, NEW area \in Areas, ~Gated(e), FanOut(e, area)
        PROVE  SuppressedAlreadyTold'
    <3>1. PICK p \in Policy : p = PolicyOf(e)
      BY PolicyKnown
    <3>2. area \subseteq Subs /\ last'.policy = p /\ last'.area = area
      BY <1>2, <2>2, <3>1, FanOutTyped
    <3>2a. /\ \A s \in Subs :
                  lastSent'[s] = (IF s \in Recipients(e, area) THEN p ELSE lastSent[s])
           /\ \A s \in area \ Recipients(e, area) : Order(p) = 0 \/ ~Escalates(s, p)
      BY <1>2, <2>2, <3>1, FannedOut
    <3>. SUFFICES ASSUME NEW s \in area, lastSent'[s] # None
                  PROVE  Order(lastSent'[s]) >= Order(p)
      BY <3>2 DEF SuppressedAlreadyTold, Order
    <3>3. Order(p) \in 0 .. 4
      BY Orders
    <3>4. CASE s \in Recipients(e, area)
      BY <3>2, <3>2a, <3>3, <3>4
    <3>5. CASE s \notin Recipients(e, area)
      <4>1. lastSent'[s] = lastSent[s] /\ (Order(p) = 0 \/ ~Escalates(s, p))
        BY <3>2, <3>2a, <3>5
      <4>2. Order(lastSent[s]) \in 0 .. 4
        BY <1>2, <3>2, <4>1, Orders DEF PolicyInv, TypeOK
      <4>. QED
        BY <3>3, <4>1, <4>2 DEF Escalates, Order
    <3>. QED
      BY <3>4, <3>5
  <2>. QED
    BY <1>2, <2>1, <2>2 DEF Next, HandleAlertEvent, Tick, vars
<1>. QED
  BY <1>1, <1>2, PolicyInvHolds, PTL DEF Spec
-----------------------------------------------------------------------------
(*                             The digital twin                            *)

(* The places of a request that has written or read each part *)
RiskWritten == {"record"}
TimeWritten == {"index"} \cup RiskWritten
VersionWritten == {"time"} \cup TimeWritten
StorageWritten == {"risk", "counted"} \cup VersionWritten
StorageRead == {"routed"} \cup StorageWritten
TideWritten == {"channel"} \cup StorageRead
RainWritten == {"tide"} \cup TideWritten
SoilWritten == {"effective"} \cup RainWritten
SoilRead == {"infiltrated"} \cup SoilWritten
Working == {"soil"} \cup SoilRead

UpdateState == [at : Places, soil : Counting, storage : Counting, version : Nat]
TwinState ==
    [soil : Counting, effective : By, tide : By, storage : Counting,
     backwater : By, version : Nat, timestamp : By,
     risk : [soil : Counting, storage : Counting, tide : By]]

EndedAlone == Ended \cap alone
VersionSaved == {r \in Updates : update[r].at \in VersionWritten \cup {"ended"}}

(* A request that none has overlapped is the only one under way. *)
ByItself == \A r \in alone : update[r].at \in Working => UnderWay = {r}

(* Those that ended so are in the soil and the storage, and in whatever     *)
(* another has read of them and will write back.                            *)
LoneStay ==
    /\ EndedAlone \subseteq twin.soil /\ EndedAlone \subseteq twin.storage
    /\ \A r \in Updates :
           /\ update[r].at \in SoilRead => EndedAlone \subseteq update[r].soil
           /\ update[r].at \in StorageRead => EndedAlone \subseteq update[r].storage

(* A version counts them too, and no request twice. *)
Between(v) == v - 1 \in Cardinality(EndedAlone) .. Cardinality(VersionSaved)
VersionsBetween ==
    /\ Between(twin.version)
    /\ \A r \in Updates : update[r].at = "counted" => Between(update[r].version)

(* What such a request has written by its place is what the twin holds. *)
Holds(r, u, t) ==
    /\ u.at \in SoilRead => r \in u.soil
    /\ u.at \in SoilWritten => t.soil = u.soil
    /\ u.at \in RainWritten => t.effective = r
    /\ u.at \in TideWritten => t.tide = r
    /\ u.at \in StorageRead => r \in u.storage
    /\ u.at \in StorageWritten => t.storage = u.storage /\ t.backwater = r
    /\ u.at \in VersionWritten => t.version - 1 > Cardinality(EndedAlone)
    /\ u.at \in TimeWritten => t.timestamp = r
    /\ u.at \in RiskWritten => t.risk = RiskIndex(u.soil, u.storage, r)
HoldsByItself == \A r \in alone : Holds(r, update[r], twin)

Fits ==
    latest \in alone /\ UnderWay = {} =>
        /\ twin.risk = RiskIndex(twin.soil, twin.storage, twin.tide)
        /\ twin.backwater = twin.tide
        /\ {twin.effective, twin.tide, twin.timestamp} = {latest}

TwinInv ==
    TwinTypeOK /\ ByItself /\ LoneStay /\ VersionsBetween /\ HoldsByItself /\ Fits
-----------------------------------------------------------------------------
LEMMA PlacesNamed ==
    /\ Working = Places \ {"waiting", "ended"}
    /\ VersionWritten \subseteq StorageWritten /\ StorageWritten \subseteq StorageRead
    /\ StorageRead \subseteq SoilWritten /\ SoilWritten \subseteq SoilRead
    /\ SoilRead \subseteq Working
  BY DEF Places, Working, SoilRead, SoilWritten, RainWritten, TideWritten, StorageRead,
         StorageWritten, VersionWritten, TimeWritten, RiskWritten

LEMMA TwinTyped ==
    ASSUME TwinTypeOK
    PROVE  /\ update \in [Updates -> UpdateState] /\ twin \in TwinState
           /\ UnderWay = {r \in Updates : update[r].at \in Working}
           /\ alone \subseteq Updates /\ latest \in By
<1>1. update \in [Updates -> UpdateState] /\ twin \in TwinState
  BY DEF TwinTypeOK, UpdateState, TwinState
<1>2. \A r \in Updates : update[r].at \in Places
  BY <1>1 DEF UpdateState
<1>3. UnderWay = {r \in Updates : update[r].at \in Working}
  BY <1>2, PlacesNamed DEF UnderWay
<1>. QED
  BY <1>1, <1>3 DEF TwinTypeOK, Counting

LEMMA CountsTyped ==
    /\ IsFiniteSet(EndedAlone) /\ IsFiniteSet(VersionSaved)
    /\ Cardinality(EndedAlone) \in Nat /\ Cardinality(VersionSaved) \in Nat
    /\ Cardinality(Updates) \in Nat
    /\ Cardinality(VersionSaved) <= Cardinality(Updates)
<1>1. EndedAlone \subseteq Updates /\ VersionSaved \subseteq Updates
  BY DEF EndedAlone, Ended, VersionSaved
<1>. QED
  BY <1>1, TwinAssumption, FS_Subset, FS_CardinalityType

LEMMA TwinInvInit == TwinInit => TwinInv
<1>. SUFFICES ASSUME TwinInit PROVE TwinInv
  OBVIOUS
<1>1. \A r \in Updates : update[r] = NothingRead("waiting")
  BY DEF TwinInit
<1>2. \A r \in Updates : /\ update[r].at = "waiting" /\ update[r] \in UpdateState
  BY <1>1 DEF NothingRead, UpdateState, Places, Counting
<1>3. update \in [Updates -> UpdateState]
  BY <1>2 DEF TwinInit
<1>4. TwinTypeOK
  <2>1. twin \in TwinState
    BY DEF TwinInit, TwinState, RiskIndex, Counting, By
  <2>2. pastStates \in 0 .. MaxHistory /\ alone \in Counting /\ latest \in By
    BY TwinAssumption DEF TwinInit, Counting, By
  <2>. QED
    BY <1>3, <2>1, <2>2 DEF TwinTypeOK, UpdateState, TwinState
<1>5. \A r \in Updates : update[r].at \notin Working /\ update[r].at # "ended"
  BY <1>2, PlacesNamed
<1>6. EndedAlone = {} /\ VersionSaved = {}
  BY <1>5, PlacesNamed DEF EndedAlone, Ended, VersionSaved
<1>7. Cardinality({}) = 0
  BY FS_EmptySet
<1>8. twin.version = 1
  BY DEF TwinInit
<1>9. alone \subseteq Updates /\ latest \notin alone
  BY TwinAssumption DEF TwinInit
<1>10. ByItself
  BY <1>5, <1>9 DEF ByItself
<1>11. LoneStay
  BY <1>6 DEF LoneStay
<1>12. VersionsBetween
  <2>1. Between(twin.version)
    BY <1>6, <1>7, <1>8 DEF Between
  <2>. QED
    BY <1>2, <2>1 DEF VersionsBetween
<1>13. HoldsByItself
  <2>. SUFFICES ASSUME NEW r \in alone PROVE Holds(r, update[r], twin)
    BY DEF HoldsByItself
  <2>1. update[r].at \notin Working
    BY <1>5, <1>9
  <2>. QED
    BY <2>1 DEF Holds, Working, SoilRead, SoilWritten, RainWritten, TideWritten, StorageRead,
         StorageWritten, VersionWritten, TimeWritten, RiskWritten
<1>. QED
  BY <1>4, <1>9, <1>10, <1>11, <1>12, <1>13 DEF TwinInv, Fits

(* A step of a request from one place under way to another keeps the        *)
(* invariant if what it writes and reads does.                              *)
LEMMA MiddleStep ==
    ASSUME TwinInv, NEW r \in Updates, NEW u \in UpdateState, NEW t \in TwinState,
           update[r].at \in Working, u.at \in Working,
           update' = [update EXCEPT ![r] = u], twin' = t,
           UNCHANGED <<pastStates, alone, latest>>,
           EndedAlone \subseteq t.soil, EndedAlone \subseteq t.storage,
           u.at \in SoilRead => EndedAlone \subseteq u.soil,
           u.at \in StorageRead => EndedAlone \subseteq u.storage,
           r \in alone => Holds(r, u, t),
           \A n \in Nat : Cardinality(VersionSaved) <= n /\ (update[r].at = "counted" => Cardinality(VersionSaved) < n)
               => /\ t.version - 1 \in Cardinality(EndedAlone) .. n
                  /\ u.at = "counted" => u.version - 1 \in Cardinality(EndedAlone) .. n,
           update[r].at \in VersionWritten => u.at \in VersionWritten,
           update[r].at = "counted" => u.at \in VersionWritten
    PROVE  TwinInv'
<1>1. /\ update' \in [Updates -> UpdateState] /\ update'[r] = u
      /\ \A q \in Updates \ {r} : update'[q] = update[q]
  BY TwinTyped DEF TwinInv
<1>2. TwinTypeOK'
  BY <1>1 DEF TwinInv, TwinTypeOK, UpdateState, TwinState
<1>3. UnderWay' = UnderWay
  <2>0. \A q \in Updates : update'[q].at \in Places
    BY <1>1 DEF UpdateState
  <2>1. UnderWay' = {q \in Updates : update'[q].at \in Working}
    BY <2>0, PlacesNamed DEF UnderWay
  <2>2. UnderWay = {q \in Updates : update[q].at \in Working}
    BY TwinTyped DEF TwinInv
  <2>. QED
    BY <1>1, <2>1, <2>2
<1>4. r \in UnderWay
  BY TwinTyped DEF TwinInv
<1>5. EndedAlone' = EndedAlone
  <2>1. "ended" \notin Working
    BY PlacesNamed
  <2>. QED
    BY <1>1, <2>1 DEF EndedAlone, Ended
<1>6. ByItself'
  <2>. SUFFICES ASSUME NEW q \in alone, update'[q].at \in Working PROVE UnderWay = {q}
    BY <1>3 DEF ByItself
  <2>1. q \in Updates
    BY TwinTyped DEF TwinInv
  <2>2. update[q].at \in Working
    BY <1>1, <2>1
  <2>. QED
    BY <2>2 DEF TwinInv, ByItself
<1>7. LoneStay'
  <2>1. \A q \in Updates :
            /\ update'[q].at \in SoilRead => EndedAlone \subseteq update'[q].soil
            /\ update'[q].at \in StorageRead => EndedAlone \subseteq update'[q].storage
    BY <1>1 DEF TwinInv, LoneStay
  <2>. QED
    BY <1>5, <2>1 DEF LoneStay
<1>8. VersionSaved \subseteq VersionSaved' /\ (update[r].at = "counted" => r \in VersionSaved' /\ r \notin VersionSaved)
  <2>1. "counted" \notin VersionWritten \cup {"ended"} /\ "ended" \notin Working
    BY DEF VersionWritten, TimeWritten, RiskWritten, Working, SoilRead, SoilWritten,
           RainWritten, TideWritten, StorageRead, StorageWritten
  <2>. QED
    BY <1>1, <2>1 DEF VersionSaved
<1>9. /\ IsFiniteSet(VersionSaved') /\ Cardinality(VersionSaved') \in Nat
      /\ Cardinality(VersionSaved) <= Cardinality(VersionSaved')
      /\ update[r].at = "counted" => Cardinality(VersionSaved) < Cardinality(VersionSaved')
  <2>1. VersionSaved' \subseteq Updates
    BY DEF VersionSaved
  <2>2. IsFiniteSet(VersionSaved')
    BY <2>1, TwinAssumption, FS_Subset
  <2>. QED
    BY <1>8, <2>2, FS_Subset, FS_CardinalityType, CountsTyped
<1>10. VersionsBetween'
  <2>. DEFINE n == Cardinality(VersionSaved')
  <2>1. /\ t.version - 1 \in Cardinality(EndedAlone) .. n
        /\ u.at = "counted" => u.version - 1 \in Cardinality(EndedAlone) .. n
    BY <1>9
  <2>2. ASSUME NEW q \in Updates \ {r}, update'[q].at = "counted"
        PROVE  update'[q].version - 1 \in Cardinality(EndedAlone) .. n
    <3>1. update[q].version - 1 \in Cardinality(EndedAlone) .. Cardinality(VersionSaved)
      BY <1>1, <2>2 DEF TwinInv, VersionsBetween, Between
    <3>. QED
      BY <1>1, <1>9, <3>1, CountsTyped
  <2>3. \A q \in Updates : update'[q].at = "counted" =>
            update'[q].version - 1 \in Cardinality(EndedAlone) .. n
    BY <1>1, <2>1, <2>2
  <2>. QED
    BY <1>5, <2>1, <2>3 DEF VersionsBetween, Between
<1>11. HoldsByItself'
  <2>. SUFFICES ASSUME NEW q \in alone PROVE Holds(q, update[q], twin)'
    BY DEF HoldsByItself
  <2>1. q \in Updates
    BY TwinTyped DEF TwinInv
  <2>2. CASE q = r
    <3>1. Holds(r, u, t)
      BY <2>2
    <3>. QED
      BY <1>1, <1>5, <2>2, <3>1 DEF Holds
  <2>3. CASE q # r
    <3>1. update'[q].at \notin Working
      BY <1>1, <1>4, <2>1, <2>3 DEF TwinInv, ByItself
    <3>. QED
      BY <3>1 DEF Holds, Working, SoilRead, SoilWritten, RainWritten, TideWritten,
           StorageRead, StorageWritten, VersionWritten, TimeWritten, RiskWritten
  <2>. QED
    BY <2>2, <2>3
<1>. QED
  BY <1>2, <1>3, <1>4, <1>6, <1>7, <1>10, <1>11 DEF TwinInv, Fits
(* What is known of the request that steps and of the twin. *)
LEMMA TwinKnown ==
    ASSUME TwinInv, NEW r \in Updates, update[r].at \in Working
    PROVE  /\ update[r] \in UpdateState /\ twin \in TwinState
           /\ EndedAlone \subseteq twin.soil /\ EndedAlone \subseteq twin.storage
           /\ EndedAlone \in Counting
           /\ update[r].at \in SoilRead => EndedAlone \subseteq update[r].soil
           /\ update[r].at \in StorageRead => EndedAlone \subseteq update[r].storage
           /\ r \in alone => Holds(r, update[r], twin)
           /\ twin.version - 1 \in Cardinality(EndedAlone) .. Cardinality(VersionSaved)
           /\ update[r].at = "counted" =>
                  update[r].version - 1 \in Cardinality(EndedAlone) .. Cardinality(VersionSaved)
           /\ Cardinality(EndedAlone) \in Nat /\ Cardinality(VersionSaved) \in Nat
<1>1. update[r] \in UpdateState /\ twin \in TwinState
  BY TwinTyped DEF TwinInv
<1>2. EndedAlone \in Counting
  BY DEF EndedAlone, Ended, Counting
<1>. QED
  BY <1>1, <1>2, CountsTyped
  DEF TwinInv, LoneStay, VersionsBetween, Between, HoldsByItself

LEMMA ReadSoilInv == ASSUME TwinInv, NEW r \in Updates, ReadSoil(r) PROVE TwinInv'
<1>. DEFINE u == [update[r] EXCEPT !.at = "infiltrated", !.soil = twin.soil \cup {r}]
            t == twin
<1>1. /\ update[r].at = "soil" /\ update[r].at \in Working
      /\ update' = [update EXCEPT ![r] = u] /\ twin' = t
      /\ UNCHANGED <<pastStates, alone, latest>>
  BY DEF ReadSoil, Goes, Passes, Places, Working, SoilRead, SoilWritten, RainWritten, TideWritten,
      StorageRead, StorageWritten, VersionWritten, TimeWritten, RiskWritten
<1>2. /\ update[r] \in UpdateState /\ twin \in TwinState
      /\ update[r].at \in SoilRead => EndedAlone \subseteq update[r].soil
      /\ update[r].at \in StorageRead => EndedAlone \subseteq update[r].storage
      /\ EndedAlone \subseteq twin.soil /\ EndedAlone \subseteq twin.storage
      /\ r \in alone => Holds(r, update[r], twin)
  BY <1>1, TwinKnown
<1>3. u \in UpdateState /\ t \in TwinState
  BY <1>1, <1>2 DEF UpdateState, TwinState, RiskIndex, Counting, By, Places
<1>4. /\ u.at = "infiltrated"
      /\ u.soil = twin.soil \cup {r} /\ u.storage = update[r].storage /\ u.version = update[r].version
      /\ t.soil = twin.soil /\ t.effective = twin.effective
      /\ t.tide = twin.tide /\ t.storage = twin.storage
      /\ t.backwater = twin.backwater /\ t.version = twin.version
      /\ t.timestamp = twin.timestamp /\ t.risk = twin.risk
  BY <1>2 DEF UpdateState, TwinState
<1>. HIDE DEF u, t
<1>5. /\ u.at \in Working
      /\ EndedAlone \subseteq t.soil /\ EndedAlone \subseteq t.storage
      /\ u.at \in SoilRead => EndedAlone \subseteq u.soil
      /\ u.at \in StorageRead => EndedAlone \subseteq u.storage
      /\ update[r].at \in VersionWritten => u.at \in VersionWritten
      /\ update[r].at = "counted" => u.at \in VersionWritten
  BY <1>1, <1>2, <1>4 DEF Places, Working, SoilRead, SoilWritten, RainWritten, TideWritten,
      StorageRead, StorageWritten, VersionWritten, TimeWritten, RiskWritten
<1>6. r \in alone => Holds(r, u, t)
  BY <1>1, <1>2, <1>4 DEF Holds, Places, Working, SoilRead, SoilWritten, RainWritten, TideWritten,
      StorageRead, StorageWritten, VersionWritten, TimeWritten, RiskWritten
<1>7. ASSUME NEW n \in Nat, Cardinality(VersionSaved) <= n,
             update[r].at = "counted" => Cardinality(VersionSaved) < n
      PROVE  /\ t.version - 1 \in Cardinality(EndedAlone) .. n
             /\ u.at = "counted" => u.version - 1 \in Cardinality(EndedAlone) .. n
  BY <1>1, <1>4, <1>7, TwinKnown
<1>. QED
  BY <1>1, <1>3, <1>5, <1>6, <1>7, MiddleStep

LEMMA WriteSoilInv == ASSUME TwinInv, NEW r \in Updates, WriteSoil(r) PROVE TwinInv'
<1>. DEFINE u == [update[r] EXCEPT !.at = "effective"]
            t == [twin EXCEPT !.soil = update[r].soil]
<1>1. /\ update[r].at = "infiltrated" /\ update[r].at \in Working
      /\ update' = [update EXCEPT ![r] = u] /\ twin' = t
      /\ UNCHANGED <<pastStates, alone, latest>>
  BY DEF WriteSoil, Goes, Passes, Places, Working, SoilRead, SoilWritten, RainWritten, TideWritten,
      StorageRead, StorageWritten, VersionWritten, TimeWritten, RiskWritten
<1>2. /\ update[r] \in UpdateState /\ twin \in TwinState
      /\ update[r].at \in SoilRead => EndedAlone \subseteq update[r].soil
      /\ update[r].at \in StorageRead => EndedAlone \subseteq update[r].storage
      /\ EndedAlone \subseteq twin.soil /\ EndedAlone \subseteq twin.storage
      /\ r \in alone => Holds(r, update[r], twin)
  BY <1>1, TwinKnown
<1>3. u \in UpdateState /\ t \in TwinState
  BY <1>1, <1>2 DEF UpdateState, TwinState, RiskIndex, Counting, By, Places
<1>4. /\ u.at = "effective"
      /\ u.soil = update[r].soil /\ u.storage = update[r].storage /\ u.version = update[r].version
      /\ t.soil = update[r].soil /\ t.effective = twin.effective
      /\ t.tide = twin.tide /\ t.storage = twin.storage
      /\ t.backwater = twin.backwater /\ t.version = twin.version
      /\ t.timestamp = twin.timestamp /\ t.risk = twin.risk
  BY <1>2 DEF UpdateState, TwinState
<1>. HIDE DEF u, t
<1>5. /\ u.at \in Working
      /\ EndedAlone \subseteq t.soil /\ EndedAlone \subseteq t.storage
      /\ u.at \in SoilRead => EndedAlone \subseteq u.soil
      /\ u.at \in StorageRead => EndedAlone \subseteq u.storage
      /\ update[r].at \in VersionWritten => u.at \in VersionWritten
      /\ update[r].at = "counted" => u.at \in VersionWritten
  BY <1>1, <1>2, <1>4 DEF Places, Working, SoilRead, SoilWritten, RainWritten, TideWritten,
      StorageRead, StorageWritten, VersionWritten, TimeWritten, RiskWritten
<1>6. r \in alone => Holds(r, u, t)
  BY <1>1, <1>2, <1>4 DEF Holds, Places, Working, SoilRead, SoilWritten, RainWritten, TideWritten,
      StorageRead, StorageWritten, VersionWritten, TimeWritten, RiskWritten
<1>7. ASSUME NEW n \in Nat, Cardinality(VersionSaved) <= n,
             update[r].at = "counted" => Cardinality(VersionSaved) < n
      PROVE  /\ t.version - 1 \in Cardinality(EndedAlone) .. n
             /\ u.at = "counted" => u.version - 1 \in Cardinality(EndedAlone) .. n
  BY <1>1, <1>4, <1>7, TwinKnown
<1>. QED
  BY <1>1, <1>3, <1>5, <1>6, <1>7, MiddleStep

LEMMA WriteEffectiveRainInv == ASSUME TwinInv, NEW r \in Updates, WriteEffectiveRain(r) PROVE TwinInv'
<1>. DEFINE u == [update[r] EXCEPT !.at = "tide"]
            t == [twin EXCEPT !.effective = r]
<1>1. /\ update[r].at = "effective" /\ update[r].at \in Working
      /\ update' = [update EXCEPT ![r] = u] /\ twin' = t
      /\ UNCHANGED <<pastStates, alone, latest>>
  BY DEF WriteEffectiveRain, Goes, Passes, Places, Working, SoilRead, SoilWritten, RainWritten, TideWritten,
      StorageRead, StorageWritten, VersionWritten, TimeWritten, RiskWritten
<1>2. /\ update[r] \in UpdateState /\ twin \in TwinState
      /\ update[r].at \in SoilRead => EndedAlone \subseteq update[r].soil
      /\ update[r].at \in StorageRead => EndedAlone \subseteq update[r].storage
      /\ EndedAlone \subseteq twin.soil /\ EndedAlone \subseteq twin.storage
      /\ r \in alone => Holds(r, update[r], twin)
  BY <1>1, TwinKnown
<1>3. u \in UpdateState /\ t \in TwinState
  BY <1>1, <1>2 DEF UpdateState, TwinState, RiskIndex, Counting, By, Places
<1>4. /\ u.at = "tide"
      /\ u.soil = update[r].soil /\ u.storage = update[r].storage /\ u.version = update[r].version
      /\ t.soil = twin.soil /\ t.effective = r
      /\ t.tide = twin.tide /\ t.storage = twin.storage
      /\ t.backwater = twin.backwater /\ t.version = twin.version
      /\ t.timestamp = twin.timestamp /\ t.risk = twin.risk
  BY <1>2 DEF UpdateState, TwinState
<1>. HIDE DEF u, t
<1>5. /\ u.at \in Working
      /\ EndedAlone \subseteq t.soil /\ EndedAlone \subseteq t.storage
      /\ u.at \in SoilRead => EndedAlone \subseteq u.soil
      /\ u.at \in StorageRead => EndedAlone \subseteq u.storage
      /\ update[r].at \in VersionWritten => u.at \in VersionWritten
      /\ update[r].at = "counted" => u.at \in VersionWritten
  BY <1>1, <1>2, <1>4 DEF Places, Working, SoilRead, SoilWritten, RainWritten, TideWritten,
      StorageRead, StorageWritten, VersionWritten, TimeWritten, RiskWritten
<1>6. r \in alone => Holds(r, u, t)
  BY <1>1, <1>2, <1>4 DEF Holds, Places, Working, SoilRead, SoilWritten, RainWritten, TideWritten,
      StorageRead, StorageWritten, VersionWritten, TimeWritten, RiskWritten
<1>7. ASSUME NEW n \in Nat, Cardinality(VersionSaved) <= n,
             update[r].at = "counted" => Cardinality(VersionSaved) < n
      PROVE  /\ t.version - 1 \in Cardinality(EndedAlone) .. n
             /\ u.at = "counted" => u.version - 1 \in Cardinality(EndedAlone) .. n
  BY <1>1, <1>4, <1>7, TwinKnown
<1>. QED
  BY <1>1, <1>3, <1>5, <1>6, <1>7, MiddleStep

LEMMA UpdateTidalBoundaryInv == ASSUME TwinInv, NEW r \in Updates, UpdateTidalBoundary(r) PROVE TwinInv'
<1>. DEFINE u == [update[r] EXCEPT !.at = "channel"]
            t == [twin EXCEPT !.tide = r]
<1>1. /\ update[r].at = "tide" /\ update[r].at \in Working
      /\ update' = [update EXCEPT ![r] = u] /\ twin' = t
      /\ UNCHANGED <<pastStates, alone, latest>>
  BY DEF UpdateTidalBoundary, Goes, Passes, Places, Working, SoilRead, SoilWritten, RainWritten, TideWritten,
      StorageRead, StorageWritten, VersionWritten, TimeWritten, RiskWritten
<1>2. /\ update[r] \in UpdateState /\ twin \in TwinState
      /\ update[r].at \in SoilRead => EndedAlone \subseteq update[r].soil
      /\ update[r].at \in StorageRead => EndedAlone \subseteq update[r].storage
      /\ EndedAlone \subseteq twin.soil /\ EndedAlone \subseteq twin.storage
      /\ r \in alone => Holds(r, update[r], twin)
  BY <1>1, TwinKnown
<1>3. u \in UpdateState /\ t \in TwinState
  BY <1>1, <1>2 DEF UpdateState, TwinState, RiskIndex, Counting, By, Places
<1>4. /\ u.at = "channel"
      /\ u.soil = update[r].soil /\ u.storage = update[r].storage /\ u.version = update[r].version
      /\ t.soil = twin.soil /\ t.effective = twin.effective
      /\ t.tide = r /\ t.storage = twin.storage
      /\ t.backwater = twin.backwater /\ t.version = twin.version
      /\ t.timestamp = twin.timestamp /\ t.risk = twin.risk
  BY <1>2 DEF UpdateState, TwinState
<1>. HIDE DEF u, t
<1>5. /\ u.at \in Working
      /\ EndedAlone \subseteq t.soil /\ EndedAlone \subseteq t.storage
      /\ u.at \in SoilRead => EndedAlone \subseteq u.soil
      /\ u.at \in StorageRead => EndedAlone \subseteq u.storage
      /\ update[r].at \in VersionWritten => u.at \in VersionWritten
      /\ update[r].at = "counted" => u.at \in VersionWritten
  BY <1>1, <1>2, <1>4 DEF Places, Working, SoilRead, SoilWritten, RainWritten, TideWritten,
      StorageRead, StorageWritten, VersionWritten, TimeWritten, RiskWritten
<1>6. r \in alone => Holds(r, u, t)
  BY <1>1, <1>2, <1>4 DEF Holds, Places, Working, SoilRead, SoilWritten, RainWritten, TideWritten,
      StorageRead, StorageWritten, VersionWritten, TimeWritten, RiskWritten
<1>7. ASSUME NEW n \in Nat, Cardinality(VersionSaved) <= n,
             update[r].at = "counted" => Cardinality(VersionSaved) < n
      PROVE  /\ t.version - 1 \in Cardinality(EndedAlone) .. n
             /\ u.at = "counted" => u.version - 1 \in Cardinality(EndedAlone) .. n
  BY <1>1, <1>4, <1>7, TwinKnown
<1>. QED
  BY <1>1, <1>3, <1>5, <1>6, <1>7, MiddleStep

LEMMA ReadChannelInv == ASSUME TwinInv, NEW r \in Updates, ReadChannel(r) PROVE TwinInv'
<1>. DEFINE u == [update[r] EXCEPT !.at = "routed", !.storage = twin.storage \cup {r}]
            t == twin
<1>1. /\ update[r].at = "channel" /\ update[r].at \in Working
      /\ update' = [update EXCEPT ![r] = u] /\ twin' = t
      /\ UNCHANGED <<pastStates, alone, latest>>
  BY DEF ReadChannel, Goes, Passes, Places, Working, SoilRead, SoilWritten, RainWritten, TideWritten,
      StorageRead, StorageWritten, VersionWritten, TimeWritten, RiskWritten
<1>2. /\ update[r] \in UpdateState /\ twin \in TwinState
      /\ update[r].at \in SoilRead => EndedAlone \subseteq update[r].soil
      /\ update[r].at \in StorageRead => EndedAlone \subseteq update[r].storage
      /\ EndedAlone \subseteq twin.soil /\ EndedAlone \subseteq twin.storage
      /\ r \in alone => Holds(r, update[r], twin)
  BY <1>1, TwinKnown
<1>3. u \in UpdateState /\ t \in TwinState
  BY <1>1, <1>2 DEF UpdateState, TwinState, RiskIndex, Counting, By, Places
<1>4. /\ u.at = "routed"
      /\ u.soil = update[r].soil /\ u.storage = twin.storage \cup {r} /\ u.version = update[r].version
      /\ t.soil = twin.soil /\ t.effective = twin.effective
      /\ t.tide = twin.tide /\ t.storage = twin.storage
      /\ t.backwater = twin.backwater /\ t.version = twin.version
      /\ t.timestamp = twin.timestamp /\ t.risk = twin.risk
  BY <1>2 DEF UpdateState, TwinState
<1>. HIDE DEF u, t
<1>5. /\ u.at \in Working
      /\ EndedAlone \subseteq t.soil /\ EndedAlone \subseteq t.storage
      /\ u.at \in SoilRead => EndedAlone \subseteq u.soil
      /\ u.at \in StorageRead => EndedAlone \subseteq u.storage
      /\ update[r].at \in VersionWritten => u.at \in VersionWritten
      /\ update[r].at = "counted" => u.at \in VersionWritten
  BY <1>1, <1>2, <1>4 DEF Places, Working, SoilRead, SoilWritten, RainWritten, TideWritten,
      StorageRead, StorageWritten, VersionWritten, TimeWritten, RiskWritten
<1>6. r \in alone => Holds(r, u, t)
  BY <1>1, <1>2, <1>4 DEF Holds, Places, Working, SoilRead, SoilWritten, RainWritten, TideWritten,
      StorageRead, StorageWritten, VersionWritten, TimeWritten, RiskWritten
<1>7. ASSUME NEW n \in Nat, Cardinality(VersionSaved) <= n,
             update[r].at = "counted" => Cardinality(VersionSaved) < n
      PROVE  /\ t.version - 1 \in Cardinality(EndedAlone) .. n
             /\ u.at = "counted" => u.version - 1 \in Cardinality(EndedAlone) .. n
  BY <1>1, <1>4, <1>7, TwinKnown
<1>. QED
  BY <1>1, <1>3, <1>5, <1>6, <1>7, MiddleStep

LEMMA WriteChannelInv == ASSUME TwinInv, NEW r \in Updates, WriteChannel(r) PROVE TwinInv'
<1>. DEFINE u == [update[r] EXCEPT !.at = "risk"]
            t == [twin EXCEPT !.storage = update[r].storage, !.backwater = r]
<1>1. /\ update[r].at = "routed" /\ update[r].at \in Working
      /\ update' = [update EXCEPT ![r] = u] /\ twin' = t
      /\ UNCHANGED <<pastStates, alone, latest>>
  BY DEF WriteChannel, Goes, Passes, Places, Working, SoilRead, SoilWritten, RainWritten, TideWritten,
      StorageRead, StorageWritten, VersionWritten, TimeWritten, RiskWritten
<1>2. /\ update[r] \in UpdateState /\ twin \in TwinState
      /\ update[r].at \in SoilRead => EndedAlone \subseteq update[r].soil
      /\ update[r].at \in StorageRead => EndedAlone \subseteq update[r].storage
      /\ EndedAlone \subseteq twin.soil /\ EndedAlone \subseteq twin.storage
      /\ r \in alone => Holds(r, update[r], twin)
  BY <1>1, TwinKnown
<1>3. u \in UpdateState /\ t \in TwinState
  BY <1>1, <1>2 DEF UpdateState, TwinState, RiskIndex, Counting, By, Places
<1>4. /\ u.at = "risk"
      /\ u.soil = update[r].soil /\ u.storage = update[r].storage /\ u.version = update[r].version
      /\ t.soil = twin.soil /\ t.effective = twin.effective
      /\ t.tide = twin.tide /\ t.storage = update[r].storage
      /\ t.backwater = r /\ t.version = twin.version
      /\ t.timestamp = twin.timestamp /\ t.risk = twin.risk
  BY <1>2 DEF UpdateState, TwinState
<1>. HIDE DEF u, t
<1>5. /\ u.at \in Working
      /\ EndedAlone \subseteq t.soil /\ EndedAlone \subseteq t.storage
      /\ u.at \in SoilRead => EndedAlone \subseteq u.soil
      /\ u.at \in StorageRead => EndedAlone \subseteq u.storage
      /\ update[r].at \in VersionWritten => u.at \in VersionWritten
      /\ update[r].at = "counted" => u.at \in VersionWritten
  BY <1>1, <1>2, <1>4 DEF Places, Working, SoilRead, SoilWritten, RainWritten, TideWritten,
      StorageRead, StorageWritten, VersionWritten, TimeWritten, RiskWritten
<1>6. r \in alone => Holds(r, u, t)
  BY <1>1, <1>2, <1>4 DEF Holds, Places, Working, SoilRead, SoilWritten, RainWritten, TideWritten,
      StorageRead, StorageWritten, VersionWritten, TimeWritten, RiskWritten
<1>7. ASSUME NEW n \in Nat, Cardinality(VersionSaved) <= n,
             update[r].at = "counted" => Cardinality(VersionSaved) < n
      PROVE  /\ t.version - 1 \in Cardinality(EndedAlone) .. n
             /\ u.at = "counted" => u.version - 1 \in Cardinality(EndedAlone) .. n
  BY <1>1, <1>4, <1>7, TwinKnown
<1>. QED
  BY <1>1, <1>3, <1>5, <1>6, <1>7, MiddleStep

LEMMA ReadVersionInv == ASSUME TwinInv, NEW r \in Updates, ReadVersion(r) PROVE TwinInv'
<1>. DEFINE u == [update[r] EXCEPT !.at = "counted", !.version = twin.version]
            t == twin
<1>1. /\ update[r].at = "risk" /\ update[r].at \in Working
      /\ update' = [update EXCEPT ![r] = u] /\ twin' = t
      /\ UNCHANGED <<pastStates, alone, latest>>
  BY DEF ReadVersion, Goes, Passes, Places, Working, SoilRead, SoilWritten, RainWritten, TideWritten,
      StorageRead, StorageWritten, VersionWritten, TimeWritten, RiskWritten
<1>2. /\ update[r] \in UpdateState /\ twin \in TwinState
      /\ update[r].at \in SoilRead => EndedAlone \subseteq update[r].soil
      /\ update[r].at \in StorageRead => EndedAlone \subseteq update[r].storage
      /\ EndedAlone \subseteq twin.soil /\ EndedAlone \subseteq twin.storage
      /\ r \in alone => Holds(r, update[r], twin)
  BY <1>1, TwinKnown
<1>3. u \in UpdateState /\ t \in TwinState
  BY <1>1, <1>2 DEF UpdateState, TwinState, RiskIndex, Counting, By, Places
<1>4. /\ u.at = "counted"
      /\ u.soil = update[r].soil /\ u.storage = update[r].storage /\ u.version = twin.version
      /\ t.soil = twin.soil /\ t.effective = twin.effective
      /\ t.tide = twin.tide /\ t.storage = twin.storage
      /\ t.backwater = twin.backwater /\ t.version = twin.version
      /\ t.timestamp = twin.timestamp /\ t.risk = twin.risk
  BY <1>2 DEF UpdateState, TwinState
<1>. HIDE DEF u, t
<1>5. /\ u.at \in Working
      /\ EndedAlone \subseteq t.soil /\ EndedAlone \subseteq t.storage
      /\ u.at \in SoilRead => EndedAlone \subseteq u.soil
      /\ u.at \in StorageRead => EndedAlone \subseteq u.storage
      /\ update[r].at \in VersionWritten => u.at \in VersionWritten
      /\ update[r].at = "counted" => u.at \in VersionWritten
  BY <1>1, <1>2, <1>4 DEF Places, Working, SoilRead, SoilWritten, RainWritten, TideWritten,
      StorageRead, StorageWritten, VersionWritten, TimeWritten, RiskWritten
<1>6. r \in alone => Holds(r, u, t)
  BY <1>1, <1>2, <1>4 DEF Holds, Places, Working, SoilRead, SoilWritten, RainWritten, TideWritten,
      StorageRead, StorageWritten, VersionWritten, TimeWritten, RiskWritten
<1>7. ASSUME NEW n \in Nat, Cardinality(VersionSaved) <= n,
             update[r].at = "counted" => Cardinality(VersionSaved) < n
      PROVE  /\ t.version - 1 \in Cardinality(EndedAlone) .. n
             /\ u.at = "counted" => u.version - 1 \in Cardinality(EndedAlone) .. n
  BY <1>1, <1>4, <1>7, TwinKnown
<1>. QED
  BY <1>1, <1>3, <1>5, <1>6, <1>7, MiddleStep

LEMMA WriteVersionInv == ASSUME TwinInv, NEW r \in Updates, WriteVersion(r) PROVE TwinInv'
<1>. DEFINE u == [update[r] EXCEPT !.at = "time", !.version = 0]
            t == [twin EXCEPT !.version = update[r].version + 1]
<1>1. /\ update[r].at = "counted" /\ update[r].at \in Working
      /\ update' = [update EXCEPT ![r] = u] /\ twin' = t
      /\ UNCHANGED <<pastStates, alone, latest>>
  BY DEF WriteVersion, Goes, Passes, Places, Working, SoilRead, SoilWritten, RainWritten, TideWritten,
      StorageRead, StorageWritten, VersionWritten, TimeWritten, RiskWritten
<1>2. /\ update[r] \in UpdateState /\ twin \in TwinState
      /\ update[r].at \in SoilRead => EndedAlone \subseteq update[r].soil
      /\ update[r].at \in StorageRead => EndedAlone \subseteq update[r].storage
      /\ EndedAlone \subseteq twin.soil /\ EndedAlone \subseteq twin.storage
      /\ r \in alone => Holds(r, update[r], twin)
  BY <1>1, TwinKnown
<1>8. PICK v \in Nat, c \in Nat, l \in Nat :
          /\ v = update[r].version /\ c = Cardinality(VersionSaved) /\ l = Cardinality(EndedAlone)
          /\ v - 1 \in l .. c
  BY <1>1, <1>2, TwinKnown DEF UpdateState
<1>9. v + 1 \in Nat /\ (v + 1) - 1 > l /\ \A n \in Nat : c < n => (v + 1) - 1 \in l .. n
  BY <1>8
<1>3. u \in UpdateState /\ t \in TwinState
  BY <1>1, <1>2, <1>8, <1>9 DEF UpdateState, TwinState, Places
<1>4. /\ u.at = "time"
      /\ u.soil = update[r].soil /\ u.storage = update[r].storage /\ u.version = 0
      /\ t.soil = twin.soil /\ t.effective = twin.effective
      /\ t.tide = twin.tide /\ t.storage = twin.storage
      /\ t.backwater = twin.backwater /\ t.version = update[r].version + 1
      /\ t.timestamp = twin.timestamp /\ t.risk = twin.risk
  BY <1>2 DEF UpdateState, TwinState
<1>. HIDE DEF u, t
<1>5. /\ u.at \in Working
      /\ EndedAlone \subseteq t.soil /\ EndedAlone \subseteq t.storage
      /\ u.at \in SoilRead => EndedAlone \subseteq u.soil
      /\ u.at \in StorageRead => EndedAlone \subseteq u.storage
      /\ update[r].at \in VersionWritten => u.at \in VersionWritten
      /\ update[r].at = "counted" => u.at \in VersionWritten
  BY <1>1, <1>2, <1>4 DEF Places, Working, SoilRead, SoilWritten, RainWritten, TideWritten,
      StorageRead, StorageWritten, VersionWritten, TimeWritten, RiskWritten
<1>6. r \in alone => Holds(r, u, t)
  BY <1>1, <1>2, <1>4, <1>8, <1>9 DEF Holds, Places, Working, SoilRead, SoilWritten, RainWritten, TideWritten,
      StorageRead, StorageWritten, VersionWritten, TimeWritten, RiskWritten
<1>7. ASSUME NEW n \in Nat, Cardinality(VersionSaved) <= n,
             update[r].at = "counted" => Cardinality(VersionSaved) < n
      PROVE  /\ t.version - 1 \in Cardinality(EndedAlone) .. n
             /\ u.at = "counted" => u.version - 1 \in Cardinality(EndedAlone) .. n
  BY <1>1, <1>4, <1>7, <1>8, <1>9
<1>. QED
  BY <1>1, <1>3, <1>5, <1>6, <1>7, MiddleStep

LEMMA WriteTimestampInv == ASSUME TwinInv, NEW r \in Updates, WriteTimestamp(r) PROVE TwinInv'
<1>. DEFINE u == [update[r] EXCEPT !.at = "index"]
            t == [twin EXCEPT !.timestamp = r]
<1>1. /\ update[r].at = "time" /\ update[r].at \in Working
      /\ update' = [update EXCEPT ![r] = u] /\ twin' = t
      /\ UNCHANGED <<pastStates, alone, latest>>
  BY DEF WriteTimestamp, Goes, Passes, Places, Working, SoilRead, SoilWritten, RainWritten, TideWritten,
      StorageRead, StorageWritten, VersionWritten, TimeWritten, RiskWritten
<1>2. /\ update[r] \in UpdateState /\ twin \in TwinState
      /\ update[r].at \in SoilRead => EndedAlone \subseteq update[r].soil
      /\ update[r].at \in StorageRead => EndedAlone \subseteq update[r].storage
      /\ EndedAlone \subseteq twin.soil /\ EndedAlone \subseteq twin.storage
      /\ r \in alone => Holds(r, update[r], twin)
  BY <1>1, TwinKnown
<1>3. u \in UpdateState /\ t \in TwinState
  BY <1>1, <1>2 DEF UpdateState, TwinState, RiskIndex, Counting, By, Places
<1>4. /\ u.at = "index"
      /\ u.soil = update[r].soil /\ u.storage = update[r].storage /\ u.version = update[r].version
      /\ t.soil = twin.soil /\ t.effective = twin.effective
      /\ t.tide = twin.tide /\ t.storage = twin.storage
      /\ t.backwater = twin.backwater /\ t.version = twin.version
      /\ t.timestamp = r /\ t.risk = twin.risk
  BY <1>2 DEF UpdateState, TwinState
<1>. HIDE DEF u, t
<1>5. /\ u.at \in Working
      /\ EndedAlone \subseteq t.soil /\ EndedAlone \subseteq t.storage
      /\ u.at \in SoilRead => EndedAlone \subseteq u.soil
      /\ u.at \in StorageRead => EndedAlone \subseteq u.storage
      /\ update[r].at \in VersionWritten => u.at \in VersionWritten
      /\ update[r].at = "counted" => u.at \in VersionWritten
  BY <1>1, <1>2, <1>4 DEF Places, Working, SoilRead, SoilWritten, RainWritten, TideWritten,
      StorageRead, StorageWritten, VersionWritten, TimeWritten, RiskWritten
<1>6. r \in alone => Holds(r, u, t)
  BY <1>1, <1>2, <1>4 DEF Holds, Places, Working, SoilRead, SoilWritten, RainWritten, TideWritten,
      StorageRead, StorageWritten, VersionWritten, TimeWritten, RiskWritten
<1>7. ASSUME NEW n \in Nat, Cardinality(VersionSaved) <= n,
             update[r].at = "counted" => Cardinality(VersionSaved) < n
      PROVE  /\ t.version - 1 \in Cardinality(EndedAlone) .. n
             /\ u.at = "counted" => u.version - 1 \in Cardinality(EndedAlone) .. n
  BY <1>1, <1>4, <1>7, TwinKnown
<1>. QED
  BY <1>1, <1>3, <1>5, <1>6, <1>7, MiddleStep

LEMMA WriteRiskIndexInv == ASSUME TwinInv, NEW r \in Updates, WriteRiskIndex(r) PROVE TwinInv'
<1>. DEFINE u == [update[r] EXCEPT !.at = "record"]
            t == [twin EXCEPT !.risk = RiskIndex(update[r].soil, update[r].storage, r)]
<1>1. /\ update[r].at = "index" /\ update[r].at \in Working
      /\ update' = [update EXCEPT ![r] = u] /\ twin' = t
      /\ UNCHANGED <<pastStates, alone, latest>>
  BY DEF WriteRiskIndex, Goes, Passes, Places, Working, SoilRead, SoilWritten, RainWritten, TideWritten,
      StorageRead, StorageWritten, VersionWritten, TimeWritten, RiskWritten
<1>2. /\ update[r] \in UpdateState /\ twin \in TwinState
      /\ update[r].at \in SoilRead => EndedAlone \subseteq update[r].soil
      /\ update[r].at \in StorageRead => EndedAlone \subseteq update[r].storage
      /\ EndedAlone \subseteq twin.soil /\ EndedAlone \subseteq twin.storage
      /\ r \in alone => Holds(r, update[r], twin)
  BY <1>1, TwinKnown
<1>3. u \in UpdateState /\ t \in TwinState
  BY <1>1, <1>2 DEF UpdateState, TwinState, RiskIndex, Counting, By, Places
<1>4. /\ u.at = "record"
      /\ u.soil = update[r].soil /\ u.storage = update[r].storage /\ u.version = update[r].version
      /\ t.soil = twin.soil /\ t.effective = twin.effective
      /\ t.tide = twin.tide /\ t.storage = twin.storage
      /\ t.backwater = twin.backwater /\ t.version = twin.version
      /\ t.timestamp = twin.timestamp /\ t.risk = RiskIndex(update[r].soil, update[r].storage, r)
  BY <1>2 DEF UpdateState, TwinState
<1>. HIDE DEF u, t
<1>5. /\ u.at \in Working
      /\ EndedAlone \subseteq t.soil /\ EndedAlone \subseteq t.storage
      /\ u.at \in SoilRead => EndedAlone \subseteq u.soil
      /\ u.at \in StorageRead => EndedAlone \subseteq u.storage
      /\ update[r].at \in VersionWritten => u.at \in VersionWritten
      /\ update[r].at = "counted" => u.at \in VersionWritten
  BY <1>1, <1>2, <1>4 DEF Places, Working, SoilRead, SoilWritten, RainWritten, TideWritten,
      StorageRead, StorageWritten, VersionWritten, TimeWritten, RiskWritten
<1>6. r \in alone => Holds(r, u, t)
  BY <1>1, <1>2, <1>4 DEF Holds, Places, Working, SoilRead, SoilWritten, RainWritten, TideWritten,
      StorageRead, StorageWritten, VersionWritten, TimeWritten, RiskWritten
<1>7. ASSUME NEW n \in Nat, Cardinality(VersionSaved) <= n,
             update[r].at = "counted" => Cardinality(VersionSaved) < n
      PROVE  /\ t.version - 1 \in Cardinality(EndedAlone) .. n
             /\ u.at = "counted" => u.version - 1 \in Cardinality(EndedAlone) .. n
  BY <1>1, <1>4, <1>7, TwinKnown
<1>. QED
  BY <1>1, <1>3, <1>5, <1>6, <1>7, MiddleStep

LEMMA EnterInv == ASSUME TwinInv, NEW r \in Updates, Enter(r) PROVE TwinInv'
<1>. DEFINE u == [update[r] EXCEPT !.at = "soil"]
<1>1. /\ update[r] \in UpdateState /\ update[r].at = "waiting"
      /\ update' = [update EXCEPT ![r] = u]
      /\ alone' = (IF UnderWay = {} THEN alone ELSE alone \ (UnderWay \cup {r}))
      /\ UNCHANGED <<twin, pastStates, latest>>
  BY TwinTyped DEF Enter, TwinInv
<1>2. /\ u \in UpdateState /\ u.at = "soil"
      /\ "soil" \in Working /\ "soil" \notin SoilRead /\ "soil" # "waiting"
      /\ "soil" # "ended" /\ "waiting" \notin Working
  BY <1>1 DEF UpdateState, Places, Working, SoilRead, SoilWritten, RainWritten, TideWritten,
      StorageRead, StorageWritten, VersionWritten, TimeWritten, RiskWritten
<1>. HIDE DEF u
<1>3. /\ update' \in [Updates -> UpdateState] /\ update'[r] = u
      /\ \A q \in Updates \ {r} : update'[q] = update[q]
  BY <1>1, <1>2, TwinTyped DEF TwinInv
<1>4. TwinTypeOK'
  BY <1>1, <1>3 DEF TwinInv, TwinTypeOK, UpdateState, TwinState, Counting
<1>5. UnderWay' = UnderWay \cup {r}
  BY <1>2, <1>3 DEF UnderWay
<1>6. alone' \subseteq alone /\ alone \subseteq Updates
  BY <1>1, TwinTyped DEF TwinInv
<1>7. Ended' = Ended /\ VersionSaved' = VersionSaved
  BY <1>1, <1>2, <1>3 DEF Ended, VersionSaved, VersionWritten, TimeWritten, RiskWritten
<1>8. EndedAlone' = EndedAlone
  <2>1. "ended" \notin Working
    BY PlacesNamed
  <2>2. Ended \cap UnderWay = {} /\ r \notin Ended
    BY <1>1, <2>1 DEF Ended, UnderWay
  <2>. QED
    BY <1>1, <1>7, <2>2 DEF EndedAlone
<1>9. ByItself'
  <2>. SUFFICES ASSUME NEW q \in alone', update'[q].at \in Working PROVE UnderWay' = {q}
    BY DEF ByItself
  <2>1. q \in Updates /\ "ended" \notin Working /\ "waiting" \notin Working
    BY <1>6, PlacesNamed
  <2>2. q \in UnderWay'
    BY <2>1 DEF UnderWay
  <2>3. UnderWay = {}
    BY <1>1, <1>5, <2>2
  <2>. QED
    BY <1>5, <2>2, <2>3
<1>10. LoneStay'
  <2>1. "soil" \notin StorageRead
    BY <1>2, PlacesNamed
  <2>2. \A q \in Updates :
            /\ update'[q].at \in SoilRead => EndedAlone \subseteq update'[q].soil
            /\ update'[q].at \in StorageRead => EndedAlone \subseteq update'[q].storage
    BY <1>2, <1>3, <2>1 DEF TwinInv, LoneStay
  <2>. QED
    BY <1>1, <1>8, <2>2 DEF TwinInv, LoneStay
<1>11. VersionsBetween'
  <2>1. \A q \in Updates : update'[q].at = "counted" => Between(update'[q].version)
    BY <1>2, <1>3 DEF TwinInv, VersionsBetween
  <2>. QED
    BY <1>1, <1>7, <1>8, <2>1 DEF TwinInv, VersionsBetween, Between
<1>12. HoldsByItself'
  <2>. SUFFICES ASSUME NEW q \in alone' PROVE Holds(q, update[q], twin)'
    BY DEF HoldsByItself
  <2>1. q \in Updates /\ q \in alone
    BY <1>6
  <2>2. CASE q = r
    BY <1>2, <1>3, <2>2 DEF Holds, SoilRead, SoilWritten, RainWritten, TideWritten,
         StorageRead, StorageWritten, VersionWritten, TimeWritten, RiskWritten
  <2>3. CASE q # r
    BY <1>1, <1>3, <1>8, <2>1, <2>3 DEF TwinInv, HoldsByItself, Holds
  <2>. QED
    BY <2>2, <2>3
<1>. QED
  BY <1>4, <1>5, <1>9, <1>10, <1>11, <1>12 DEF TwinInv, Fits

LEMMA RecordStateInv == ASSUME TwinInv, NEW r \in Updates, RecordState(r) PROVE TwinInv'
<1>. DEFINE u == NothingRead("ended")
<1>1. /\ update[r].at = "record" /\ update[r].at \in Working
      /\ update' = [update EXCEPT ![r] = u]
      /\ pastStates' \in 0 .. MaxHistory /\ latest' = r /\ UNCHANGED <<twin, alone>>
  BY TwinAssumption DEF RecordState, TwinInv, TwinTypeOK, Working, SoilRead, SoilWritten,
      RainWritten, TideWritten, StorageRead, StorageWritten, VersionWritten, TimeWritten, RiskWritten
<1>2. u \in UpdateState /\ u.at = "ended" /\ "ended" \notin Working
  BY PlacesNamed DEF NothingRead, UpdateState, Places, Counting
<1>. HIDE DEF u
<1>3. /\ update' \in [Updates -> UpdateState] /\ update'[r] = u
      /\ \A q \in Updates \ {r} : update'[q] = update[q]
  BY <1>1, <1>2, TwinTyped DEF TwinInv
<1>4. TwinTypeOK'
  BY <1>1, <1>3 DEF TwinInv, TwinTypeOK, UpdateState, TwinState, By
<1>5. UnderWay' = UnderWay \ {r} /\ r \in UnderWay
  <2>1. UnderWay = {q \in Updates : update[q].at \in Working}
    BY TwinTyped DEF TwinInv
  <2>2. UnderWay' = {q \in Updates : update'[q].at \in Working}
    <3>1. \A q \in Updates : update'[q].at \in Places
      BY <1>3 DEF UpdateState
    <3>. QED
      BY <3>1, PlacesNamed DEF UnderWay
  <2>. QED
    BY <1>1, <1>2, <1>3, <2>1, <2>2
<1>6. /\ Ended' = Ended \cup {r} /\ r \notin Ended /\ VersionSaved' = VersionSaved
  BY <1>1, <1>2, <1>3 DEF Ended, VersionSaved, VersionWritten, TimeWritten, RiskWritten
<1>7. IF r \in alone THEN EndedAlone' = EndedAlone \cup {r} /\ r \notin EndedAlone /\ UnderWay = {r}
                     ELSE EndedAlone' = EndedAlone
  BY <1>1, <1>6 DEF EndedAlone, TwinInv, ByItself
<1>8. r \in alone =>
          /\ r \in twin.soil /\ r \in twin.storage
          /\ twin.soil = update[r].soil /\ twin.storage = update[r].storage
          /\ twin.effective = r /\ twin.tide = r /\ twin.backwater = r /\ twin.timestamp = r
          /\ twin.version - 1 > Cardinality(EndedAlone)
          /\ twin.risk = RiskIndex(update[r].soil, update[r].storage, r)
  BY <1>1 DEF TwinInv, HoldsByItself, Holds, SoilRead, SoilWritten, RainWritten, TideWritten,
      StorageRead, StorageWritten, VersionWritten, TimeWritten, RiskWritten
<1>9. \A q \in Updates : update'[q].at \in Working =>
          q # r /\ update'[q] = update[q] /\ EndedAlone' = EndedAlone
  <2>. SUFFICES ASSUME NEW q \in Updates, update'[q].at \in Working
                PROVE  q # r /\ update'[q] = update[q] /\ EndedAlone' = EndedAlone
    OBVIOUS
  <2>1. q # r /\ update'[q] = update[q]
    BY <1>2, <1>3
  <2>2. q \in UnderWay
    BY <2>1, TwinTyped DEF TwinInv
  <2>. QED
    BY <1>7, <2>1, <2>2
<1>10. ByItself'
  <2>. SUFFICES ASSUME NEW q \in alone, update'[q].at \in Working PROVE UnderWay' = {q}
    BY <1>1 DEF ByItself
  <2>1. q # r /\ update[q].at \in Working
    BY <1>1, <1>9, TwinTyped DEF TwinInv
  <2>. QED
    BY <1>5, <2>1 DEF TwinInv, ByItself
<1>11. LoneStay'
  <2>1. EndedAlone' \subseteq twin.soil /\ EndedAlone' \subseteq twin.storage
    BY <1>7, <1>8 DEF TwinInv, LoneStay
  <2>2. \A q \in Updates :
            /\ update'[q].at \in SoilRead => EndedAlone' \subseteq update'[q].soil
            /\ update'[q].at \in StorageRead => EndedAlone' \subseteq update'[q].storage
    BY <1>9, PlacesNamed DEF TwinInv, LoneStay
  <2>. QED
    BY <1>1, <2>1, <2>2 DEF LoneStay
<1>12. Cardinality(EndedAlone') <= Cardinality(EndedAlone) + 1
       /\ Cardinality(EndedAlone') \in Nat
       /\ (r \notin alone => EndedAlone' = EndedAlone)
  BY <1>7, CountsTyped, FS_AddElement
<1>13. VersionsBetween'
  <2>1. twin.version - 1 \in Cardinality(EndedAlone') .. Cardinality(VersionSaved)
    <3>1. twin.version \in Nat
      BY TwinTyped DEF TwinInv, TwinState
    <3>2. twin.version - 1 \in Cardinality(EndedAlone) .. Cardinality(VersionSaved)
      BY DEF TwinInv, VersionsBetween, Between
    <3>3. CASE r \in alone
      BY <1>8, <1>12, <3>1, <3>2, <3>3, CountsTyped
    <3>4. CASE r \notin alone
      BY <1>12, <3>2, <3>4
    <3>. QED
      BY <3>3, <3>4
  <2>2. ASSUME NEW q \in Updates, update'[q].at = "counted"
        PROVE  update'[q].version - 1 \in Cardinality(EndedAlone') .. Cardinality(VersionSaved)
    <3>1. "counted" \in Working
      BY DEF Working, SoilRead, SoilWritten, RainWritten, TideWritten, StorageRead,
             StorageWritten
    <3>2. update'[q] = update[q] /\ EndedAlone' = EndedAlone
      BY <1>9, <2>2, <3>1
    <3>. QED
      BY <2>2, <3>2 DEF TwinInv, VersionsBetween, Between
  <2>. QED
    BY <1>1, <1>6, <2>1, <2>2 DEF VersionsBetween, Between
<1>14. HoldsByItself'
  <2>. SUFFICES ASSUME NEW q \in alone PROVE Holds(q, update[q], twin)'
    BY <1>1 DEF HoldsByItself
  <2>1. q \in Updates
    BY TwinTyped DEF TwinInv
  <2>2. CASE update'[q].at \in Working
    BY <1>1, <1>9, <2>1, <2>2 DEF TwinInv, HoldsByItself, Holds
  <2>3. CASE update'[q].at \notin Working
    BY <2>3 DEF Holds, Working, SoilRead, SoilWritten, RainWritten, TideWritten,
         StorageRead, StorageWritten, VersionWritten, TimeWritten, RiskWritten
  <2>. QED
    BY <2>2, <2>3
<1>15. Fits'
  BY <1>1, <1>8 DEF Fits
<1>. QED
  BY <1>4, <1>10, <1>11, <1>13, <1>14, <1>15 DEF TwinInv

LEMMA TwinInvStep == TwinInv /\ [TwinNext]_twinVars => TwinInv'
<1>. SUFFICES ASSUME TwinInv, [TwinNext]_twinVars PROVE TwinInv'
  OBVIOUS
<1>1. CASE TwinNext
  BY <1>1, EnterInv, ReadSoilInv, WriteSoilInv, WriteEffectiveRainInv, UpdateTidalBoundaryInv,
     ReadChannelInv, WriteChannelInv, ReadVersionInv, WriteVersionInv, WriteTimestampInv,
     WriteRiskIndexInv, RecordStateInv DEF TwinNext, TwinStep
<1>2. CASE UNCHANGED twinVars
  <2>1. UNCHANGED <<twin, pastStates, update, alone, latest>>
    BY <1>2 DEF twinVars
  <2>2. UnderWay' = UnderWay /\ EndedAlone' = EndedAlone /\ VersionSaved' = VersionSaved
    BY <2>1 DEF UnderWay, EndedAlone, Ended, VersionSaved
  <2>3. TwinTypeOK' /\ ByItself' /\ LoneStay' /\ Fits'
    BY <2>1, <2>2 DEF TwinInv, TwinTypeOK, ByItself, LoneStay, Fits
  <2>4. VersionsBetween' /\ HoldsByItself'
    BY <2>1, <2>2 DEF TwinInv, VersionsBetween, Between, HoldsByItself, Holds
  <2>. QED
    BY <2>3, <2>4 DEF TwinInv
<1>. QED
  BY <1>1, <1>2

LEMMA TwinInvHolds == TwinSpec => []TwinInv
  BY TwinInvInit, TwinInvStep, PTL DEF TwinSpec

(* The twin is always well typed. *)
THEOREM TwinTypeCorrect == TwinSpec => []TwinTypeOK
  BY TwinInvHolds, PTL DEF TwinInv

(* Whatever others overlap one another, an update that overlapped none      *)
(* stays counted, has a version of its own, and leaves the parts of the     *)
(* twin fitting together (compute_full_digital_twin_step, without a lock).  *)
THEOREM LoneUpdatesKept == TwinSpec => []LoneUpdateKept
<1>1. TwinInv => LoneUpdateKept
  <2>. SUFFICES ASSUME TwinInv PROVE LoneUpdateKept
    OBVIOUS
  <2>1. EndedAlone \subseteq twin.soil \cap twin.storage
    BY DEF TwinInv, LoneStay
  <2>2. twin.version - 1 \in Cardinality(EndedAlone) .. Cardinality(Updates)
    <3>1. twin.version - 1 \in Cardinality(EndedAlone) .. Cardinality(VersionSaved)
      BY DEF TwinInv, VersionsBetween, Between
    <3>. QED
      BY <3>1, CountsTyped
  <2>. QED
    BY <2>1, <2>2 DEF TwinInv, Fits, LoneUpdateKept, EndedAlone
<1>. QED
  BY <1>1, TwinInvHolds, PTL
=============================================================================
