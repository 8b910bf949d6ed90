---------------------------- MODULE ForecastCache ---------------------------
(***************************************************************************)
(* ForecastCacheEngine (services/runtime/forecast_cache.py): a bounded     *)
(* dictionary of inundation surfaces and, per forecast run, a manifest of  *)
(* the surfaces precomputed for it. get_precomputed_inundation_scenarios   *)
(* (main.py) runs on the request pool's threads and nothing locks either.  *)
(*                                                                         *)
(* A put looks whether there is room, looks for the oldest entry, deletes  *)
(* it and inserts: other threads run between these. A clock that advances  *)
(* with every put stands for the time an entry is stamped with.            *)
(***************************************************************************)
EXTENDS Integers, Sequences, FiniteSets, SequencesExt

CONSTANTS
    Pool,         \* threads
    Runs,         \* forecast runs asked for
    Surfaces,     \* sequence: the quantile and horizon of each surface
    MaxEntries,   \* max_entries
    Ttl,          \* ttl_seconds, on the clock of puts
    MaxPuts       \* bound: puts begun

ASSUME CacheAssumption ==
    /\ IsFiniteSet(Pool) /\ Runs # {}
    /\ Surfaces \in Seq(Range(Surfaces))
    /\ MaxEntries \in Nat \ {0} /\ Ttl \in Nat /\ MaxPuts \in Nat

VARIABLES
    entries,     \* cache: the entries, by run, surface and time
    manifests,   \* precomputed_scenarios: run -> its manifest's surfaces
    puts,        \* the clock: puts begun
    worker       \* thread -> the precomputation it is in

cacheVars == <<entries, manifests, puts, worker>>

Entry == [run : Runs, surface : Range(Surfaces), at : Nat]
NoEntry == [at |-> 0]
Worker == [at : {"idle", "put", "evict", "delete", "insert"}, run : Runs,
           todo : Seq(Range(Surfaces)), stamp : Nat, victim : Entry \cup {NoEntry}]
Free(run) == [at |-> "idle", run |-> run, todo |-> <<>>, stamp |-> 0, victim |-> NoEntry]

CacheTypeOK ==
    /\ entries \subseteq Entry
    /\ manifests \subseteq Runs
    /\ puts \in Nat
    /\ worker \in [Pool -> Worker]

CacheInit ==
    /\ entries = {} /\ manifests = {} /\ puts = 0
    /\ worker = [p \in Pool |-> Free(CHOOSE run \in Runs : TRUE)]
-----------------------------------------------------------------------------
(* The endpoint and get_inundation_surface: a run without a manifest is     *)
(* precomputed, also when another thread is at it.                          *)
Precompute(p, run) ==
    /\ worker[p].at = "idle" /\ run \notin manifests
    /\ worker' = [worker EXCEPT ![p] =
                      [Free(run) EXCEPT !.at = "put", !.todo = Surfaces]]
    /\ UNCHANGED <<entries, manifests, puts>>

(* put: now is read, then the room is looked at                             *)
StartPut(p) ==
    /\ worker[p].at = "put" /\ worker[p].todo # <<>> /\ puts < MaxPuts
    /\ puts' = puts + 1
    /\ worker' = [worker EXCEPT ![p].stamp = puts + 1,
           ![p].at = IF Cardinality(entries) >= MaxEntries THEN "evict" ELSE "insert"]
    /\ UNCHANGED <<entries, manifests>>

Oldest(victim) == \A e \in entries : victim.at <= e.at

(* min over the keys                                                        *)
FindOldest(p) ==
    /\ worker[p].at = "evict"
    /\ \E victim \in entries :
           /\ Oldest(victim)
           /\ worker' = [worker EXCEPT ![p].at = "delete", ![p].victim = victim]
    /\ UNCHANGED <<entries, manifests, puts>>

(* Mutant: the oldest entry is found and not deleted. *)
DeleteAnyhow(p) ==
    /\ worker[p].at = "delete" /\ worker[p].victim \in entries
    /\ worker' = [worker EXCEPT ![p].at = "insert", ![p].victim = NoEntry]
    /\ UNCHANGED <<entries, manifests, puts>>

DeleteOldest(p) ==
    /\ worker[p].at = "delete" /\ worker[p].victim \in entries
    /\ entries' = entries \ {worker[p].victim}
    /\ worker' = [worker EXCEPT ![p].at = "insert", ![p].victim = NoEntry]
    /\ UNCHANGED <<manifests, puts>>

(* Another thread evicted it, or changed the dictionary during the search:  *)
(* the request fails with the surfaces stored so far and no manifest.       *)
PutRaised(p) ==
    /\ \/ worker[p].at = "delete" /\ worker[p].victim \notin entries
       \/ worker[p].at = "evict"
    /\ worker' = [worker EXCEPT ![p] = Free(worker[p].run)]
    /\ UNCHANGED <<entries, manifests, puts>>

Insert(p) ==
    LET run == worker[p].run
        surface == Head(worker[p].todo)
    IN  /\ worker[p].at = "insert"
        /\ entries' = entries \cup
               {[run |-> run, surface |-> surface, at |-> worker[p].stamp]}
        /\ worker' = [worker EXCEPT ![p].at = "put", ![p].todo = Tail(@),
                                    ![p].stamp = 0]
        /\ UNCHANGED <<manifests, puts>>

PublishManifest(p) ==
    /\ worker[p].at = "put" /\ worker[p].todo = <<>>
    /\ manifests' = manifests \cup {worker[p].run}
    /\ worker' = [worker EXCEPT ![p] = Free(worker[p].run)]
    /\ UNCHANGED <<entries, puts>>

(* get: an entry past its time is deleted when it is asked for              *)
Expire(e) ==
    /\ puts - e.at > Ttl
    /\ entries' = entries \ {e}
    /\ UNCHANGED <<manifests, puts, worker>>

(* invalidate, of one run or of all                                         *)
Invalidate(runs) ==
    /\ entries' = {e \in entries : e.run \notin runs}
    /\ manifests' = manifests \ runs
    /\ UNCHANGED <<puts, worker>>

CacheNext ==
    \/ \E p \in Pool :
           \/ \E run \in Runs : Precompute(p, run)
           \/ StartPut(p) \/ FindOldest(p) \/ DeleteOldest(p) \/ PutRaised(p)
           \/ Insert(p) \/ PublishManifest(p)
    \/ \E e \in entries : Expire(e)
    \/ \E runs \in {{run} : run \in Runs} \cup {Runs} : Invalidate(runs)

CacheSpec == CacheInit /\ [][CacheNext]_cacheVars
-----------------------------------------------------------------------------
(* The cache outgrows its limit by no more than one entry for every other   *)
(* thread at work: each may find room before another takes it, and threads  *)
(* that evict at once do not make the excess grow.                          *)
CacheBounded == Cardinality(entries) <= MaxEntries + Cardinality(Pool) - 1
=============================================================================
