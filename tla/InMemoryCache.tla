----------------------------- MODULE InMemoryCache -----------------------------
(***************************************************************************)
(* The result cache of pkg/cache/cache.go: a map behind one RWMutex, whose *)
(* entries carry the time they were stored, a goroutine that removes the   *)
(* expired ones at every tick of a ticker, and Stop, which ends it.        *)
(*                                                                         *)
(* Every method body holds the mutex from its first statement to its last, *)
(* so each is one action.  Keys are the values of cacheKey (RequestCache.tla). *)
(* A timestamp is modelled by the age of its entry in clock units, counted *)
(* up to TTL + 1: all expired entries look equally old.  Entries stored in *)
(* one unit tie, and a tie is broken either way, as the order in which Go  *)
(* ranges over a map may break it.                                         *)
(***************************************************************************)
EXTENDS Integers, FiniteSets

CONSTANTS
    Keys, Results,   \* cache keys and cached *FormatResult
    EntryLimits,     \* values of Config.MaxEntries explored
    TTL,             \* Config.TTL, in clock units
    None             \* no entry, a miss

ASSUME TTLAssumption     == TTL \in Nat
ASSUME LimitsAssumption  == EntryLimits \subseteq Int
ASSUME KeysAssumption    == IsFiniteSet(Keys)
ASSUME NoneAssumption    == None \notin Results \cup (Keys \X (Results \cup {None}))

VARIABLES
    maxEntries,   \* Config.MaxEntries
    result,       \* the result stored under each key, or None
    age,          \* clock units since it was stored; 0 where there is none
    answer,       \* what the last Get returned: its key, and a result or None
    tick,         \* the ticker's channel, of capacity one, holds a tick
    loop,         \* cleanupLoop: "select", "cleanup" or "exited"
    stopped       \* stopCleanup is closed

vars == <<maxEntries, result, age, answer, tick, loop, stopped>>
background == <<tick, loop, stopped>>

Init ==
    /\ maxEntries \in EntryLimits
    /\ result = [k \in Keys |-> None]
    /\ age = [k \in Keys |-> 0]
    /\ answer = None
    /\ tick = FALSE /\ loop = "select" /\ stopped = FALSE

Stored == {k \in Keys : result[k] # None}        \* the keys of the Go map
Expired == {k \in Stored : age[k] > TTL}         \* time.Since(timestamp) > TTL

Newest == {k \in Stored : \A j \in Stored : age[k] <= age[j]}     \* for a mutant

\* Where evictOldest's search for the minimum may end.
Oldest == {k \in Stored : \A j \in Stored : age[j] <= age[k]}

\* delete(c.cache, key) for every key in Gone.
Without(Gone) == [k \in Keys |-> IF k \in Gone THEN None ELSE result[k]]
AgeKept(Gone) == age     \* mutant: the timestamp outlives the entry
AgeWithout(Gone) == [k \in Keys |-> IF k \in Gone THEN 0 ELSE age[k]]
Delete(Gone) == result' = Without(Gone) /\ age' = AgeWithout(Gone)
-----------------------------------------------------------------------------
\* An expired entry is a miss, and stays in the map.
Get(k) ==
    /\ answer' = <<k, IF k \in Expired THEN None ELSE result[k]>>
    /\ UNCHANGED <<maxEntries, result, age, background>>

StoreAfterRemoving(k, r, Evicted) ==
    /\ result' = [Without(Evicted) EXCEPT ![k] = r]
    /\ age' = [AgeWithout(Evicted) EXCEPT ![k] = 0]
    /\ UNCHANGED <<maxEntries, answer, background>>

SetEvictingNewest(k, r) ==     \* mutant: After for Before
    IF Cardinality(Stored) >= maxEntries /\ Stored # {}
    THEN \E old \in Newest : StoreAfterRemoving(k, r, {old})
    ELSE StoreAfterRemoving(k, r, {})

SetOffByOne(k, r) ==           \* mutant: > for >=
    IF Cardinality(Stored) > maxEntries /\ Stored # {}
    THEN \E old \in Oldest : StoreAfterRemoving(k, r, {old})
    ELSE StoreAfterRemoving(k, r, {})

\* At the limit the oldest entry goes first, also when the key is overwritten.
Set(k, r) ==
    IF Cardinality(Stored) >= maxEntries /\ Stored # {}
    THEN \E old \in Oldest : StoreAfterRemoving(k, r, {old})
    ELSE StoreAfterRemoving(k, r, {})

Invalidate(k) == Delete({k}) /\ UNCHANGED <<maxEntries, answer, background>>

Clear == Delete(Keys) /\ UNCHANGED <<maxEntries, answer, background>>
-----------------------------------------------------------------------------
\* The clock: every entry gets older.
TimePasses ==
    /\ age' = [k \in Keys |-> IF k \in Stored /\ age[k] <= TTL THEN age[k] + 1 ELSE age[k]]
    /\ UNCHANGED <<maxEntries, result, answer, background>>

\* The ticker fires; a tick nobody has taken yet makes it drop the new one.
TickerFires ==
    /\ loop # "exited" /\ tick' = TRUE
    /\ UNCHANGED <<maxEntries, result, age, answer, loop, stopped>>

\* cleanupLoop's select: with both channels ready, either.
LoopTakesTick ==
    /\ loop = "select" /\ tick
    /\ tick' = FALSE /\ loop' = "cleanup"
    /\ UNCHANGED <<maxEntries, result, age, answer, stopped>>

LoopExitsWhenEmpty ==     \* mutant: the cache is drained first
    /\ loop = "select" /\ stopped /\ Stored = {}
    /\ loop' = "exited"
    /\ UNCHANGED <<maxEntries, result, age, answer, tick, stopped>>

LoopExits ==
    /\ loop = "select" /\ stopped
    /\ loop' = "exited"
    /\ UNCHANGED <<maxEntries, result, age, answer, tick, stopped>>

CleanupOfLongExpired ==   \* mutant: the clock is read too early
    /\ loop = "cleanup"
    /\ Delete({k \in Stored : age[k] > TTL + 1})
    /\ loop' = "select"
    /\ UNCHANGED <<maxEntries, answer, tick, stopped>>

Cleanup ==
    /\ loop = "cleanup"
    /\ Delete(Expired)
    /\ loop' = "select"
    /\ UNCHANGED <<maxEntries, answer, tick, stopped>>

\* Stop closes the channel.  A second Stop would panic, so callers call it once.
Stop ==
    /\ ~stopped /\ stopped' = TRUE
    /\ UNCHANGED <<maxEntries, result, age, answer, tick, loop>>
-----------------------------------------------------------------------------
Next ==
    \/ \E k \in Keys : Get(k) \/ Invalidate(k) \/ \E r \in Results : Set(k, r)
    \/ Clear \/ TimePasses \/ TickerFires \/ LoopTakesTick \/ LoopExits \/ Cleanup \/ Stop

Spec == Init /\ [][Next]_vars

\* The ticker keeps ticking and the goroutine keeps being run.  A select over two ready
\* channels picks at random, so a closed stopCleanup is not passed over forever.
FairSpec == /\ Spec
            /\ WF_vars(TickerFires) /\ WF_vars(LoopTakesTick) /\ WF_vars(Cleanup)
            /\ SF_vars(LoopExits)
-----------------------------------------------------------------------------
TypeOK ==
    /\ maxEntries \in Int
    /\ result \in [Keys -> Results \cup {None}]
    /\ age \in [Keys -> 0 .. TTL + 1]
    /\ answer \in (Keys \X (Results \cup {None})) \cup {None}
    /\ tick \in BOOLEAN /\ stopped \in BOOLEAN
    /\ loop \in {"select", "cleanup", "exited"}
    /\ \A k \in Keys \ Stored : age[k] = 0

\* However many Sets interleave with the sweeps, the map never outgrows MaxEntries; a
\* configuration of zero or less still keeps one entry (Set stores after it has evicted).
SizeBounded == Cardinality(Stored) <= IF maxEntries > 0 THEN maxEntries ELSE 1

\* While the cache runs, an expired entry does not stay: it is swept, overwritten or removed
\* (cleanupLoop, cache.go:177-208).
ExpiredAreSwept ==
    \A k \in Keys : k \in Expired ~> (k \notin Expired \/ stopped)

\* Stop ends the cleanup goroutine, even when ticks keep coming.
StopEndsTheLoop == stopped ~> loop = "exited"

\* Readers see an exact map with a time to live, whatever the sweeper does and however late
\* it does it: an eviction costs a live entry only when all the entries are live.
Store == INSTANCE TTLStore WITH
    capacity <- maxEntries,
    live <- [k \in Keys |-> IF k \in Expired THEN None ELSE result[k]],
    age  <- [k \in Keys |-> IF k \in Expired THEN 0 ELSE age[k]]
IsTTLStore == Store!Spec
=============================================================================
