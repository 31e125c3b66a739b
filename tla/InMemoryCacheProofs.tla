-------------------------- MODULE InMemoryCacheProofs --------------------------
(***************************************************************************)
(* Proofs about InMemoryCache, for every finite set of keys, every TTL,    *)
(* every set of results and every configured limit.                        *)
(***************************************************************************)
EXTENDS InMemoryCache, FiniteSetTheorems, TLAPS

USE TTLAssumption, LimitsAssumption, KeysAssumption, NoneAssumption

\* What StoreAfterRemoving leaves in the map.
LEMMA StoredAfterSet ==
    ASSUME TypeOK, NEW k \in Keys, NEW r \in Results, NEW Evicted \in SUBSET Stored,
           StoreAfterRemoving(k, r, Evicted)
    PROVE  /\ TypeOK'
           /\ Stored' = (Stored \ Evicted) \cup {k}
           /\ maxEntries' = maxEntries
  <1> USE DEF StoreAfterRemoving, background, Without, AgeWithout, TypeOK
  <1>1. result' \in [Keys -> Results \cup {None}] /\ age' \in [Keys -> 0 .. TTL + 1]
    OBVIOUS
  <1>2. r # None
    OBVIOUS
  <1>3. Stored' = (Stored \ Evicted) \cup {k}
    BY <1>2 DEF Stored
  <1>4. \A j \in Keys \ Stored' : age'[j] = 0
    BY <1>3
  <1> QED
    BY <1>1, <1>3, <1>4

\* Deleting entries keeps the types and only shrinks the map.
LEMMA StoredAfterDelete ==
    ASSUME TypeOK, NEW Gone \in SUBSET Keys, Delete(Gone)
    PROVE  /\ result' \in [Keys -> Results \cup {None}] /\ age' \in [Keys -> 0 .. TTL + 1]
           /\ Stored' = Stored \ Gone
           /\ \A j \in Keys \ Stored' : age'[j] = 0
  BY DEF Delete, Without, AgeWithout, TypeOK, Stored

\* The map has a finite number of entries.
LEMMA StoredIsFinite == IsFiniteSet(Stored) /\ Cardinality(Stored) \in Nat
  <1>1. Stored \in SUBSET Keys
    BY DEF Stored
  <1>2. IsFiniteSet(Stored)
    BY <1>1, FS_Subset
  <1> QED
    BY <1>2, FS_CardinalityType

\* A Set removes an entry that is in the map, and only when the map is at its limit.
LEMMA SetCases ==
    ASSUME maxEntries \in Int, NEW k \in Keys, NEW r \in Results, Set(k, r)
    PROVE  \/ /\ StoreAfterRemoving(k, r, {})
              /\ Cardinality(Stored) < maxEntries \/ Stored = {}
           \/ /\ Cardinality(Stored) >= maxEntries
              /\ \E old \in Oldest : StoreAfterRemoving(k, r, {old})
  <1>1. CASE Cardinality(Stored) >= maxEntries /\ Stored # {}
    BY <1>1 DEF Set
  <1>2. CASE ~(Cardinality(Stored) >= maxEntries /\ Stored # {})
    BY <1>2, StoredIsFinite DEF Set
  <1> QED
    BY <1>1, <1>2

\* The types hold of the empty cache.
LEMMA TypeInit == Init => TypeOK
  <1> SUFFICES ASSUME Init PROVE TypeOK
    OBVIOUS
  <1>1. /\ maxEntries \in Int
        /\ tick \in BOOLEAN /\ stopped \in BOOLEAN
        /\ loop \in {"select", "cleanup", "exited"}
    BY DEF Init
  <1>2. /\ result \in [Keys -> Results \cup {None}]
        /\ age \in [Keys -> 0 .. TTL + 1]
        /\ answer \in (Keys \X (Results \cup {None})) \cup {None}
        /\ \A k \in Keys \ Stored : age[k] = 0
    BY DEF Init
  <1> QED
    BY <1>1, <1>2 DEF TypeOK

\* Every step keeps the types.
LEMMA TypeStep == TypeOK /\ [Next]_vars => TypeOK'
  <1> SUFFICES ASSUME TypeOK, [Next]_vars PROVE TypeOK'
    OBVIOUS
  <1> USE DEF background
  <1>1. ASSUME NEW k \in Keys, Get(k) PROVE TypeOK'
    BY <1>1 DEF Get, TypeOK, Stored
  <1>2. ASSUME NEW k \in Keys, Invalidate(k) PROVE TypeOK'
    BY <1>2, StoredAfterDelete DEF Invalidate, TypeOK
  <1>3. ASSUME NEW k \in Keys, NEW r \in Results, Set(k, r) PROVE TypeOK'
    BY <1>3, SetCases, StoredAfterSet DEF Oldest, TypeOK
  <1>4. CASE Clear
    BY <1>4, StoredAfterDelete DEF Clear, TypeOK
  <1>5. CASE TimePasses
    BY <1>5 DEF TimePasses, TypeOK, Stored
  <1>6. CASE Cleanup
    BY <1>6, StoredAfterDelete DEF Cleanup, TypeOK, Expired, Stored
  <1>7. CASE TickerFires \/ LoopTakesTick \/ LoopExits \/ Stop \/ UNCHANGED vars
    BY <1>7 DEF TickerFires, LoopTakesTick, LoopExits, Stop, vars, TypeOK, Stored
  <1> QED
    BY <1>1, <1>2, <1>3, <1>4, <1>5, <1>6, <1>7 DEF Next

\* Every variable keeps its type, and a key that is not in the map has no timestamp.
THEOREM TypeCorrect == Spec => []TypeOK
  BY TypeInit, TypeStep, PTL DEF Spec
-----------------------------------------------------------------------------
\* The empty cache is within its size.
LEMMA SizeInit == Init => SizeBounded
  <1> SUFFICES ASSUME Init PROVE SizeBounded
    OBVIOUS
  <1>1. Stored = {} /\ maxEntries \in Int
    BY DEF Init, Stored
  <1> QED
    BY <1>1, FS_EmptySet DEF SizeBounded

\* An action that adds no entry keeps the bound.
LEMMA SizeShrinks ==
    ASSUME SizeBounded, maxEntries \in Int, maxEntries' = maxEntries, Stored' \subseteq Stored
    PROVE  SizeBounded'
  <1>1. Cardinality(Stored') <= Cardinality(Stored) /\ Cardinality(Stored') \in Nat
    BY StoredIsFinite, FS_Subset, FS_CardinalityType
  <1> QED
    BY <1>1, StoredIsFinite DEF SizeBounded

\* Every step keeps the map within its size.
LEMMA SizeStep == TypeOK /\ SizeBounded /\ [Next]_vars => SizeBounded'
  <1> SUFFICES ASSUME TypeOK, SizeBounded, [Next]_vars PROVE SizeBounded'
    OBVIOUS
  <1> USE DEF background
  <1>t. maxEntries \in Int
    BY DEF TypeOK
  <1>1. ASSUME NEW k \in Keys, NEW r \in Results, Set(k, r) PROVE SizeBounded'
    <2>1. CASE StoreAfterRemoving(k, r, {}) /\ (Cardinality(Stored) < maxEntries \/ Stored = {})
      <3>1. Stored' = Stored \cup {k} /\ maxEntries' = maxEntries
        BY <2>1, StoredAfterSet
      <3>2. Cardinality(Stored') <= Cardinality(Stored) + 1
        <4>1. Cardinality(Stored \cup {k}) = IF k \in Stored THEN Cardinality(Stored)
                                                             ELSE Cardinality(Stored) + 1
          BY StoredIsFinite, FS_AddElement
        <4> QED
          BY <3>1, <4>1, StoredIsFinite
      <3>3. Stored = {} => Cardinality(Stored) = 0
        BY FS_EmptySet
      <3>4. Cardinality(Stored') \in Nat
        BY <3>1, StoredIsFinite, FS_AddElement, FS_CardinalityType
      <3> QED
        BY <2>1, <3>1, <3>2, <3>3, <3>4, <1>t, StoredIsFinite DEF SizeBounded
    <2>2. ASSUME NEW old \in Oldest, StoreAfterRemoving(k, r, {old}) PROVE SizeBounded'
      <3> DEFINE Rest == Stored \ {old}
      <3>1. old \in Stored
        BY DEF Oldest
      <3>2. Stored' = Rest \cup {k} /\ maxEntries' = maxEntries
        BY <2>2, <3>1, StoredAfterSet
      <3>3. IsFiniteSet(Rest) /\ Cardinality(Rest) = Cardinality(Stored) - 1
        BY <3>1, StoredIsFinite, FS_RemoveElement
      <3>4. Cardinality(Stored') <= Cardinality(Stored) /\ Cardinality(Stored') \in Nat
        <4> HIDE DEF Rest
        <4>1. /\ IsFiniteSet(Rest \cup {k})
              /\ Cardinality(Rest \cup {k}) = IF k \in Rest THEN Cardinality(Rest)
                                                           ELSE Cardinality(Rest) + 1
          BY <3>3, FS_AddElement
        <4>2. Cardinality(Rest \cup {k}) \in Nat
          BY <4>1, FS_CardinalityType
        <4> QED
          BY <3>2, <3>3, <4>1, <4>2, StoredIsFinite
      <3> QED
        BY <3>2, <3>4, <1>t, StoredIsFinite DEF SizeBounded
    <2> QED
      BY <1>1, <1>t, <2>1, <2>2, SetCases
  <1>2. ASSUME NEW k \in Keys, Get(k) PROVE SizeBounded'
    BY <1>2, <1>t, SizeShrinks DEF Get, Stored
  <1>3. ASSUME NEW k \in Keys, Invalidate(k) PROVE SizeBounded'
    BY <1>3, <1>t, SizeShrinks, StoredAfterDelete DEF Invalidate
  <1>4. CASE Clear
    BY <1>4, <1>t, SizeShrinks, StoredAfterDelete DEF Clear
  <1>5. CASE Cleanup
    BY <1>5, <1>t, SizeShrinks, StoredAfterDelete DEF Cleanup, Expired, Stored
  <1>6. CASE TimePasses \/ TickerFires \/ LoopTakesTick \/ LoopExits \/ Stop \/ UNCHANGED vars
    BY <1>6, <1>t, SizeShrinks
       DEF TimePasses, TickerFires, LoopTakesTick, LoopExits, Stop, vars, Stored
  <1> QED
    BY <1>1, <1>2, <1>3, <1>4, <1>5, <1>6 DEF Next

\* No sequence of Sets, sweeps and invalidations makes the map outgrow MaxEntries.
THEOREM SizeBoundedCorrect == Spec => []SizeBounded
  BY TypeInit, TypeStep, SizeInit, SizeStep, PTL DEF Spec
-----------------------------------------------------------------------------
\* What a reader sees of the map: Get shows no expired entry.
Live == [k \in Keys |-> IF k \in Expired THEN None ELSE result[k]]
LiveAge == [k \in Keys |-> IF k \in Expired THEN 0 ELSE age[k]]

\* The empty cache is the empty store.
LEMMA StoreInit == Init => Store!Init
  BY DEF Init, Store!Init, Expired, Stored

\* The map and the clock readings are unchanged for readers, so the store stutters.
LEMMA StoreStutters ==
    ASSUME UNCHANGED <<maxEntries, answer>>, Live' = Live, LiveAge' = LiveAge
    PROVE  UNCHANGED Store!vars
  BY DEF Store!vars, Live, LiveAge

\* What is removed from the map is discarded from the store, but for what had expired.
LEMMA StoreDiscards ==
    ASSUME TypeOK, NEW Gone \in SUBSET Keys, Delete(Gone), UNCHANGED <<maxEntries, answer>>
    PROVE  Store!Discard(Gone)
  <1> USE DEF Delete, Without, AgeWithout, TypeOK, Stored, Expired
  <1>1. Expired' = Expired \ Gone
    OBVIOUS
  <1>2. Live' = [k \in Keys |-> IF k \in Gone THEN None ELSE Live[k]]
    BY <1>1 DEF Live
  <1>3. LiveAge' = [k \in Keys |-> IF k \in Gone THEN 0 ELSE LiveAge[k]]
    BY <1>1 DEF LiveAge
  <1> QED
    BY <1>2, <1>3 DEF Store!Discard, Live, LiveAge

\* A Set that evicts E puts r under k and, for readers, drops E.
LEMMA StorePuts ==
    ASSUME TypeOK, NEW k \in Keys, NEW r \in Results, NEW E \in SUBSET Stored,
           StoreAfterRemoving(k, r, E)
    PROVE  /\ Store!PutDropping(k, r, E)
           /\ E \subseteq Expired => Store!PutDropping(k, r, {})
  <1> USE DEF StoreAfterRemoving, Without, AgeWithout, TypeOK
  <1>1. Expired' = (Expired \ E) \ {k}
    <2>1. Stored' = (Stored \ E) \cup {k} /\ age'[k] = 0
      BY StoredAfterSet
    <2>2. \A j \in (Stored \ E) \ {k} : age'[j] = age[j]
      BY DEF Stored
    <2>3. k \notin Expired'
      BY <2>1 DEF Expired
    <2> QED
      BY <2>1, <2>2, <2>3 DEF Expired
  <1>2. Live' = [j \in Keys |-> IF j = k THEN r ELSE IF j \in E THEN None ELSE Live[j]]
    BY <1>1 DEF Live
  <1>3. LiveAge' = [j \in Keys |-> IF j \in E \cup {k} THEN 0 ELSE LiveAge[j]]
    BY <1>1 DEF LiveAge
  <1>4. \A j \in Expired : Live[j] = None /\ LiveAge[j] = 0
    BY DEF Live, LiveAge, Expired, Stored
  <1>5. ASSUME E \subseteq Expired
        PROVE  /\ Live' = [j \in Keys |-> IF j = k THEN r ELSE IF j \in {} THEN None ELSE Live[j]]
               /\ LiveAge' = [j \in Keys |-> IF j \in {} \cup {k} THEN 0 ELSE LiveAge[j]]
    BY <1>2, <1>3, <1>4, <1>5 DEF Live, LiveAge
  <1>6. UNCHANGED <<maxEntries, answer>>
    OBVIOUS
  <1>7. Store!PutDropping(k, r, E)
    BY <1>2, <1>3, <1>6 DEF Store!PutDropping, Live, LiveAge
  <1>8. E \subseteq Expired => Store!PutDropping(k, r, {})
    BY <1>5, <1>6 DEF Store!PutDropping, Live, LiveAge
  <1> QED
    BY <1>7, <1>8

\* The store's notion of cardinality, which its instance brings along, is the cache's.
LEMMA SameCardinality == \A S : Store!Cardinality(S) = Cardinality(S)
  BY DEF Cardinality, Store!Cardinality

\* The entries of the store are the live entries of the map.
LEMMA StoreHolds == TypeOK => Store!Held = Stored \ Expired
  BY DEF Store!Held, TypeOK, Stored, Expired

\* Evicting a live entry means that every entry is live: it is the oldest.
LEMMA EvictionIsNeeded ==
    ASSUME TypeOK, NEW old \in Oldest, old \notin Expired
    PROVE  Store!Held = Stored /\ old \in Store!Oldest
  <1> USE DEF TypeOK
  <1>1. old \in Stored /\ age[old] <= TTL /\ \A j \in Stored : age[j] <= age[old]
    BY DEF Oldest, Expired, Stored
  <1>2. Expired = {}
    BY <1>1 DEF Expired, Stored
  <1>3. Store!Held = Stored
    BY <1>2, StoreHolds
  <1> QED
    BY <1>1, <1>2, <1>3 DEF Store!Oldest, Stored

\* A Set is a Put of the store.
LEMMA StoreSets ==
    ASSUME TypeOK, NEW k \in Keys, NEW r \in Results, Set(k, r)
    PROVE  Store!Put(k, r)
  <1>t. maxEntries \in Int
    BY DEF TypeOK
  <1>1. CASE StoreAfterRemoving(k, r, {})
    BY <1>1, StorePuts DEF Store!Put
  <1>2. ASSUME Cardinality(Stored) >= maxEntries, NEW old \in Oldest,
               StoreAfterRemoving(k, r, {old})
        PROVE  Store!Put(k, r)
    <2>0. {old} \in SUBSET Stored
      BY DEF Oldest
    <2>1. CASE old \in Expired
      <3>1. Store!PutDropping(k, r, {})
        BY <1>2, <2>0, <2>1, StorePuts
      <3> QED
        BY <3>1 DEF Store!Put
    <2>2. CASE old \notin Expired
      <3>1. Store!PutDropping(k, r, {old})
        BY <1>2, <2>0, StorePuts
      <3>2. Cardinality(Store!Held) >= maxEntries /\ old \in Store!Oldest
        BY <1>2, <2>2, EvictionIsNeeded
      <3> QED
        BY <3>1, <3>2, SameCardinality DEF Store!Put
    <2> QED
      BY <2>1, <2>2
  <1> QED
    BY <1>1, <1>2, <1>t, SetCases

\* The passing of time is that of the store.
LEMMA StoreTicks ==
    ASSUME TypeOK, TimePasses
    PROVE  Store!Tick
  <1> USE DEF TypeOK, TimePasses
  <1>1. Stored' = Stored
    BY DEF Stored
  <1>2. Expired' = Expired \cup {k \in Stored \ Expired : age[k] = TTL}
    BY <1>1 DEF Expired, Stored
  <1> DEFINE Expiring == {k \in Stored \ Expired : LiveAge[k] = TTL}
  <1>3. Expiring = {k \in Stored \ Expired : age[k] = TTL}
    BY DEF LiveAge, Stored
  <1>4. Live' = [k \in Keys |-> IF k \in Expiring THEN None ELSE Live[k]]
    BY <1>2, <1>3 DEF Live
  <1>5. LiveAge' = [k \in Keys |-> IF k \in (Stored \ Expired) \ Expiring
                                  THEN LiveAge[k] + 1 ELSE 0]
    BY <1>2, <1>3 DEF LiveAge, Stored, Expired
  <1> QED
    BY <1>4, <1>5, StoreHolds DEF Store!Tick, Live, LiveAge

\* Every step of the cache is one of the store, or changes nothing of it.
LEMMA StoreStep == TypeOK /\ [Next]_vars => [Store!Next]_Store!vars
  <1> SUFFICES ASSUME TypeOK, [Next]_vars PROVE [Store!Next]_Store!vars
    OBVIOUS
  <1> USE DEF background
  <1>1. ASSUME NEW k \in Keys, Get(k) PROVE Store!Next
    <2>1. Store!Get(k)
      BY <1>1 DEF Get, Store!Get, Expired, Stored
    <2> QED
      BY <2>1 DEF Store!Next
  <1>2. ASSUME NEW k \in Keys, Invalidate(k) PROVE Store!Next
    BY <1>2, StoreDiscards DEF Invalidate, Store!Next
  <1>3. ASSUME NEW k \in Keys, NEW r \in Results, Set(k, r) PROVE Store!Next
    BY <1>3, StoreSets DEF Store!Next
  <1>4. CASE Clear
    BY <1>4, StoreDiscards DEF Clear, Store!Next
  <1>5. CASE TimePasses
    BY <1>5, StoreTicks DEF Store!Next
  <1>6. CASE Cleanup
    <2>1. Expired' = {}
      BY <1>6 DEF Cleanup, Delete, Without, AgeWithout, Expired, Stored, TypeOK
    <2>2. Live' = Live /\ LiveAge' = LiveAge
      BY <1>6, <2>1 DEF Cleanup, Delete, Without, AgeWithout, Live, LiveAge, TypeOK
    <2> QED
      BY <1>6, <2>2, StoreStutters DEF Cleanup
  <1>7. CASE TickerFires \/ LoopTakesTick \/ LoopExits \/ Stop \/ UNCHANGED vars
    <2>1. UNCHANGED <<maxEntries, result, age, answer>>
      BY <1>7 DEF TickerFires, LoopTakesTick, LoopExits, Stop, vars
    <2> QED
      BY <2>1, StoreStutters DEF Live, LiveAge, Expired, Stored
  <1> QED
    BY <1>1, <1>2, <1>3, <1>4, <1>5, <1>6, <1>7 DEF Next

\* The cache implements the exact map with a time to live: the sweeper changes nothing a
\* reader sees, and a Set drops a live entry only when every entry is live.
THEOREM IsTTLStoreCorrect == Spec => IsTTLStore
  BY TypeInit, TypeStep, StoreInit, StoreStep, PTL DEF Spec, IsTTLStore, Store!Spec
=============================================================================
