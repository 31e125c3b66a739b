--------------------------- MODULE BatchFormatProofs ---------------------------
(***************************************************************************)
(* Proofs about BatchFormat, for every number of requests, every limit     *)
(* and every set of requests that hang.                                    *)
(***************************************************************************)
EXTENDS BatchFormat, FiniteSetTheorems, WellFoundedInduction, SequenceTheorems, TLAPS

USE NumRequestsAssumption, CasesAssumption, NoneAssumption DEF Requests, APIs

States == {"unborn", "acquire", "execute", "report", "release", "finish", "done"}

\* States from which a worker has still to give back its slot, or to call wg.Done, and those
\* in which its Execute has returned, or BatchFormat has stored its answer.
HoldsSlot  == {"execute", "report", "release"}
Registered == {"acquire", "execute", "report", "release", "finish"}
Executed   == {"report", "release", "finish", "done"}
Reported   == {"release", "finish", "done"}

Workers(S) == {i \in Requests : worker[i] \in S}

\* Requests whose answer the caller of ExecuteBatch has taken from the channel.
Filed == {i \in Requests : worker[i] = "done" /\ \A k \in DOMAIN chan : chan[k] # i}
-----------------------------------------------------------------------------
(* The inductive invariant.  The counters of the semaphore and of the wait *)
(* group, and the number of answers received, are each the number of the   *)
(* workers in certain states.                                              *)

TypeInv ==
    /\ api \in APIs /\ maxConcurrent \in Int /\ stuck \subseteq Requests
    /\ main \in {"spawn", "wait", "returned"}
    /\ started \in 0 .. NumRequests /\ received \in 0 .. NumRequests
    /\ worker \in [Requests -> States]
    /\ outcome \in [Requests -> {"ok", "error", None}]
    /\ chan \in Seq(Requests) /\ failures \in Seq(Requests)
    /\ results \in [Requests -> BOOLEAN] /\ errors \in [Requests -> BOOLEAN]
    /\ firstErr \in Requests \cup {None}

WorkersInv ==
    /\ \A i \in Requests : worker[i] = "unborn" <=> i > started
    /\ main # "spawn" => started = NumRequests
    /\ \A i \in Requests : outcome[i] # None <=> worker[i] \in Executed

CountInv ==
    IF api = "BatchFormat"
    THEN /\ sem = Cardinality(Workers(HoldsSlot)) /\ sem <= Limit(maxConcurrent)
         /\ pending = Cardinality(Workers(Registered))
    ELSE /\ sem = 0 /\ pending = 0
         /\ \A i \in Requests : worker[i] \in {"unborn", "execute", "report", "done"}

StoreInv ==
    api = "BatchFormat" =>
        /\ \A i \in Workers(Reported) :
              /\ results[i] <=> outcome[i] = "ok"
              /\ outcome[i] = "error" => \E k \in DOMAIN failures : failures[k] = i
        /\ \A k \in DOMAIN failures : outcome[failures[k]] = "error"
        /\ firstErr = IF failures = <<>> THEN None ELSE Head(failures)
        /\ main = "returned" => \A i \in Requests : worker[i] = "done"

CollectInv ==
    api = "ExecuteBatch" =>
        /\ \A k \in DOMAIN chan : worker[chan[k]] = "done"
        /\ \A k, l \in DOMAIN chan : chan[k] = chan[l] => k = l
        /\ received = Cardinality(Filed)
        /\ \A i \in Filed : (results[i] <=> outcome[i] = "ok") /\ (errors[i] <=> outcome[i] = "error")
        /\ \A i \in Requests \ Filed : ~errors[i]
        /\ main # "returned" => firstErr = None
        /\ main = "returned" =>
              /\ Filed = Requests
              /\ firstErr = IF \E i \in Requests : errors[i]
                            THEN Min({i \in Requests : errors[i]}) ELSE None

IInv == TypeInv /\ WorkersInv /\ CountInv /\ StoreInv /\ CollectInv
-----------------------------------------------------------------------------
\* The least of some indices is one of them: of the sets of those up to a given one, some set
\* has no strict subset among them.
LEMMA MinOfInterval ==
    ASSUME NEW n \in Nat, NEW S \in SUBSET (1 .. n), S # {} PROVE Min(S) \in S
  <1> DEFINE UpTo(x) == {y \in S : y <= x}
             Sets == {UpTo(x) : x \in S}
  <1>1. IsWellFoundedOn(StrictSubsetOrdering(1 .. n), FiniteSubsetsOf(1 .. n))
    BY FS_StrictSubsetOrderingWellFounded
  <1>2. Sets \subseteq FiniteSubsetsOf(1 .. n) /\ Sets # {}
    <2>1. \A x \in S : UpTo(x) \in SUBSET (1 .. n)
      OBVIOUS
    <2> HIDE DEF UpTo
    <2>2. \A x \in S : UpTo(x) \in FiniteSubsetsOf(1 .. n)
      <3>1. IsFiniteSet(1 .. n)
        BY FS_Interval
      <3>2. \A T \in SUBSET (1 .. n) : IsFiniteSet(T)
        BY <3>1, FS_Subset
      <3> QED
        BY <2>1, <3>2 DEF FiniteSubsetsOf
    <2> QED
      BY <2>2
  <1>3. \E T \in Sets : \A U \in Sets : <<U, T>> \notin StrictSubsetOrdering(1 .. n)
    <2> HIDE DEF Sets
    <2> QED
      BY <1>1, <1>2, WFMin
  <1>4. PICK x \in S : \A y \in S : <<UpTo(y), UpTo(x)>> \notin StrictSubsetOrdering(1 .. n)
    BY <1>3
  <1>5. ASSUME NEW y \in S, y < x PROVE FALSE
    <2>1. x \in Int /\ y \in Int /\ x <= x /\ ~(x <= y) /\ \A z \in S : z <= y => z <= x
      <3>1. x \in Int /\ y \in Int /\ \A z \in S : z \in Int
        OBVIOUS
      <3> QED
        BY <1>5, <3>1
    <2>2. UpTo(y) \subseteq UpTo(x) /\ x \in UpTo(x) /\ x \notin UpTo(y)
      BY <2>1, Zenon
    <2>3. UpTo(y) \in SUBSET (1 .. n) /\ UpTo(x) \in SUBSET (1 .. n)
      OBVIOUS
    <2>4. <<UpTo(y), UpTo(x)>> \in StrictSubsetOrdering(1 .. n)
      <3> HIDE DEF UpTo
      <3> QED
        BY <2>2, <2>3 DEF StrictSubsetOrdering
    <2> QED
      BY <1>4, <2>4
  <1>6. \A y \in S : x <= y
    <2>1. x \in Int /\ \A y \in S : y \in Int
      OBVIOUS
    <2> QED
      BY <1>5, <2>1
  <1> QED
    BY <1>6 DEF Min

\* Sets of requests are finite, and the only one with as many as there are is all of them.
LEMMA RequestsAreFinite ==
    /\ IsFiniteSet(Requests) /\ Cardinality(Requests) = NumRequests
    /\ \A S \in SUBSET Requests :
          IsFiniteSet(S) /\ Cardinality(S) \in 0 .. NumRequests
          /\ (Cardinality(S) = NumRequests => S = Requests)
  <1>1. IsFiniteSet(Requests) /\ Cardinality(Requests) = NumRequests
    BY FS_Interval
  <1>2. ASSUME NEW S \in SUBSET Requests
        PROVE  IsFiniteSet(S) /\ Cardinality(S) \in 0 .. NumRequests
               /\ (Cardinality(S) = NumRequests => S = Requests)
    <2>1. IsFiniteSet(S) /\ Cardinality(S) <= NumRequests
          /\ (NumRequests = Cardinality(S) => Requests = S)
      BY <1>1, FS_Subset, ZenonT(40)
    <2>2. Cardinality(S) \in Nat
      BY <2>1, FS_CardinalityType
    <2> QED
      BY <2>1, <2>2
  <1> QED
    BY <1>1, <1>2

\* A worker that moves is counted where it comes to and no longer where it comes from.
LEMMA CountMoves ==
    ASSUME TypeInv, NEW i \in Requests, NEW from \in States, NEW to \in States, NEW S,
           Moves(i, from, to)
    PROVE  /\ worker' \in [Requests -> States]
           /\ Cardinality(Workers(S))' =
                 IF (from \in S) = (to \in S) THEN Cardinality(Workers(S))
                 ELSE IF to \in S THEN Cardinality(Workers(S)) + 1
                 ELSE Cardinality(Workers(S)) - 1
  <1>1. /\ worker[i] = from /\ worker' = [worker EXCEPT ![i] = to]
        /\ worker' \in [Requests -> States]
    BY DEF Moves, TypeInv
  <1>2. IsFiniteSet(Workers(S))
    BY RequestsAreFinite DEF Workers
  <1>3. CASE (from \in S) = (to \in S)
    <2>1. Workers(S)' = Workers(S)
      BY <1>1, <1>3 DEF Workers, TypeInv
    <2> QED
      BY <1>1, <1>3, <2>1
  <1>4. CASE from \notin S /\ to \in S
    <2>1. Workers(S)' = Workers(S) \cup {i} /\ i \notin Workers(S)
      BY <1>1, <1>4 DEF Workers, TypeInv
    <2> QED
      BY <1>1, <1>2, <1>4, <2>1, FS_AddElement
  <1>5. CASE from \in S /\ to \notin S
    <2>1. Workers(S)' = Workers(S) \ {i} /\ i \in Workers(S)
      BY <1>1, <1>5 DEF Workers, TypeInv
    <2> QED
      BY <1>1, <1>2, <1>5, <2>1, FS_RemoveElement
  <1> QED
    BY <1>3, <1>4, <1>5
-----------------------------------------------------------------------------
\* The invariant holds before the first goroutine is started.
LEMMA InitInv == Init => IInv
  <1> SUFFICES ASSUME Init PROVE IInv
    OBVIOUS
  <1> USE DEF Init
  <1>1. TypeInv
    BY EmptySeq DEF TypeInv, States
  <1>2. WorkersInv
    BY DEF WorkersInv, Executed
  <1>3. CountInv
    <2>1. Workers(HoldsSlot) = {} /\ Workers(Registered) = {}
      BY DEF Workers, HoldsSlot, Registered
    <2>2. Cardinality({}) = 0
      BY FS_EmptySet
    <2>3. maxConcurrent \in Int /\ 0 <= Limit(maxConcurrent)
      BY DEF Limit
    <2> QED
      BY <2>1, <2>2, <2>3 DEF CountInv
  <1>4. StoreInv
    BY DEF StoreInv, Workers, Reported
  <1>5. CollectInv
    <2>1. Filed = {}
      BY DEF Filed
    <2> QED
      BY <2>1, FS_EmptySet DEF CollectInv
  <1> QED
    BY <1>1, <1>2, <1>3, <1>4, <1>5 DEF IInv

\* Every step keeps the types, and what started and outcome say of a worker's state.
LEMMA TypeStep == IInv /\ [Next]_vars => TypeInv' /\ WorkersInv'
  <1> SUFFICES ASSUME IInv, [Next]_vars PROVE TypeInv' /\ WorkersInv'
    OBVIOUS
  <1> USE DEF IInv, TypeInv, WorkersInv, States, Executed, given, answers, Moves
  <1>1. CASE UNCHANGED vars
    BY <1>1 DEF vars
  <1>2. CASE Spawn
    BY <1>2 DEF Spawn
  <1>3. CASE SpawnedAll
    BY <1>3 DEF SpawnedAll
  <1>4. CASE WaitForAll
    BY <1>4 DEF WaitForAll
  <1>5. CASE Collect
    BY <1>5, HeadTailProperties DEF Collect
  <1>6. CASE CollectedAll
    <2> DEFINE Errors == {i \in Requests : errors[i]}
    <2>1. Errors # {} => Min(Errors) \in Requests
      <3>1. Errors \in SUBSET Requests
        OBVIOUS
      <3> HIDE DEF Errors
      <3> QED
        BY <3>1, MinOfInterval
    <2> HIDE DEF Errors
    <2>2. firstErr' \in Requests \cup {None}
      <3>1. firstErr' = IF \E i \in Requests : errors[i] THEN Min(Errors) ELSE None
        BY <1>6 DEF CollectedAll, Errors
      <3>2. (\E i \in Requests : errors[i]) => Errors # {}
        BY DEF Errors
      <3> QED
        BY <2>1, <3>1, <3>2
    <2> QED
      BY <1>6, <2>2 DEF CollectedAll
  <1>7. ASSUME NEW i \in Requests, Acquire(i) PROVE TypeInv' /\ WorkersInv'
    BY <1>7 DEF Acquire
  <1>8. ASSUME NEW i \in Requests, ExecuteReturns(i) PROVE TypeInv' /\ WorkersInv'
    BY <1>8 DEF ExecuteReturns
  <1>9. ASSUME NEW i \in Requests, Store(i) PROVE TypeInv' /\ WorkersInv'
    BY <1>9, AppendProperties DEF Store
  <1>10. ASSUME NEW i \in Requests, Release(i) PROVE TypeInv' /\ WorkersInv'
    BY <1>10 DEF Release
  <1>11. ASSUME NEW i \in Requests, Finish(i) PROVE TypeInv' /\ WorkersInv'
    BY <1>11 DEF Finish
  <1>12. ASSUME NEW i \in Requests, Send(i) PROVE TypeInv' /\ WorkersInv'
    BY <1>12, AppendProperties DEF Send
  <1> QED
    BY <1>1, <1>2, <1>3, <1>4, <1>5, <1>6, <1>7, <1>8, <1>9, <1>10, <1>11, <1>12
    DEF Next, Main, Step

\* The semaphore holds a slot for each worker from the acquisition to the release, and the wait
\* group counts each worker from its start to wg.Done.
LEMMA CountStep == IInv /\ [Next]_vars => CountInv'
  <1> SUFFICES ASSUME IInv, [Next]_vars PROVE CountInv'
    OBVIOUS
  <1>0. /\ TypeInv
        /\ IF api = "BatchFormat"
           THEN /\ sem = Cardinality(Workers(HoldsSlot)) /\ sem <= Limit(maxConcurrent)
                /\ pending = Cardinality(Workers(Registered))
           ELSE /\ sem = 0 /\ pending = 0
                /\ \A i \in Requests : worker[i] \in {"unborn", "execute", "report", "done"}
        /\ Cardinality(Workers(HoldsSlot)) \in Int /\ Cardinality(Workers(Registered)) \in Int
        /\ Limit(maxConcurrent) \in Int
    BY RequestsAreFinite DEF IInv, CountInv, TypeInv, Workers, Limit
  <1>1. ASSUME UNCHANGED <<given, worker, sem, pending>> PROVE CountInv'
    BY <1>0, <1>1 DEF CountInv, Workers, given
  <1>2. ASSUME NEW i \in Requests, NEW from \in States, NEW to \in States, Moves(i, from, to),
               UNCHANGED given,
               CASE api = "BatchFormat" ->
                       /\ sem' = IF (from \in HoldsSlot) = (to \in HoldsSlot) THEN sem
                                 ELSE IF to \in HoldsSlot THEN sem + 1 ELSE sem - 1
                       /\ pending' = IF (from \in Registered) = (to \in Registered) THEN pending
                                     ELSE IF to \in Registered THEN pending + 1 ELSE pending - 1
                       /\ sem' <= Limit(maxConcurrent)
                 [] OTHER -> /\ UNCHANGED <<sem, pending>>
                             /\ to \in {"unborn", "execute", "report", "done"}
        PROVE  CountInv'
    <2>1. CASE api = "BatchFormat"
      <3>1. sem' = Cardinality(Workers(HoldsSlot))'
        BY <1>0, <1>2, <2>1, CountMoves
      <3>2. pending' = Cardinality(Workers(Registered))'
        BY <1>0, <1>2, <2>1, CountMoves
      <3> QED
        BY <1>2, <2>1, <3>1, <3>2 DEF CountInv, given
    <2>2. CASE api # "BatchFormat"
      BY <1>0, <1>2, <2>2 DEF CountInv, given, Moves, TypeInv
    <2> QED
      BY <2>1, <2>2
  <1> USE DEF States, HoldsSlot, Registered
  <1>3. CASE UNCHANGED vars
    BY <1>1, <1>3 DEF vars, given
  <1>4. CASE Spawn
    <2>1. started' \in Requests
      BY <1>0, <1>4 DEF Spawn, TypeInv
    <2>2. CASE api = "BatchFormat"
      BY <1>0, <1>2, <1>4, <2>1, <2>2 DEF Spawn
    <2>3. CASE api # "BatchFormat"
      <3>1. Moves(started', "unborn", "execute") /\ UNCHANGED <<given, sem, pending>>
        BY <1>4, <2>3 DEF Spawn
      <3> QED
        BY <1>2, <2>1, <2>3, <3>1
    <2> QED
      BY <2>2, <2>3
  <1>5. CASE SpawnedAll \/ WaitForAll \/ Collect \/ CollectedAll
    BY <1>1, <1>5 DEF SpawnedAll, WaitForAll, Collect, CollectedAll
  <1>6. ASSUME NEW i \in Requests, Acquire(i) PROVE CountInv'
    <2>1. api = "BatchFormat"
      BY <1>0, <1>6 DEF Acquire, Moves
    <2> QED
      BY <1>0, <1>2, <1>6, <2>1 DEF Acquire
  <1>7. ASSUME NEW i \in Requests, ExecuteReturns(i) PROVE CountInv'
    BY <1>0, <1>2, <1>7 DEF ExecuteReturns
  <1>8. ASSUME NEW i \in Requests, Store(i) PROVE CountInv'
    BY <1>0, <1>2, <1>8 DEF Store
  <1>9. ASSUME NEW i \in Requests, Release(i) PROVE CountInv'
    <2>1. api = "BatchFormat"
      BY <1>0, <1>9 DEF Release, Moves
    <2> QED
      BY <1>0, <1>2, <1>9, <2>1 DEF Release
  <1>10. ASSUME NEW i \in Requests, Finish(i) PROVE CountInv'
    <2>1. api = "BatchFormat"
      BY <1>0, <1>10 DEF Finish, Moves
    <2> QED
      BY <1>0, <1>2, <1>10, <2>1 DEF Finish
  <1>11. ASSUME NEW i \in Requests, Send(i) PROVE CountInv'
    BY <1>0, <1>2, <1>11 DEF Send
  <1> QED
    BY <1>3, <1>4, <1>5, <1>6, <1>7, <1>8, <1>9, <1>10, <1>11 DEF Next, Main, Step

\* While a worker of BatchFormat is not done the wait group is above zero, so that WaitForAll
\* finds every worker done.
LEMMA NobodyRegistered ==
    ASSUME TypeInv, Cardinality(Workers(Registered)) = 0
    PROVE  \A i \in Requests : worker[i] \in {"unborn", "done"}
  <1>1. IsFiniteSet(Workers(Registered))
    BY RequestsAreFinite DEF Workers
  <1>2. Workers(Registered) = {}
    BY <1>1, FS_EmptySet
  <1> QED
    BY <1>2 DEF Workers, Registered, TypeInv, States

\* What BatchFormat stores of an answer stays, and the first failure stays the first.
LEMMA StoreStep == IInv /\ [Next]_vars => StoreInv'
  <1> SUFFICES ASSUME IInv, [Next]_vars, api = "BatchFormat" PROVE StoreInv'
    <2>1. [Next]_vars => api' = api
      BY DEF Next, Main, Step, Spawn, SpawnedAll, WaitForAll, Collect, CollectedAll, Acquire,
             ExecuteReturns, Store, Release, Finish, Send, given, vars
    <2> QED
      BY <2>1 DEF StoreInv
  <1>0. TypeInv /\ StoreInv
    BY DEF IInv
  <1> USE DEF StoreInv, Workers, Reported, TypeInv, States, given, answers, Moves
  <1>1. CASE UNCHANGED vars
    BY <1>0, <1>1 DEF vars
  <1>2. CASE Spawn
    BY <1>0, <1>2 DEF Spawn
  <1>3. CASE SpawnedAll
    BY <1>0, <1>3 DEF SpawnedAll
  <1>4. CASE WaitForAll
    <2>1. \A i \in Requests : worker[i] \in {"unborn", "done"} /\ worker[i] # "unborn"
      BY <1>4, NobodyRegistered DEF WaitForAll, IInv, CountInv, WorkersInv
    <2> QED
      BY <1>0, <1>4, <2>1 DEF WaitForAll
  <1>5. CASE Collect \/ CollectedAll
    BY <1>5 DEF Collect, CollectedAll
  <1>6. ASSUME NEW i \in Requests, Acquire(i) PROVE StoreInv'
    BY <1>0, <1>6 DEF Acquire
  <1>7. ASSUME NEW i \in Requests, ExecuteReturns(i) PROVE StoreInv'
    <2>1. \A k \in DOMAIN failures : failures[k] \in Requests \ {i}
      <3>1. outcome[i] = None
        BY <1>0, <1>7 DEF ExecuteReturns, IInv, WorkersInv, Executed
      <3>2. \A k \in DOMAIN failures : outcome[failures[k]] = "error"
        BY <1>0
      <3>3. \A k \in DOMAIN failures : failures[k] \in Requests
        BY <1>0, ElementOfSeq, LenProperties
      <3> QED
        BY <3>1, <3>2, <3>3
    <2>2. /\ worker' = [worker EXCEPT ![i] = "report"] /\ worker[i] = "execute"
          /\ \A j \in Requests \ {i} : outcome'[j] = outcome[j]
          /\ UNCHANGED <<api, main, results, errors, firstErr, failures>>
      BY <1>0, <1>7 DEF ExecuteReturns
    <2>3. main # "returned"
      BY <1>0, <2>2
    <2>4. \A j \in Workers(Reported)' : j # i /\ j \in Workers(Reported) /\ outcome'[j] = outcome[j]
      BY <1>0, <2>2
    <2>5. \A k \in DOMAIN failures' : outcome'[failures'[k]] = "error"
      BY <1>0, <2>1, <2>2
    <2> QED
      BY <1>0, <2>2, <2>3, <2>4, <2>5
  <1>8. ASSUME NEW i \in Requests, Store(i) PROVE StoreInv'
    <2>1. worker[i] = "report" /\ outcome[i] \in {"ok", "error"} /\ main # "returned"
      BY <1>0, <1>8 DEF Store, IInv, WorkersInv, Executed
    <2>2. /\ api' = api /\ main' = main /\ outcome' = outcome
          /\ worker' = [worker EXCEPT ![i] = "release"]
          /\ results' = [results EXCEPT ![i] = outcome[i] = "ok"]
      BY <1>8 DEF Store
    <2>3. CASE outcome[i] = "ok"
      <3>1. firstErr' = firstErr /\ failures' = failures
        BY <1>8, <2>3 DEF Store
      <3>2. ASSUME NEW j \in Workers(Reported)'
            PROVE  /\ results'[j] <=> outcome'[j] = "ok"
                   /\ outcome'[j] = "error" => \E k \in DOMAIN failures' : failures'[k] = j
        <4>1. CASE j = i
          BY <1>0, <2>2, <2>3, <4>1
        <4>2. CASE j # i
          BY <1>0, <2>2, <3>1, <4>2
        <4> QED
          BY <4>1, <4>2
      <3> QED
        BY <1>0, <2>1, <2>2, <3>1, <3>2
    <2>4. CASE outcome[i] = "error"
      <3>1. failures' = Append(failures, i)
            /\ firstErr' = IF firstErr = None THEN i ELSE firstErr
        BY <1>8, <2>4 DEF Store
      <3>2. /\ failures' # <<>>
            /\ DOMAIN failures' = DOMAIN failures \cup {Len(failures) + 1}
            /\ \A k \in DOMAIN failures : failures'[k] = failures[k]
            /\ failures'[Len(failures) + 1] = i
        <4>1. failures \in Seq(Requests) /\ DOMAIN failures = 1 .. Len(failures)
              /\ Len(failures) \in Nat
          BY <1>0, LenProperties
        <4>2. /\ Append(failures, i) \in Seq(Requests)
              /\ Len(Append(failures, i)) = Len(failures) + 1
              /\ \A k \in 1 .. Len(failures) + 1 :
                    Append(failures, i)[k] = IF k = Len(failures) + 1 THEN i ELSE failures[k]
          BY <4>1, AppendProperties
        <4>3. DOMAIN Append(failures, i) = 1 .. Len(failures) + 1
          BY <4>2, LenProperties
        <4>4. failures' # <<>>
          BY <3>1, <4>1, <4>2, EmptySeq
        <4> QED
          BY <3>1, <4>1, <4>2, <4>3, <4>4
      <3>3. firstErr' = Head(failures')
        BY <1>0, <3>1, <3>2
      <3>4. \A k \in DOMAIN failures' : outcome'[failures'[k]] = "error"
        BY <1>0, <2>2, <2>4, <3>2
      <3>5. ASSUME NEW j \in Workers(Reported)'
            PROVE  /\ results'[j] <=> outcome'[j] = "ok"
                   /\ outcome'[j] = "error" => \E k \in DOMAIN failures' : failures'[k] = j
        <4>1. CASE j = i
          BY <1>0, <2>2, <2>4, <3>2, <4>1, ZenonT(40)
        <4>2. CASE j # i
          BY <1>0, <2>2, <3>2, <4>2
        <4> QED
          BY <4>1, <4>2
      <3> QED
        BY <2>1, <2>2, <3>2, <3>3, <3>4, <3>5
    <2> QED
      BY <2>1, <2>3, <2>4
  <1>9. ASSUME NEW i \in Requests, Release(i) PROVE StoreInv'
    BY <1>0, <1>9 DEF Release
  <1>10. ASSUME NEW i \in Requests, Finish(i) PROVE StoreInv'
    BY <1>0, <1>10 DEF Finish
  <1>11. ASSUME NEW i \in Requests, Send(i) PROVE StoreInv'
    BY <1>11 DEF Send
  <1> QED
    BY <1>1, <1>2, <1>3, <1>4, <1>5, <1>6, <1>7, <1>8, <1>9, <1>10, <1>11 DEF Next, Main, Step
\* The answers in the channel are those of different requests, so that as many answers
\* as requests are the answers of all of them.
LEMMA CollectStep == IInv /\ [Next]_vars => CollectInv'
  <1> SUFFICES ASSUME IInv, [Next]_vars, api = "ExecuteBatch" PROVE CollectInv'
    <2>1. [Next]_vars => api' = api
      BY DEF Next, Main, Step, Spawn, SpawnedAll, WaitForAll, Collect, CollectedAll, Acquire,
             ExecuteReturns, Store, Release, Finish, Send, given, vars
    <2> QED
      BY <2>1 DEF CollectInv
  <1>0. TypeInv /\ WorkersInv /\ CollectInv /\ chan \in Seq(Requests) /\ Len(chan) \in Nat
        /\ DOMAIN chan = 1 .. Len(chan) /\ \A k \in DOMAIN chan : chan[k] \in Requests
        /\ \A j \in Requests : worker[j] \in {"unborn", "execute", "report", "done"}
    BY LenProperties, ElementOfSeq DEF IInv, TypeInv, CountInv
  <1> USE DEF given, answers, Moves
  <1>1. ASSUME UNCHANGED <<given, main, worker, outcome, chan, received, answers>>
        PROVE  CollectInv'
    BY <1>0, <1>1, ZenonT(40) DEF CollectInv, Filed
  <1>2. ASSUME NEW i \in Requests, NEW from \in States \ {"done"}, NEW to \in States \ {"done"},
               Moves(i, from, to), UNCHANGED <<given, main, chan, received, answers>>,
               \A j \in Requests \ {i} : outcome'[j] = outcome[j]
        PROVE  CollectInv'
    <2>1. /\ worker' = [worker EXCEPT ![i] = to] /\ worker[i] # "done"
          /\ worker \in [Requests -> States]
      BY <1>0, <1>2 DEF TypeInv
    <2>2. Filed' = Filed
      BY <1>2, <2>1 DEF Filed
    <2>3. \A k \in DOMAIN chan : worker'[chan[k]] = "done"
      BY <1>0, <2>1 DEF CollectInv
    <2>4. \A j \in Filed : outcome'[j] = outcome[j]
      BY <1>2, <2>1 DEF Filed
    <2>5. /\ \A k, l \in DOMAIN chan : chan[k] = chan[l] => k = l
          /\ received = Cardinality(Filed)
          /\ \A j \in Filed : (results[j] <=> outcome[j] = "ok") /\ (errors[j] <=> outcome[j] = "error")
          /\ \A j \in Requests \ Filed : ~errors[j]
          /\ main # "returned" => firstErr = None
          /\ main = "returned" =>
                /\ Filed = Requests
                /\ firstErr = IF \E j \in Requests : errors[j]
                              THEN Min({j \in Requests : errors[j]}) ELSE None
      BY <1>0 DEF CollectInv
    <2> QED
      BY <1>2, <2>2, <2>3, <2>4, <2>5 DEF CollectInv
  <1>3. CASE UNCHANGED vars
    BY <1>1, <1>3 DEF vars
  <1>4. CASE Spawn
    <2>1. started' \in Requests /\ Moves(started', "unborn", "execute")
      BY <1>0, <1>4 DEF Spawn, TypeInv
    <2> QED
      BY <1>2, <1>4, <2>1 DEF Spawn, States
  <1>5. CASE SpawnedAll
    BY <1>0, <1>5 DEF SpawnedAll, CollectInv, Filed
  <1>6. CASE WaitForAll
    BY <1>6 DEF WaitForAll
  <1>7. CASE Collect
    <2> DEFINE h == Head(chan)
    <2>1. /\ chan # <<>> /\ h \in Requests /\ h = chan[1] /\ 1 \in DOMAIN chan
          /\ DOMAIN chan' = 1 .. Len(chan) - 1
          /\ \A k \in 1 .. Len(chan) - 1 : chan'[k] = chan[k + 1]
      <3>1. chan # <<>> /\ chan' = Tail(chan)
        BY <1>7 DEF Collect
      <3>2. /\ Tail(chan) \in Seq(Requests) /\ Len(Tail(chan)) = Len(chan) - 1
            /\ \A k \in 1 .. Len(Tail(chan)) : Tail(chan)[k] = chan[k + 1]
            /\ h \in Requests
        BY <1>0, <3>1, HeadTailProperties
      <3>3. DOMAIN Tail(chan) = 1 .. Len(Tail(chan))
        BY <3>2, LenProperties
      <3>4. Len(chan) # 0
        BY <1>0, <3>1, EmptySeq
      <3> QED
        BY <1>0, <3>1, <3>2, <3>3, <3>4
    <2>2. /\ worker' = worker /\ outcome' = outcome /\ main' = main /\ main # "returned"
          /\ firstErr' = firstErr
          /\ received' = received + 1
          /\ results' = [results EXCEPT ![h] = outcome[h] = "ok"]
          /\ errors' = [errors EXCEPT ![h] = outcome[h] = "error"]
      BY <1>7 DEF Collect
    <2> HIDE DEF h
    <2>3. /\ \A k \in DOMAIN chan : worker[chan[k]] = "done"
          /\ \A k, l \in DOMAIN chan : chan[k] = chan[l] => k = l
          /\ received = Cardinality(Filed)
          /\ \A j \in Filed : (results[j] <=> outcome[j] = "ok") /\ (errors[j] <=> outcome[j] = "error")
          /\ \A j \in Requests \ Filed : ~errors[j]
          /\ firstErr = None
      BY <1>0, <2>2 DEF CollectInv
    <2>4. /\ \A k \in DOMAIN chan' : worker'[chan'[k]] = "done" /\ chan'[k] # h
          /\ \A k, l \in DOMAIN chan' : chan'[k] = chan'[l] => k = l
      <3>1. \A k \in DOMAIN chan' :
               k \in Int /\ chan'[k] = chan[k + 1] /\ k + 1 \in DOMAIN chan /\ k + 1 # 1
        BY <1>0, <2>1
      <3>2. \A k \in DOMAIN chan' : worker'[chan'[k]] = "done" /\ chan'[k] # h
        BY <2>1, <2>2, <2>3, <3>1
      <3>3. \A k, l \in DOMAIN chan' : chan'[k] = chan'[l] => k = l
        BY <2>3, <3>1
      <3> QED
        BY <3>2, <3>3
    <2>5. Filed' = Filed \cup {h} /\ h \notin Filed
      <3>1. h \in Filed' /\ h \notin Filed
        BY <2>1, <2>2, <2>3, <2>4 DEF Filed
      <3>2. ASSUME NEW j \in Filed PROVE j \in Filed'
        <4>1. \A k \in DOMAIN chan' : chan'[k] = chan[k + 1] /\ k + 1 \in DOMAIN chan
          BY <1>0, <2>1
        <4> QED
          BY <2>2, <3>2, <4>1 DEF Filed
      <3>3. ASSUME NEW j \in Filed', j # h PROVE j \in Filed
        <4>1. ASSUME NEW k \in DOMAIN chan, chan[k] = j PROVE FALSE
          <5>1. k # 1
            BY <2>1, <3>3, <4>1
          <5>2. k - 1 \in DOMAIN chan' /\ chan'[k - 1] = chan[k]
            BY <1>0, <2>1, <5>1
          <5> QED
            BY <3>3, <4>1, <5>2 DEF Filed
        <4> QED
          BY <2>2, <3>3, <4>1 DEF Filed
      <3> QED
        BY <3>1, <3>2, <3>3
    <2>6. received' = Cardinality(Filed')
      <3>1. IsFiniteSet(Filed)
        BY RequestsAreFinite DEF Filed
      <3> QED
        BY <2>2, <2>3, <2>5, <3>1, FS_AddElement
    <2>7. \A j \in Filed' :
             (results'[j] <=> outcome'[j] = "ok") /\ (errors'[j] <=> outcome'[j] = "error")
      <3>1. Filed' \subseteq Requests
        BY DEF Filed
      <3> QED
        BY <1>0, <2>2, <2>3, <2>5, <3>1 DEF TypeInv
    <2>8. \A j \in Requests \ Filed' : ~errors'[j]
      BY <1>0, <2>2, <2>3, <2>5 DEF TypeInv
    <2> QED
      BY <2>2, <2>3, <2>4, <2>6, <2>7, <2>8 DEF CollectInv
  <1>8. CASE CollectedAll
    <2>1. Filed = Requests
      <3>1. Filed \in SUBSET Requests /\ Cardinality(Filed) = NumRequests
        BY <1>0, <1>8 DEF CollectedAll, CollectInv, Filed
      <3> QED
        BY <3>1, RequestsAreFinite
    <2>2. /\ main' = "returned" /\ UNCHANGED <<worker, outcome, chan, received, results, errors>>
          /\ firstErr' = IF \E j \in Requests : errors[j]
                         THEN Min({j \in Requests : errors[j]}) ELSE None
      BY <1>8 DEF CollectedAll
    <2>3. Filed' = Filed
      BY <2>2 DEF Filed
    <2>4. /\ \A k \in DOMAIN chan : worker[chan[k]] = "done"
          /\ \A k, l \in DOMAIN chan : chan[k] = chan[l] => k = l
          /\ received = Cardinality(Filed)
          /\ \A j \in Filed : (results[j] <=> outcome[j] = "ok") /\ (errors[j] <=> outcome[j] = "error")
          /\ \A j \in Requests \ Filed : ~errors[j]
      BY <1>0 DEF CollectInv
    <2> QED
      BY <2>1, <2>2, <2>3, <2>4 DEF CollectInv
  <1>9. ASSUME NEW i \in Requests, Send(i) PROVE CollectInv'
    <2>1. /\ worker[i] = "report" /\ worker' = [worker EXCEPT ![i] = "done"]
          /\ worker \in [Requests -> States] /\ chan' = Append(chan, i)
          /\ UNCHANGED <<given, main, outcome, received, answers>>
      BY <1>0, <1>9 DEF Send, TypeInv
    <2>2. /\ DOMAIN chan' = 1 .. Len(chan) + 1
          /\ \A k \in DOMAIN chan : chan'[k] = chan[k]
          /\ chan'[Len(chan) + 1] = i
      <3>1. /\ Append(chan, i) \in Seq(Requests)
            /\ Len(Append(chan, i)) = Len(chan) + 1
            /\ \A k \in 1 .. Len(chan) + 1 :
                  Append(chan, i)[k] = IF k = Len(chan) + 1 THEN i ELSE chan[k]
        BY <1>0, AppendProperties
      <3>2. DOMAIN Append(chan, i) = 1 .. Len(chan) + 1
        BY <3>1, LenProperties
      <3> QED
        BY <1>0, <2>1, <3>1, <3>2
    <2>3. /\ \A k \in DOMAIN chan : worker[chan[k]] = "done" /\ chan[k] # i
          /\ \A k, l \in DOMAIN chan : chan[k] = chan[l] => k = l
          /\ received = Cardinality(Filed)
          /\ \A j \in Filed : (results[j] <=> outcome[j] = "ok") /\ (errors[j] <=> outcome[j] = "error")
          /\ \A j \in Requests \ Filed : ~errors[j]
          /\ main # "returned" => firstErr = None
          /\ main = "returned" =>
                /\ Filed = Requests
                /\ firstErr = IF \E j \in Requests : errors[j]
                              THEN Min({j \in Requests : errors[j]}) ELSE None
      BY <1>0, <2>1 DEF CollectInv
    <2>4. \A k \in DOMAIN chan' : k = Len(chan) + 1 \/ k \in DOMAIN chan
      BY <1>0, <2>2
    <2>5. \A k \in DOMAIN chan' : worker'[chan'[k]] = "done"
      <3>1. \A j \in Requests : worker[j] = "done" \/ j = i => worker'[j] = "done"
        BY <2>1
      <3> QED
        BY <1>0, <2>2, <2>3, <2>4, <3>1
    <2>6. \A k, l \in DOMAIN chan' : chan'[k] = chan'[l] => k = l
      BY <2>2, <2>3, <2>4
    <2>7. Filed' = Filed
      <3>1. ASSUME NEW j \in Requests, j # i PROVE j \in Filed' <=> j \in Filed
        <4>1. (\A k \in DOMAIN chan' : chan'[k] # j) <=> (\A k \in DOMAIN chan : chan[k] # j)
          BY <1>0, <2>2, <2>4, <3>1
        <4>2. worker'[j] = worker[j]
          BY <2>1, <3>1
        <4> QED
          BY <4>1, <4>2 DEF Filed
      <3>2. i \notin Filed' /\ i \notin Filed
        <4>1. Len(chan) + 1 \in DOMAIN chan'
          BY <1>0, <2>2
        <4> QED
          BY <2>1, <2>2, <4>1 DEF Filed
      <3>3. Filed \subseteq Requests /\ Filed' \subseteq Requests
        BY DEF Filed
      <3>4. \A j \in Requests : j \in Filed' <=> j \in Filed
        BY <3>1, <3>2
      <3> QED
        BY <3>3, <3>4
    <2> QED
      BY <2>1, <2>3, <2>5, <2>6, <2>7 DEF CollectInv
  <1>10. ASSUME NEW i \in Requests, ExecuteReturns(i) PROVE CollectInv'
    <2>1. \A j \in Requests \ {i} : outcome'[j] = outcome[j]
      BY <1>0, <1>10 DEF ExecuteReturns, TypeInv
    <2> QED
      BY <1>2, <1>10, <2>1 DEF ExecuteReturns, States
  <1>11. ASSUME NEW i \in Requests, Acquire(i) \/ Store(i) \/ Release(i) \/ Finish(i)
         PROVE  FALSE
    <2>1. worker[i] \in {"acquire", "release", "finish"} \/ api = "BatchFormat"
      BY <1>11 DEF Acquire, Store, Release, Finish
    <2>2. worker[i] \in {"unborn", "execute", "report", "done"}
      BY DEF IInv, CountInv
    <2> QED
      BY <2>1, <2>2
  <1> QED
    BY <1>3, <1>4, <1>5, <1>6, <1>7, <1>8, <1>9, <1>10, <1>11 DEF Next, Main, Step

\* The counters of both batch calls, and what they have stored, agree with the states of their
\* workers at all times (executor.go:99-139, 230-272).
THEOREM IInvCorrect == Spec => []IInv
  <1>1. IInv /\ [Next]_vars => IInv'
    BY TypeStep, CountStep, StoreStep, CollectStep DEF IInv
  <1> QED
    BY InitInv, <1>1, PTL DEF Spec
-----------------------------------------------------------------------------
\* Whatever is called with whatever limit, the counters of the semaphore, of the wait group
\* and of the answers stay within the number of requests.
THEOREM TypeCorrect == Spec => []TypeOK
  <1>1. IInv => TypeOK
    <2> SUFFICES ASSUME IInv PROVE TypeOK
      OBVIOUS
    <2>1. sem \in 0 .. NumRequests /\ pending \in 0 .. NumRequests
      <3>1. /\ Cardinality(Workers(HoldsSlot)) \in 0 .. NumRequests
            /\ Cardinality(Workers(Registered)) \in 0 .. NumRequests
        BY RequestsAreFinite DEF Workers
      <3> QED
        BY <3>1 DEF IInv, CountInv
    <2> QED
      BY <2>1 DEF IInv, TypeInv, States, TypeOK
  <1> QED
    BY IInvCorrect, <1>1, PTL

\* For every limit, given or defaulted: each worker inside Execute holds a slot of the semaphore,
\* and the slots taken are at most the limit (executor.go:249-257).
THEOREM ExecutesWithinLimitCorrect == Spec => []ExecutesWithinLimit
  <1>1. IInv => ExecutesWithinLimit
    <2> SUFFICES ASSUME IInv, api = "BatchFormat"
                 PROVE  Cardinality({i \in Requests : worker[i] = "execute"})
                           <= Limit(maxConcurrent)
      BY DEF ExecutesWithinLimit
    <2> DEFINE Executing == {i \in Requests : worker[i] = "execute"}
    <2>1. Executing \subseteq Workers(HoldsSlot)
      BY DEF Workers, HoldsSlot
    <2>2. IsFiniteSet(Workers(HoldsSlot)) /\ Workers(HoldsSlot) \subseteq Requests
      BY RequestsAreFinite DEF Workers
    <2>3. /\ Cardinality(Executing) \in Nat /\ Cardinality(Workers(HoldsSlot)) \in Nat
          /\ Cardinality(Executing) <= Cardinality(Workers(HoldsSlot))
      BY <2>1, <2>2, FS_Subset, FS_CardinalityType
    <2>4. Cardinality(Workers(HoldsSlot)) <= Limit(maxConcurrent)
      BY DEF IInv, CountInv
    <2>5. Limit(maxConcurrent) \in Int
      BY DEF Limit, IInv, TypeInv
    <2> HIDE DEF Executing
    <2>6. Cardinality(Executing) <= Limit(maxConcurrent)
      BY <2>3, <2>4, <2>5
    <2> QED
      BY <2>6 DEF Executing
  <1> QED
    BY IInvCorrect, <1>1, PTL

\* For every number of requests and every order in which their goroutines run: a batch that has
\* returned has the answer of each request at its place and the right one of the errors.
THEOREM ReportsEveryRequestCorrect == Spec => []ReportsEveryRequest
  <1>1. IInv => ReportsEveryRequest
    <2> SUFFICES ASSUME IInv, main = "returned" PROVE ReportsEveryRequest
      BY DEF ReportsEveryRequest
    <2>1. \A i \in Requests : outcome[i] \in {"ok", "error", None}
      BY DEF IInv, TypeInv
    <2>2. CASE api = "BatchFormat"
      <3>1. \A i \in Requests : worker[i] = "done"
        BY <2>2 DEF IInv, StoreInv
      <3>2. /\ \A i \in Requests : (results[i] <=> outcome[i] = "ok")
            /\ \A i \in Requests :
                  outcome[i] = "error" => \E k \in DOMAIN failures : failures[k] = i
            /\ \A k \in DOMAIN failures : outcome[failures[k]] = "error"
            /\ firstErr = IF failures = <<>> THEN None ELSE Head(failures)
        BY <2>2, <3>1 DEF IInv, StoreInv, Workers, Reported
      <3>3. \A i \in Requests : outcome[i] # None
        BY <3>1 DEF IInv, WorkersInv, Executed
      <3>4. (\A i \in Requests : outcome[i] = "ok") <=> failures = <<>>
        <4>1. failures \in Seq(Requests)
          BY DEF IInv, TypeInv
        <4>2. CASE failures = <<>>
          <5>1. \A k \in DOMAIN failures : FALSE
            BY <4>2
          <5> QED
            BY <2>1, <3>2, <3>3, <4>2, <5>1
        <4>3. CASE failures # <<>>
          <5>1. 1 \in DOMAIN failures /\ failures[1] \in Requests
            BY <4>1, <4>3, EmptySeq, LenProperties, ElementOfSeq
          <5> QED
            BY <3>2, <4>3, <5>1
        <4> QED
          BY <4>2, <4>3
      <3> QED
        BY <2>2, <3>2, <3>3, <3>4 DEF ReportsEveryRequest
    <2>3. CASE api = "ExecuteBatch"
      <3>1. /\ Filed = Requests
            /\ \A i \in Requests : (results[i] <=> outcome[i] = "ok")
                                   /\ (errors[i] <=> outcome[i] = "error")
            /\ firstErr = IF \E i \in Requests : errors[i]
                          THEN Min({i \in Requests : errors[i]}) ELSE None
        BY <2>3 DEF IInv, CollectInv
      <3>2. \A i \in Requests : outcome[i] # None
        BY <3>1 DEF Filed, IInv, WorkersInv, Executed
      <3>3. {i \in Requests : errors[i]} = {i \in Requests : outcome[i] = "error"}
        BY <3>1
      <3>4. (\E i \in Requests : errors[i]) <=> ~(\A i \in Requests : outcome[i] = "ok")
        BY <2>1, <3>1, <3>2
      <3> QED
        BY <2>3, <3>1, <3>2, <3>3, <3>4 DEF ReportsEveryRequest
    <2> QED
      BY <2>2, <2>3 DEF IInv, TypeInv
  <1> QED
    BY IInvCorrect, <1>1, PTL
=============================================================================
