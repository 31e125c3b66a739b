--------------------------- MODULE HealthChecksProofs ---------------------------
(***************************************************************************)
(* Proofs about HealthChecks, for every number of formatters, monitors,    *)
(* lookups and writers, and every set of checks that hang.                 *)
(***************************************************************************)
EXTENDS HealthChecks, FiniteSetTheorems, TLAPS

USE LimitAssumption, HangingAssumption, NoneAssumption, ActorsAssumption DEF Readers, Verdicts

CheckStates == {"none", "waits", "checks", "checked", "stored", "done"}

\* The checks of a monitor that hold a slot of its semaphore.
Slot == {"checks", "checked", "stored"}
Holders(m) == {f \in Formatters : check[m][f] \in Slot}
-----------------------------------------------------------------------------
(* The inductive invariant. *)

TypeInv ==
    /\ registered \subseteq Formatters /\ hanging \in HangingSets
    /\ inside \subseteq Readers /\ outside \subseteq Readers /\ writer \in Writers \cup {None}
    /\ phase \in [Monitors -> {"idle", "snapshot", "waiting", "unlocking"}]
    /\ check \in [Monitors -> [Formatters -> CheckStates]]
    /\ sem \in [Monitors -> Int]
    /\ results \in [Monitors -> [Formatters -> Verdicts \cup {"none"}]]
    /\ found \in [Monitors -> [Formatters -> Verdicts \cup {"none"}]]

\* The semaphore counts the checks that hold a slot, and has room for so many only.
SlotsInv ==
    \A m \in Monitors : /\ IsFiniteSet(Holders(m)) /\ sem[m] = Cardinality(Holders(m))
                        /\ sem[m] <= maxConcurrentHealthChecks

\* A monitor between its snapshot and its last check is inside the lock, so that the formatters
\* it checks are still those that are registered.
LockInv ==
    \A m \in Monitors :
        /\ phase[m] # "idle" => m \in inside \cup outside
        /\ phase[m] \in {"waiting", "unlocking"} =>
              /\ m \in inside
              /\ \A f \in Formatters : check[m][f] # "none" <=> f \in registered

\* A check runs only while its monitor waits for it, and has stored its verdict when it is done.
ChecksInv ==
    \A m \in Monitors : \A f \in Formatters :
        /\ phase[m] # "waiting" => check[m][f] \in {"none", "done"}
        /\ check[m][f] = "checked" => found[m][f] # "none"
        /\ IF check[m][f] \in {"stored", "done"}
           THEN results[m][f] = found[m][f] /\ found[m][f] # "none"
           ELSE results[m][f] = "none"

IInv == TypeInv /\ SlotsInv /\ LockInv /\ ChecksInv
-----------------------------------------------------------------------------
\* The invariant holds while no monitor has started.
LEMMA InitInv == Init => IInv
  <1> SUFFICES ASSUME Init PROVE IInv
    OBVIOUS
  <1> USE DEF Init, NoVerdicts
  <1>1. TypeInv
    BY DEF TypeInv, CheckStates
  <1>2. SlotsInv
    <2>1. \A m \in Monitors : Holders(m) = {}
      BY DEF Holders, Slot
    <2>2. IsFiniteSet({}) /\ Cardinality({}) = 0
      BY FS_EmptySet
    <2>3. \A m \in Monitors : sem[m] = 0 /\ sem[m] <= maxConcurrentHealthChecks
      OBVIOUS
    <2> HIDE DEF Init
    <2> QED
      BY <2>1, <2>2, <2>3 DEF SlotsInv
  <1>3. LockInv /\ ChecksInv
    BY DEF LockInv, ChecksInv
  <1> QED
    BY <1>1, <1>2, <1>3 DEF IInv

\* A check that moves takes a slot, gives it back, or does neither.
LEMMA SlotMoves ==
    ASSUME TypeInv, SlotsInv, NEW m \in Monitors, NEW f \in Formatters,
           NEW from \in CheckStates, NEW to \in CheckStates, Moves(m, f, from, to),
           \A n \in Monitors \ {m} : sem'[n] = sem[n],
           sem'[m] = IF (from \in Slot) = (to \in Slot) THEN sem[m]
                     ELSE IF to \in Slot THEN sem[m] + 1 ELSE sem[m] - 1,
           sem'[m] <= maxConcurrentHealthChecks
    PROVE  SlotsInv'
  <1>1. /\ check[m][f] = from
        /\ check' = [check EXCEPT ![m] = [check[m] EXCEPT ![f] = to]]
        /\ check \in [Monitors -> [Formatters -> CheckStates]] /\ sem \in [Monitors -> Int]
    BY DEF Moves, TypeInv
  <1>2. ASSUME NEW n \in Monitors, n # m
        PROVE  /\ IsFiniteSet(Holders(n))' /\ sem'[n] = Cardinality(Holders(n))'
               /\ sem'[n] <= maxConcurrentHealthChecks
    <2>1. Holders(n)' = Holders(n) /\ sem'[n] = sem[n]
      BY <1>1, <1>2 DEF Holders
    <2> QED
      BY <2>1 DEF SlotsInv
  <1>3. IsFiniteSet(Holders(m)) /\ sem[m] = Cardinality(Holders(m)) /\ sem[m] \in Int
    BY <1>1 DEF SlotsInv
  <1>4. CASE (from \in Slot) = (to \in Slot)
    <2>1. Holders(m)' = Holders(m) /\ sem'[m] = sem[m]
      BY <1>1, <1>4 DEF Holders
    <2> QED
      BY <1>2, <1>3, <2>1 DEF SlotsInv
  <1>5. CASE from \notin Slot /\ to \in Slot
    <2>1. Holders(m)' = Holders(m) \cup {f} /\ f \notin Holders(m) /\ sem'[m] = sem[m] + 1
      BY <1>1, <1>5 DEF Holders
    <2>2. IsFiniteSet(Holders(m))' /\ sem'[m] = Cardinality(Holders(m))'
      BY <1>3, <2>1, FS_AddElement
    <2> QED
      BY <1>2, <2>2 DEF SlotsInv
  <1>6. CASE from \in Slot /\ to \notin Slot
    <2>1. Holders(m)' = Holders(m) \ {f} /\ f \in Holders(m) /\ sem'[m] = sem[m] - 1
      BY <1>1, <1>6 DEF Holders
    <2>2. IsFiniteSet(Holders(m))' /\ sem'[m] = Cardinality(Holders(m))'
      BY <1>3, <2>1, FS_RemoveElement
    <2> QED
      BY <1>2, <2>2 DEF SlotsInv
  <1> QED
    BY <1>4, <1>5, <1>6

\* Every step keeps the types.
LEMMA TypeStep == IInv /\ [Next]_vars => TypeInv'
  <1> SUFFICES ASSUME IInv, [Next]_vars PROVE TypeInv'
    OBVIOUS
  <1> USE DEF IInv, TypeInv, CheckStates, NoVerdicts, lock, checks, Moves, RLock
  <1>1. CASE UNCHANGED vars
    BY <1>1 DEF vars
  <1>2. ASSUME NEW r \in Lookups, LookupBegins(r) \/ LookupEnds(r) PROVE TypeInv'
    BY <1>2 DEF LookupBegins, LookupEnds
  <1>3. ASSUME NEW w \in Writers, LockBegins(w) \/ WriteEnds(w) PROVE TypeInv'
    BY <1>3 DEF LockBegins, WriteEnds
  <1>4. ASSUME NEW m \in Monitors, HealthCheckAllBegins(m) PROVE TypeInv'
    BY <1>4 DEF HealthCheckAllBegins
  <1>5. ASSUME NEW m \in Monitors, Monitor(m) PROVE TypeInv'
    <2>1. CASE ChecksStart(m)
      BY <2>1 DEF ChecksStart
    <2>2. CASE ChecksEnd(m) \/ HealthCheckAllEnds(m)
      BY <2>2 DEF ChecksEnd, HealthCheckAllEnds
    <2> QED
      BY <1>5, <2>1, <2>2 DEF Monitor
  <1>6. ASSUME NEW m \in Monitors, NEW f \in Formatters, CheckBegins(m, f) PROVE TypeInv'
    BY <1>6 DEF CheckBegins
  <1>7. ASSUME NEW m \in Monitors, NEW f \in Formatters, CheckReturns(m, f) PROVE TypeInv'
    BY <1>7 DEF CheckReturns
  <1>8. ASSUME NEW m \in Monitors, NEW f \in Formatters, ResultStored(m, f) PROVE TypeInv'
    BY <1>8 DEF ResultStored
  <1>9. ASSUME NEW m \in Monitors, NEW f \in Formatters, CheckEnds(m, f) PROVE TypeInv'
    BY <1>9 DEF CheckEnds
  <1> QED
    BY <1>1, <1>2, <1>3, <1>4, <1>5, <1>6, <1>7, <1>8, <1>9 DEF Next, Goroutine

\* Every step keeps the count of the slots taken.
LEMMA SlotsStep == IInv /\ [Next]_vars => SlotsInv'
  <1> SUFFICES ASSUME IInv, [Next]_vars PROVE SlotsInv'
    OBVIOUS
  <1>0. TypeInv /\ SlotsInv
    BY DEF IInv
  <1>1. ASSUME UNCHANGED <<check, sem>> PROVE SlotsInv'
    BY <1>0, <1>1 DEF SlotsInv, Holders
  <1> USE DEF lock, checks, RLock
  <1>2. CASE UNCHANGED vars
    BY <1>1, <1>2 DEF vars
  <1>3. ASSUME NEW r \in Lookups, LookupBegins(r) \/ LookupEnds(r) PROVE SlotsInv'
    BY <1>1, <1>3 DEF LookupBegins, LookupEnds
  <1>4. ASSUME NEW w \in Writers, LockBegins(w) \/ WriteEnds(w) PROVE SlotsInv'
    BY <1>1, <1>4 DEF LockBegins, WriteEnds
  <1>5. ASSUME NEW m \in Monitors, HealthCheckAllBegins(m) \/ ChecksEnd(m) \/ HealthCheckAllEnds(m)
        PROVE  SlotsInv'
    BY <1>1, <1>5 DEF HealthCheckAllBegins, ChecksEnd, HealthCheckAllEnds
  <1>6. ASSUME NEW m \in Monitors, ChecksStart(m) PROVE SlotsInv'
    <2>1. Holders(m) = {}
      BY <1>6 DEF ChecksStart, IInv, ChecksInv, Holders, Slot
    <2>2. Holders(m)' = {} /\ sem' = sem
      BY <1>0, <1>6 DEF ChecksStart, Holders, TypeInv, Slot
    <2>3. \A n \in Monitors \ {m} : Holders(n)' = Holders(n)
      BY <1>0, <1>6 DEF ChecksStart, Holders, TypeInv, Slot
    <2> QED
      BY <1>0, <2>1, <2>2, <2>3 DEF SlotsInv
  <1> USE DEF CheckStates, Slot
  <1>7. ASSUME NEW m \in Monitors, NEW f \in Formatters, CheckBegins(m, f) PROVE SlotsInv'
    <2>1. /\ Moves(m, f, "waits", "checks") /\ \A n \in Monitors \ {m} : sem'[n] = sem[n]
          /\ sem'[m] = sem[m] + 1 /\ sem'[m] <= maxConcurrentHealthChecks
      BY <1>0, <1>7 DEF CheckBegins, TypeInv
    <2> QED
      BY <1>0, <2>1, SlotMoves
  <1>8. ASSUME NEW m \in Monitors, NEW f \in Formatters, CheckReturns(m, f) \/ ResultStored(m, f)
        PROVE  SlotsInv'
    <2>1. /\ \A n \in Monitors \ {m} : sem'[n] = sem[n]
          /\ sem'[m] = sem[m] /\ sem'[m] <= maxConcurrentHealthChecks
      BY <1>0, <1>8 DEF CheckReturns, ResultStored, SlotsInv
    <2>2. CASE Moves(m, f, "checks", "checked")
      BY <1>0, <2>1, <2>2, SlotMoves
    <2>3. CASE Moves(m, f, "checked", "stored")
      BY <1>0, <2>1, <2>3, SlotMoves
    <2> QED
      BY <1>8, <2>2, <2>3 DEF CheckReturns, ResultStored
  <1>9. ASSUME NEW m \in Monitors, NEW f \in Formatters, CheckEnds(m, f) PROVE SlotsInv'
    <2>1. /\ Moves(m, f, "stored", "done") /\ \A n \in Monitors \ {m} : sem'[n] = sem[n]
          /\ sem'[m] = sem[m] - 1 /\ sem'[m] <= maxConcurrentHealthChecks
      BY <1>0, <1>9 DEF CheckEnds, TypeInv, SlotsInv
    <2> QED
      BY <1>0, <2>1, SlotMoves
  <1> QED
    BY <1>2, <1>3, <1>4, <1>5, <1>6, <1>7, <1>8, <1>9 DEF Next, Monitor, Goroutine

\* Only a writer inside changes what is registered, and no monitor is inside then.
LEMMA LockStep == IInv /\ [Next]_vars => LockInv'
  <1> SUFFICES ASSUME IInv, [Next]_vars PROVE LockInv'
    OBVIOUS
  <1> USE DEF IInv, TypeInv, LockInv, lock, checks, RLock
  <1>1. CASE UNCHANGED vars
    BY <1>1 DEF vars
  <1>2. ASSUME NEW r \in Lookups, LookupBegins(r) PROVE LockInv'
    BY <1>2 DEF LookupBegins
  <1>3. ASSUME NEW r \in Lookups, LookupEnds(r) PROVE LockInv'
    <2>1. \A m \in Monitors : m # r
      OBVIOUS
    <2> QED
      BY <1>3, <2>1 DEF LookupEnds
  <1>4. ASSUME NEW w \in Writers, LockBegins(w) PROVE LockInv'
    BY <1>4 DEF LockBegins
  <1>5. ASSUME NEW w \in Writers, WriteEnds(w) PROVE LockInv'
    BY <1>5 DEF WriteEnds
  <1>6. ASSUME NEW m \in Monitors, HealthCheckAllBegins(m) PROVE LockInv'
    BY <1>6 DEF HealthCheckAllBegins
  <1>7. ASSUME NEW m \in Monitors, ChecksStart(m) PROVE LockInv'
    <2>1. \A f \in Formatters : check'[m][f] # "none" <=> f \in registered
      BY <1>7 DEF ChecksStart
    <2>2. /\ phase' = [phase EXCEPT ![m] = "waiting"] /\ m \in inside
          /\ \A n \in Monitors \ {m} : check'[n] = check[n]
          /\ UNCHANGED <<registered, inside, outside>>
      BY <1>7 DEF ChecksStart
    <2> QED
      BY <2>1, <2>2
  <1>8. ASSUME NEW m \in Monitors, ChecksEnd(m) PROVE LockInv'
    BY <1>8 DEF ChecksEnd
  <1>9. ASSUME NEW m \in Monitors, HealthCheckAllEnds(m) PROVE LockInv'
    BY <1>9 DEF HealthCheckAllEnds
  <1>10. ASSUME NEW m \in Monitors, NEW f \in Formatters, Goroutine(m, f) PROVE LockInv'
    <2>1. /\ UNCHANGED <<registered, inside, outside, phase>>
          /\ \E from, to \in CheckStates \ {"none"} : Moves(m, f, from, to)
      BY <1>10 DEF Goroutine, CheckBegins, CheckReturns, ResultStored, CheckEnds, CheckStates
    <2>2. \A n \in Monitors, g \in Formatters : check'[n][g] # "none" <=> check[n][g] # "none"
      BY <2>1 DEF Moves, CheckStates
    <2> QED
      BY <2>1, <2>2
  <1> QED
    BY <1>1, <1>2, <1>3, <1>4, <1>5, <1>6, <1>7, <1>8, <1>9, <1>10 DEF Next, Monitor

\* A check that moves has its verdict in the right place if it moves on to the right state.
LEMMA CheckMoves ==
    ASSUME TypeInv, ChecksInv, NEW m \in Monitors, NEW f \in Formatters,
           NEW from \in CheckStates \ {"none", "done"}, NEW to \in CheckStates,
           Moves(m, f, from, to), UNCHANGED phase,
           \A n \in Monitors, g \in Formatters : n # m \/ g # f =>
              results'[n][g] = results[n][g] /\ found'[n][g] = found[n][g],
           to = "checked" => found'[m][f] # "none",
           to \in {"stored", "done"} => results'[m][f] = found'[m][f] /\ found'[m][f] # "none",
           to \notin {"stored", "done"} => results'[m][f] = "none"
    PROVE  ChecksInv'
  <1>1. phase[m] = "waiting" /\ check'[m][f] = to
        /\ \A n \in Monitors, g \in Formatters : n # m \/ g # f => check'[n][g] = check[n][g]
    BY DEF Moves, CheckStates, TypeInv, ChecksInv
  <1> QED
    BY <1>1 DEF ChecksInv

\* Every step keeps what is stored of the checks.
LEMMA ChecksStep == IInv /\ [Next]_vars => ChecksInv'
  <1> SUFFICES ASSUME IInv, [Next]_vars PROVE ChecksInv'
    OBVIOUS
  <1>0. TypeInv /\ ChecksInv
    BY DEF IInv
  <1> USE DEF IInv, TypeInv, ChecksInv, lock, checks, RLock
  <1>1. CASE UNCHANGED vars
    BY <1>1 DEF vars
  <1>2. ASSUME NEW r \in Lookups, LookupBegins(r) \/ LookupEnds(r) PROVE ChecksInv'
    BY <1>2 DEF LookupBegins, LookupEnds
  <1>3. ASSUME NEW w \in Writers, LockBegins(w) \/ WriteEnds(w) PROVE ChecksInv'
    BY <1>3 DEF LockBegins, WriteEnds
  <1>4. ASSUME NEW m \in Monitors, HealthCheckAllBegins(m) PROVE ChecksInv'
    <2>1. phase[m] # "waiting"
      BY <1>4 DEF HealthCheckAllBegins, LockInv
    <2> QED
      BY <1>4, <2>1 DEF HealthCheckAllBegins
  <1>5. ASSUME NEW m \in Monitors, ChecksStart(m) PROVE ChecksInv'
    BY <1>5 DEF ChecksStart, NoVerdicts
  <1>6. ASSUME NEW m \in Monitors, ChecksEnd(m) PROVE ChecksInv'
    BY <1>6 DEF ChecksEnd
  <1>7. ASSUME NEW m \in Monitors, HealthCheckAllEnds(m) PROVE ChecksInv'
    BY <1>7 DEF HealthCheckAllEnds
  <1>8. ASSUME NEW m \in Monitors, NEW f \in Formatters, CheckBegins(m, f) PROVE ChecksInv'
    <2>1. Moves(m, f, "waits", "checks") /\ UNCHANGED <<phase, results, found>>
      BY <1>8 DEF CheckBegins
    <2>2. results[m][f] = "none"
      BY <2>1 DEF Moves
    <2> QED
      BY <2>1, <2>2, CheckMoves DEF CheckStates
  <1>9. ASSUME NEW m \in Monitors, NEW f \in Formatters, CheckReturns(m, f) PROVE ChecksInv'
    <2>1. Moves(m, f, "checks", "checked") /\ UNCHANGED <<phase, results>>
      BY <1>9 DEF CheckReturns
    <2>2. PICK v \in Verdicts : found' = [found EXCEPT ![m][f] = v]
      BY <1>9 DEF CheckReturns
    <2>3. /\ results[m][f] = "none" /\ found'[m][f] = v
          /\ \A n \in Monitors, g \in Formatters : n # m \/ g # f => found'[n][g] = found[n][g]
      BY <2>1, <2>2 DEF Moves
    <2>4. /\ \A n \in Monitors, g \in Formatters : n # m \/ g # f =>
                results'[n][g] = results[n][g] /\ found'[n][g] = found[n][g]
          /\ found'[m][f] # "none" /\ results'[m][f] = "none"
      BY <2>1, <2>3
    <2> HIDE DEF IInv, TypeInv, ChecksInv
    <2> QED
      BY <1>0, <2>1, <2>4, CheckMoves DEF CheckStates
  <1>10. ASSUME NEW m \in Monitors, NEW f \in Formatters, ResultStored(m, f) PROVE ChecksInv'
    <2>1. Moves(m, f, "checked", "stored") /\ UNCHANGED <<phase, found>>
          /\ results' = [results EXCEPT ![m][f] = found[m][f]]
      BY <1>10 DEF ResultStored
    <2>2. /\ found[m][f] # "none" /\ results'[m][f] = found[m][f]
          /\ \A n \in Monitors, g \in Formatters : n # m \/ g # f => results'[n][g] = results[n][g]
      BY <2>1 DEF Moves
    <2>3. /\ \A n \in Monitors, g \in Formatters : n # m \/ g # f =>
                results'[n][g] = results[n][g] /\ found'[n][g] = found[n][g]
          /\ results'[m][f] = found'[m][f] /\ found'[m][f] # "none"
      BY <2>1, <2>2
    <2> HIDE DEF IInv, TypeInv, ChecksInv
    <2> QED
      BY <1>0, <2>1, <2>3, CheckMoves DEF CheckStates
  <1>11. ASSUME NEW m \in Monitors, NEW f \in Formatters, CheckEnds(m, f) PROVE ChecksInv'
    <2>1. Moves(m, f, "stored", "done") /\ UNCHANGED <<phase, results, found>>
      BY <1>11 DEF CheckEnds
    <2>2. found[m][f] # "none" /\ results[m][f] = found[m][f]
      BY <2>1 DEF Moves
    <2> QED
      BY <2>1, <2>2, CheckMoves DEF CheckStates
  <1> QED
    BY <1>1, <1>2, <1>3, <1>4, <1>5, <1>6, <1>7, <1>8, <1>9, <1>10, <1>11
    DEF Next, Monitor, Goroutine

\* The slots of a monitor are counted exactly, and the set of formatters stands still while it
\* checks them, as it is inside the lock (registry.go:246-277).
THEOREM IInvCorrect == Spec => []IInv
  <1>1. IInv /\ [Next]_vars => IInv'
    BY TypeStep, SlotsStep, LockStep, ChecksStep DEF IInv
  <1> QED
    BY InitInv, <1>1, PTL DEF Spec
-----------------------------------------------------------------------------
\* However many monitors, formatters, lookups and writers there are, the slots that a monitor's
\* goroutines take stay between zero and the limit (registry.go:254-264).
THEOREM TypeCorrect == Spec => []TypeOK
  <1>1. IInv => TypeOK
    <2> SUFFICES ASSUME IInv PROVE TypeOK
      OBVIOUS
    <2>1. \A m \in Monitors : sem[m] \in 0 .. maxConcurrentHealthChecks
      <3>1. ASSUME NEW m \in Monitors PROVE sem[m] \in Nat /\ sem[m] <= maxConcurrentHealthChecks
        BY FS_CardinalityType DEF IInv, SlotsInv
      <3> QED
        BY <3>1
    <2> QED
      BY <2>1 DEF IInv, TypeInv, CheckStates, TypeOK
  <1> QED
    BY IInvCorrect, <1>1, PTL

\* Whoever registers and removes formatters meanwhile, and whoever else checks them: the report of
\* a HealthCheckAll is about the formatters that are registered when it is given.
THEOREM ReportIsExactCorrect == Spec => []ReportIsExact
  <1>1. IInv => ReportIsExact
    <2> SUFFICES ASSUME IInv, NEW m \in Monitors, phase[m] = "unlocking"
                 PROVE  /\ {f \in Formatters : results[m][f] # "none"} = registered
                        /\ \A f \in registered : results[m][f] = found[m][f]
      BY DEF ReportIsExact
    <2>1. ASSUME NEW f \in Formatters
          PROVE  /\ check[m][f] = "done" <=> f \in registered
                 /\ results[m][f] # "none" <=> check[m][f] = "done"
                 /\ f \in registered => results[m][f] = found[m][f]
      BY DEF IInv, LockInv, ChecksInv
    <2>2. registered \subseteq Formatters
      BY DEF IInv, TypeInv
    <2> QED
      BY <2>1, <2>2
  <1> QED
    BY IInvCorrect, <1>1, PTL
=============================================================================
