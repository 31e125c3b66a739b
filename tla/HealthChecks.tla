----------------------------- MODULE HealthChecks -----------------------------
(***************************************************************************)
(* Registry.HealthCheckAll (pkg/registry/registry.go) beside the other     *)
(* users of the registry's lock: it holds the read lock from the snapshot  *)
(* of the formatters to the last health check, and runs the checks in one  *)
(* goroutine each, at most maxConcurrentHealthChecks of them at a time.    *)
(*                                                                         *)
(* sync.RWMutex: a writer that waits for the readers inside blocks every   *)
(* reader that comes after it, and lets them all in when it leaves.        *)
(*                                                                         *)
(* Formatter.HealthCheck is external: it answers either way, or, for a     *)
(* formatter in hanging, never.                                            *)
(***************************************************************************)
EXTENDS Integers, FiniteSets

CONSTANTS
    Formatters,
    Monitors,                    \* callers of HealthCheckAll
    Lookups,                     \* callers of Get, GetByLanguage, List and the like
    Writers,                     \* callers of Register and Remove
    maxConcurrentHealthChecks,
    HangingSets,                 \* sets explored of formatters whose check never returns
    None

ASSUME LimitAssumption   == maxConcurrentHealthChecks \in Nat \ {0}
ASSUME HangingAssumption == HangingSets \subseteq SUBSET Formatters
ASSUME NoneAssumption    == None \notin Writers
ASSUME ActorsAssumption  == Monitors \cap Lookups = {}

Verdicts == {"healthy", "unhealthy"}
Readers == Monitors \cup Lookups

VARIABLES
    registered,  \* Registry.formatters
    hanging,
    inside,      \* the readers that hold the read lock
    outside,     \* the readers that wait for a writer to leave
    writer,      \* the writer that waits for the readers inside, or is inside, or None
    phase,       \* each monitor: "idle", "snapshot", "waiting" or "unlocking"
    check,       \* each monitor's goroutine for each formatter
    sem,         \* slots taken in each monitor's semaphore
    results,     \* each monitor's results
    found        \* history: what the health checks of each monitor have said

vars == <<registered, hanging, inside, outside, writer, phase, check, sem, results, found>>
lock == <<inside, outside, writer>>
checks == <<check, sem, results, found>>

NoVerdicts == [f \in Formatters |-> "none"]

Init ==
    /\ registered \in SUBSET Formatters /\ hanging \in HangingSets
    /\ inside = {} /\ outside = {} /\ writer = None
    /\ phase = [m \in Monitors |-> "idle"]
    /\ check = [m \in Monitors |-> NoVerdicts]
    /\ sem = [m \in Monitors |-> 0]
    /\ results = [m \in Monitors |-> NoVerdicts]
    /\ found = [m \in Monitors |-> NoVerdicts]
-----------------------------------------------------------------------------
\* r.mu.RLock().
RLock(r) ==
    /\ r \notin inside \cup outside
    /\ IF writer = None THEN inside' = inside \cup {r} /\ UNCHANGED outside
                        ELSE outside' = outside \cup {r} /\ UNCHANGED inside
    /\ UNCHANGED <<registered, hanging, writer, checks>>

LookupBegins(r) == r \in Lookups /\ RLock(r) /\ UNCHANGED phase

\* A lookup reads what it wants and leaves.
LookupEnds(r) ==
    /\ r \in Lookups \cap inside
    /\ inside' = inside \ {r}
    /\ UNCHANGED <<registered, hanging, outside, writer, phase, checks>>

\* r.mu.Lock() waits for the readers inside.
LockBegins(w) ==
    /\ writer = None /\ writer' = w
    /\ UNCHANGED <<registered, hanging, inside, outside, phase, checks>>

WriteEndsLocked(w) ==            \* mutant: a return without Unlock
    /\ writer = w /\ inside = {}
    /\ \E f \in Formatters : registered' = IF f \in registered THEN registered \ {f}
                                                               ELSE registered \cup {f}
    /\ UNCHANGED <<hanging, lock, phase, checks>>

\* Register or Remove with the write lock, and its release: the waiting readers come in.
WriteEnds(w) ==
    /\ writer = w /\ inside = {}
    /\ \E f \in Formatters : registered' = IF f \in registered THEN registered \ {f}
                                                               ELSE registered \cup {f}
    /\ writer' = None /\ inside' = outside /\ outside' = {}
    /\ UNCHANGED <<hanging, phase, checks>>
-----------------------------------------------------------------------------
HealthCheckAllBegins(m) ==
    /\ m \in Monitors /\ RLock(m)
    /\ phase' = [phase EXCEPT ![m] = "snapshot"]

\* The loop over r.formatters starts a goroutine for each.
ChecksStart(m) ==
    /\ phase[m] = "snapshot" /\ m \in inside
    /\ phase' = [phase EXCEPT ![m] = "waiting"]
    /\ check' = [check EXCEPT ![m] = [f \in Formatters |->
                                         IF f \in registered THEN "waits" ELSE "none"]]
    /\ results' = [results EXCEPT ![m] = NoVerdicts]
    /\ found' = [found EXCEPT ![m] = NoVerdicts]
    /\ UNCHANGED <<registered, hanging, lock, sem>>

Moves(m, f, from, to) == check[m][f] = from /\ check' = [check EXCEPT ![m][f] = to]

\* sem <- struct{}{}, then f.HealthCheck(ctx).
CheckBegins(m, f) ==
    /\ Moves(m, f, "waits", "checks")
    /\ sem[m] < maxConcurrentHealthChecks
    /\ sem' = [sem EXCEPT ![m] = @ + 1]
    /\ UNCHANGED <<registered, hanging, lock, phase, results, found>>

CheckReturns(m, f) ==
    /\ f \notin hanging
    /\ Moves(m, f, "checks", "checked")
    /\ \E v \in Verdicts : found' = [found EXCEPT ![m][f] = v]
    /\ UNCHANGED <<registered, hanging, lock, phase, sem, results>>

\* results[name] = err, under mu.
ResultStored(m, f) ==
    /\ Moves(m, f, "checked", "stored")
    /\ results' = [results EXCEPT ![m][f] = found[m][f]]
    /\ UNCHANGED <<registered, hanging, lock, phase, sem, found>>

\* The deferred calls: <-sem, then wg.Done.
CheckEndsLeaking(m, f) ==        \* mutant: the slot is not given back
    /\ Moves(m, f, "stored", "done")
    /\ UNCHANGED <<registered, hanging, lock, phase, sem, results, found>>

CheckEndsTwice(m, f) ==          \* mutant: the slot is given back twice
    /\ Moves(m, f, "stored", "done")
    /\ sem' = [sem EXCEPT ![m] = @ - 2]
    /\ UNCHANGED <<registered, hanging, lock, phase, results, found>>

CheckEnds(m, f) ==
    /\ Moves(m, f, "stored", "done")
    /\ sem' = [sem EXCEPT ![m] = @ - 1]
    /\ UNCHANGED <<registered, hanging, lock, phase, results, found>>

ChecksEndAtFirst(m) ==           \* mutant: wg.Add(1) once, outside the loop
    /\ phase[m] = "waiting"
    /\ (\E f \in Formatters : check[m][f] = "done") \/ \A f \in Formatters : check[m][f] = "none"
    /\ phase' = [phase EXCEPT ![m] = "unlocking"]
    /\ UNCHANGED <<registered, hanging, lock, checks>>

\* wg.Wait() returns when every goroutine is done.
ChecksEnd(m) ==
    /\ phase[m] = "waiting" /\ \A f \in Formatters : check[m][f] \in {"none", "done"}
    /\ phase' = [phase EXCEPT ![m] = "unlocking"]
    /\ UNCHANGED <<registered, hanging, lock, checks>>

\* The deferred r.mu.RUnlock().
HealthCheckAllEnds(m) ==
    /\ phase[m] = "unlocking"
    /\ inside' = inside \ {m}
    /\ phase' = [phase EXCEPT ![m] = "idle"]
    /\ UNCHANGED <<registered, hanging, outside, writer, checks>>
-----------------------------------------------------------------------------
Goroutine(m, f) == CheckBegins(m, f) \/ CheckReturns(m, f) \/ ResultStored(m, f) \/ CheckEnds(m, f)
Monitor(m) == ChecksStart(m) \/ ChecksEnd(m) \/ HealthCheckAllEnds(m)

Next ==
    \/ \E r \in Lookups : LookupBegins(r) \/ LookupEnds(r)
    \/ \E w \in Writers : LockBegins(w) \/ WriteEnds(w)
    \/ \E m \in Monitors : \/ HealthCheckAllBegins(m) \/ Monitor(m)
                           \/ \E f \in Formatters : Goroutine(m, f)

Spec == Init /\ [][Next]_vars

\* Whoever has begun is run until it is through; nobody has to begin.
FairSpec ==
    /\ Spec
    /\ \A r \in Lookups : WF_vars(LookupEnds(r))
    /\ \A w \in Writers : WF_vars(WriteEnds(w))
    /\ \A m \in Monitors : /\ WF_vars(Monitor(m))
                           /\ \A f \in Formatters : WF_vars(Goroutine(m, f))
-----------------------------------------------------------------------------
TypeOK ==
    /\ registered \subseteq Formatters /\ hanging \in HangingSets
    /\ inside \subseteq Readers /\ outside \subseteq Readers /\ writer \in Writers \cup {None}
    /\ phase \in [Monitors -> {"idle", "snapshot", "waiting", "unlocking"}]
    /\ check \in [Monitors -> [Formatters -> {"none", "waits", "checks", "checked", "stored",
                                              "done"}]]
    /\ sem \in [Monitors -> 0 .. maxConcurrentHealthChecks]
    /\ results \in [Monitors -> [Formatters -> Verdicts \cup {"none"}]]
    /\ found \in [Monitors -> [Formatters -> Verdicts \cup {"none"}]]

\* The report names the formatters registered at the moment it is given, all of them and no
\* other, each with the verdict of its own check: the lock is held from the snapshot to the
\* last check (registry.go:249-250, 275).
ReportIsExact ==
    \A m \in Monitors : phase[m] = "unlocking" =>
        /\ {f \in Formatters : results[m][f] # "none"} = registered
        /\ \A f \in registered : results[m][f] = found[m][f]

\* While every health check answers, a Register or Remove gets its turn, however many
\* HealthCheckAlls and lookups keep coming.
WritersGetIn == \A w \in Writers : (hanging = {} /\ writer = w) ~> writer # w

\* While every health check answers, a lookup that came behind a waiting writer is served.
LookupsAreServed == \A r \in Lookups : (hanging = {} /\ r \in outside) ~> r \in inside
=============================================================================
