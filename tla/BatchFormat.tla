------------------------------ MODULE BatchFormat ------------------------------
(***************************************************************************)
(* The two batch entry points of pkg/executor/executor.go.                 *)
(*                                                                         *)
(* ExecuteBatch starts one goroutine per request, each of which sends its  *)
(* answer to a channel as large as the batch; the caller collects as many  *)
(* answers as there are requests.  BatchFormat starts one goroutine per    *)
(* request too, lets at most maxConcurrent of them call Execute at a time  *)
(* (a semaphore), stores each answer under a mutex and waits for all of    *)
(* them (a WaitGroup).                                                     *)
(*                                                                         *)
(* Execute itself is seen from outside: it returns once, or never.         *)
(***************************************************************************)
EXTENDS Integers, Sequences, FiniteSets, FiniteSetsExt

CONSTANTS
    NumRequests,   \* len(reqs)
    Cases,         \* the calls explored: [api, maxConcurrent, stuck]
    None

Requests == 1 .. NumRequests
APIs == {"ExecuteBatch", "BatchFormat"}

ASSUME NumRequestsAssumption == NumRequests \in Nat
ASSUME CasesAssumption       ==
    Cases \subseteq [api : APIs, maxConcurrent : Int, stuck : SUBSET Requests]
ASSUME NoneAssumption        == None \notin Int \cup {"ok", "error"}

VARIABLES
    api,        \* which of the two was called
    maxConcurrent,   \* of no meaning to ExecuteBatch
    stuck,      \* the requests whose Execute never returns
    main,       \* the caller: "spawn", "wait" or "returned"
    started,    \* requests whose goroutine has been started: 1 .. started
    worker,     \* what each request's goroutine is doing
    outcome,    \* what Execute returned for it: a result, an error, or None so far
    sem,        \* slots taken in the semaphore
    pending,    \* WaitGroup counter
    chan,       \* resultChan: the requests whose answer is in the channel
    received,   \* answers the caller has received
    results,    \* the returned results: TRUE where one is stored, FALSE where nil
    errors,     \* ExecuteBatch's errors slice: TRUE where one is stored
    firstErr,   \* the request whose error is returned, or None
    failures    \* history: failed requests in the order BatchFormat stored them

vars == <<api, maxConcurrent, stuck, main, started, worker, outcome, sem, pending,
          chan, received, results, errors, firstErr, failures>>
given == <<api, maxConcurrent, stuck>>
answers == <<results, errors, firstErr, failures>>

\* maxConcurrent <= 0 means 10.
LimitAsGiven(n) == n     \* mutant: no default
Limit(n) == IF n <= 0 THEN 10 ELSE n

Init ==
    /\ \E c \in Cases : /\ api = c.api /\ maxConcurrent = c.maxConcurrent
                        /\ stuck = c.stuck
    /\ main = "spawn" /\ started = 0
    /\ worker = [i \in Requests |-> "unborn"]
    /\ outcome = [i \in Requests |-> None]
    /\ sem = 0 /\ pending = 0 /\ chan = <<>> /\ received = 0
    /\ results = [i \in Requests |-> FALSE]
    /\ errors = [i \in Requests |-> FALSE]
    /\ firstErr = None /\ failures = <<>>

Moves(i, from, to) == worker[i] = from /\ worker' = [worker EXCEPT ![i] = to]
-----------------------------------------------------------------------------
\* The caller's loop: wg.Add(1) and go func.
Spawn ==
    /\ main = "spawn" /\ started < NumRequests
    /\ started' = started + 1
    /\ Moves(started', "unborn", IF api = "BatchFormat" THEN "acquire" ELSE "execute")
    /\ pending' = IF api = "BatchFormat" THEN pending + 1 ELSE pending
    /\ UNCHANGED <<given, main, outcome, sem, chan, received, answers>>

SpawnedAll ==
    /\ main = "spawn" /\ started = NumRequests
    /\ main' = "wait"
    /\ UNCHANGED <<given, started, worker, outcome, sem, pending, chan, received,
                   answers>>

\* sem <- struct{}{}: the channel has room for Limit entries.
AcquireSerialised(i) ==      \* mutant: Execute under the mutex
    /\ sem = 0 /\ sem' = sem + 1
    /\ Moves(i, "acquire", "execute")
    /\ UNCHANGED <<given, main, started, outcome, pending, chan, received, answers>>

AcquireUnlimited(i) ==       \* mutant: no semaphore
    /\ sem' = sem + 1
    /\ Moves(i, "acquire", "execute")
    /\ UNCHANGED <<given, main, started, outcome, pending, chan, received, answers>>

Acquire(i) ==
    /\ sem < Limit(maxConcurrent) /\ sem' = sem + 1
    /\ Moves(i, "acquire", "execute")
    /\ UNCHANGED <<given, main, started, outcome, pending, chan, received, answers>>
-----------------------------------------------------------------------------
\* Execute returns a result or an error.
ExecuteReturns(i) ==
    /\ i \notin stuck
    /\ Moves(i, "execute", "report")
    /\ \E v \in {"ok", "error"} : outcome' = [outcome EXCEPT ![i] = v]
    /\ UNCHANGED <<given, main, started, sem, pending, chan, received, answers>>
-----------------------------------------------------------------------------
\* BatchFormat, under mu: the first error is kept and the result, nil with an error, stored.
StoreLastError(i) ==         \* mutant: firstErr is overwritten
    /\ api = "BatchFormat" /\ Moves(i, "report", "release")
    /\ results' = [results EXCEPT ![i] = outcome[i] = "ok"]
    /\ firstErr' = IF outcome[i] = "error" THEN i ELSE firstErr
    /\ failures' = IF outcome[i] = "error" THEN Append(failures, i) ELSE failures
    /\ UNCHANGED <<given, main, started, outcome, sem, pending, chan, received,
                   errors>>

Store(i) ==
    /\ api = "BatchFormat" /\ Moves(i, "report", "release")
    /\ results' = [results EXCEPT ![i] = outcome[i] = "ok"]
    /\ firstErr' = IF outcome[i] = "error" /\ firstErr = None THEN i ELSE firstErr
    /\ failures' = IF outcome[i] = "error" THEN Append(failures, i) ELSE failures
    /\ UNCHANGED <<given, main, started, outcome, sem, pending, chan, received,
                   errors>>

\* The deferred calls run in reverse order: mu.Unlock, then <-sem, then wg.Done.
ReleaseTwice(i) ==           \* mutant: an explicit release beside the deferred one
    /\ Moves(i, "release", "finish") /\ sem' = sem - 2
    /\ UNCHANGED <<given, main, started, outcome, pending, chan, received, answers>>

Release(i) ==
    /\ Moves(i, "release", "finish") /\ sem' = sem - 1
    /\ UNCHANGED <<given, main, started, outcome, pending, chan, received, answers>>

Finish(i) ==
    /\ Moves(i, "finish", "done") /\ pending' = pending - 1
    /\ UNCHANGED <<given, main, started, outcome, sem, chan, received, answers>>

\* wg.Wait() returns and the results are returned as they are.
WaitForAll ==
    /\ api = "BatchFormat" /\ main = "wait" /\ pending = 0
    /\ main' = "returned"
    /\ UNCHANGED <<given, started, worker, outcome, sem, pending, chan, received,
                   answers>>
-----------------------------------------------------------------------------
\* ExecuteBatch: the goroutine sends its answer; the channel has room for every request.
Send(i) ==
    /\ api = "ExecuteBatch" /\ Moves(i, "report", "done")
    /\ chan' = Append(chan, i)
    /\ UNCHANGED <<given, main, started, outcome, sem, pending, received, answers>>

\* The caller files the answer under its request, in the order the answers come.
Collect ==
    /\ api = "ExecuteBatch" /\ main = "wait" /\ received < NumRequests /\ chan # <<>>
    /\ received' = received + 1
    /\ chan' = Tail(chan)
    /\ results' = [results EXCEPT ![Head(chan)] = outcome[Head(chan)] = "ok"]
    /\ errors' = [errors EXCEPT ![Head(chan)] = outcome[Head(chan)] = "error"]
    /\ UNCHANGED <<given, main, started, worker, outcome, sem, pending, firstErr,
                   failures>>

\* With every answer in, the error of the lowest index is returned.
CollectedAll ==
    /\ api = "ExecuteBatch" /\ main = "wait" /\ received = NumRequests
    /\ main' = "returned"
    /\ firstErr' = IF \E i \in Requests : errors[i]
                   THEN Min({i \in Requests : errors[i]}) ELSE None
    /\ UNCHANGED <<given, started, worker, outcome, sem, pending, chan, received,
                   results, errors, failures>>
-----------------------------------------------------------------------------
\* What a goroutine does by itself once it is run.
Step(i) == Acquire(i) \/ Store(i) \/ Release(i) \/ Finish(i) \/ Send(i)
Main == Spawn \/ SpawnedAll \/ WaitForAll \/ Collect \/ CollectedAll

Next == \/ Main
        \/ \E i \in Requests : Step(i) \/ ExecuteReturns(i)

Spec == Init /\ [][Next]_vars

\* Every runnable goroutine is run, and Execute returns, except for the requests that are
\* stuck.  Fairness is strong for the semaphore's sake: a goroutine that waits for room in a
\* channel is served in its turn, although others take the room in between.
FairSpec ==
    Spec /\ WF_vars(Main) /\ \A i \in Requests : SF_vars(Step(i) \/ ExecuteReturns(i))
-----------------------------------------------------------------------------
TypeOK ==
    /\ api \in APIs /\ maxConcurrent \in Int /\ stuck \subseteq Requests
    /\ main \in {"spawn", "wait", "returned"}
    /\ started \in 0 .. NumRequests /\ received \in 0 .. NumRequests
    /\ worker \in [Requests -> {"unborn", "acquire", "execute", "report", "release", "finish",
                                "done"}]
    /\ outcome \in [Requests -> {"ok", "error", None}]
    /\ sem \in 0 .. NumRequests /\ pending \in 0 .. NumRequests
    /\ chan \in Seq(Requests) /\ failures \in Seq(Requests)
    /\ results \in [Requests -> BOOLEAN] /\ errors \in [Requests -> BOOLEAN]
    /\ firstErr \in Requests \cup {None}

\* A batch that has returned reports every request: a result exactly where Execute gave one,
\* and an error exactly when some Execute failed, which is the first of them by position for
\* ExecuteBatch and by time for BatchFormat (executor.go:124-138, 257-269).
ReportsEveryRequest ==
    main = "returned" =>
        /\ \A i \in Requests : outcome[i] # None /\ (results[i] <=> outcome[i] = "ok")
        /\ IF \A i \in Requests : outcome[i] = "ok" THEN firstErr = None
           ELSE IF api = "BatchFormat" THEN firstErr = Head(failures)
           ELSE firstErr = Min({i \in Requests : outcome[i] = "error"})

\* At most maxConcurrent requests of a BatchFormat are inside Execute at a time.
ExecutesWithinLimit ==
    api = "BatchFormat" =>
        Cardinality({i \in Requests : worker[i] = "execute"}) <= Limit(maxConcurrent)

\* The batch returns when all its Executes do, whatever maxConcurrent was given.
BatchReturns == stuck = {} ~> main = "returned"

\* Requests that hang cost the others nothing while a slot of the semaphore is left.
StuckAreIsolated ==
    \A i \in Requests :
        (i \notin stuck /\ (api = "BatchFormat" => Cardinality(stuck) < Limit(maxConcurrent)))
            ~> worker[i] = "done"
=============================================================================
