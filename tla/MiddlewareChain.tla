--------------------------- MODULE MiddlewareChain ---------------------------
(***************************************************************************)
(* One Executor.Execute call (pkg/executor/executor.go): the formatter is  *)
(* resolved, the registered middlewares are wrapped around it (buildChain) *)
(* and the chain is run.  chain[1] is the middleware added first, hence    *)
(* the outermost; position Len(chain) + 1 is the formatter itself.         *)
(*                                                                         *)
(* A goroutine runs a contiguous part of the chain, from position entry    *)
(* inwards.  TimeoutMiddleware is the one that starts a goroutine: the     *)
(* child runs the rest of the chain and sends its answer to a channel of   *)
(* capacity one, while the parent selects between the answer and the       *)
(* context.  A parent that gave up leaves the child running.               *)
(*                                                                         *)
(* Formatter.Format is external: it answers whenever it likes, with any    *)
(* outcome, or never.  Durations are abstracted: a deadline fires and a    *)
(* back-off ends at any moment after it starts.                            *)
(***************************************************************************)
EXTENDS Integers, Sequences, FiniteSets

CONSTANTS
    Chains,        \* the middleware lists explored, outermost first
    RetryLimits,   \* arguments of RetryMiddleware explored
    Goroutines,    \* goroutine identities
    Caller,        \* the goroutine that called Execute
    None           \* no value, no goroutine

Kinds   == {"timeout", "retry", "validation"}
Results == {"ok", "empty", "failed"}   \* Success with text, Success without, Success = false
Errors  == {"error", "rejected", "invalid", "timedout", "exhausted", "unresolved"}
Outcomes == Results \cup {"error"}     \* what Format can return
PCs == {"unborn", "resolve", "call", "format", "return", "sleep", "select", "exited"}

ASSUME ChainsAssumption  == Chains \subseteq Seq(Kinds)
ASSUME LimitsAssumption  == RetryLimits \subseteq Int
ASSUME CallerAssumption  == Caller \in Goroutines
ASSUME NoneAssumption    == None \notin Goroutines \cup Results \cup Errors

VARIABLES
    chain,     \* Executor.middleware when the call began
    retries,   \* maxRetries as given to RetryMiddleware
    blank,     \* req.Content == ""
    pc,        \* what each goroutine is doing
    entry,     \* the outermost chain position the goroutine runs
    at,        \* the chain position its innermost frame is at
    val,       \* the value its innermost frame returns
    tries,     \* RetryMiddleware's attempt, per goroutine and chain position
    waits,     \* the child a goroutine at "select" waits for
    slot,      \* content of the child's resultChan or errorChan
    lineage,   \* the goroutines whose contexts the goroutine's context derives from
    done,      \* ctx.Err() != nil for the goroutine's context
    seen,      \* history: outcomes Format has returned
    begun,     \* history: Format calls begun
    late       \* history: Format calls begun on a context already done

control == <<pc, entry, at, val, tries, waits, slot, lineage, done>>
given   == <<chain, retries, blank>>
history == <<seen, begun, late>>
vars    == <<chain, retries, blank, pc, entry, at, val, tries, waits, slot, lineage, done,
             seen, begun, late>>

Positions == 1 .. Len(chain)
InnerTo(p) == p + 1

\* RetryMiddleware clamps its argument to 0 .. 30.
Clamp(n) == IF n > 30 THEN 30 ELSE IF n < 0 THEN 0 ELSE n
Limit == Clamp(retries)

Init ==
    /\ chain \in Chains
    /\ retries \in RetryLimits
    /\ blank \in BOOLEAN
    /\ pc = [g \in Goroutines |-> IF g = Caller THEN "resolve" ELSE "unborn"]
    /\ entry = [g \in Goroutines |-> 1]
    /\ at = [g \in Goroutines |-> 1]
    /\ val = [g \in Goroutines |-> None]
    /\ tries = [g \in Goroutines |-> [p \in Positions |-> 0]]
    /\ waits = [g \in Goroutines |-> None]
    /\ slot = [g \in Goroutines |-> None]
    /\ lineage = [g \in Goroutines |-> IF g = Caller THEN {g} ELSE {}]
    /\ done = [g \in Goroutines |-> FALSE]
    /\ seen = {} /\ begun = 0 /\ late = 0

Born == {g \in Goroutines : pc[g] # "unborn"}

\* The next goroutine to start: which identity it gets makes no difference.
Fresh == CHOOSE c \in Goroutines : pc[c] = "unborn"

\* The contexts after the one of goroutine c is cancelled or reaches its deadline:
\* cancellation propagates to every context derived from it.
Expired(c) == [g \in Goroutines |-> done[g] \/ c \in lineage[g]]

\* The frame at position at[g] returns v to the frame around it.
Returns(g, v) == pc' = [pc EXCEPT ![g] = "return"] /\ val' = [val EXCEPT ![g] = v]

\* The frame at position p of g calls the one inside it.
CallsInner(g, p) == pc' = [pc EXCEPT ![g] = "call"] /\ at' = [at EXCEPT ![g] = InnerTo(p)]

Calling(g, kind) == pc[g] = "call" /\ at[g] \in Positions /\ chain[at[g]] = kind

\* The frame around the one that returned, when g itself runs it.
Outer(g) == at[g] - 1
Answered(g, kind) == pc[g] = "return" /\ Outer(g) >= entry[g] /\ chain[Outer(g)] = kind
-----------------------------------------------------------------------------
\* Execute looks the formatter up by language or by file path, or fails.
Resolve ==
    /\ pc[Caller] = "resolve"
    /\ \/ pc' = [pc EXCEPT ![Caller] = "call"] /\ UNCHANGED val
       \/ pc' = [pc EXCEPT ![Caller] = "exited"] /\ val' = [val EXCEPT ![Caller] = "unresolved"]
    /\ UNCHANGED <<given, history, entry, at, tries, waits, slot, lineage, done>>

\* The chain's answer becomes Execute's; only the Duration of a result is added.
ExecuteReturns ==
    /\ pc[Caller] = "return" /\ at[Caller] = 1
    /\ pc' = [pc EXCEPT ![Caller] = "exited"]
    /\ UNCHANGED <<given, history, entry, at, val, tries, waits, slot, lineage, done>>

\* base: f.Format(ctx, req).
FormatBegins(g) ==
    /\ pc[g] = "call" /\ at[g] = Len(chain) + 1
    /\ pc' = [pc EXCEPT ![g] = "format"]
    /\ begun' = begun + 1
    /\ late' = IF done[g] THEN late + 1 ELSE late
    /\ UNCHANGED <<given, seen, entry, at, val, tries, waits, slot, lineage, done>>

FormatReturns(g) ==
    /\ pc[g] = "format"
    /\ \E v \in Outcomes : Returns(g, v) /\ seen' = seen \cup {v}
    /\ UNCHANGED <<given, begun, late, entry, at, tries, waits, slot, lineage, done>>
-----------------------------------------------------------------------------
\* ValidationMiddleware before and after next: empty input is rejected without a call,
\* an empty successful output is turned into an error.
ValidationCalled(g) ==
    /\ Calling(g, "validation")
    /\ IF blank THEN Returns(g, "rejected") /\ UNCHANGED at
                ELSE CallsInner(g, at[g]) /\ UNCHANGED val
    /\ UNCHANGED <<given, history, entry, tries, waits, slot, lineage, done>>

ValidationAnsweredUnchecked(g) ==   \* mutant: the output is not checked
    /\ Answered(g, "validation")
    /\ at' = [at EXCEPT ![g] = Outer(g)]
    /\ UNCHANGED <<given, history, pc, val, entry, tries, waits, slot, lineage, done>>

ValidationAnswered(g) ==
    /\ Answered(g, "validation")
    /\ at' = [at EXCEPT ![g] = Outer(g)]
    /\ val' = [val EXCEPT ![g] = IF @ = "empty" THEN "invalid" ELSE @]
    /\ UNCHANGED <<given, history, pc, entry, tries, waits, slot, lineage, done>>
-----------------------------------------------------------------------------
\* RetryMiddleware.
RetryCalled(g) ==
    /\ Calling(g, "retry")
    /\ CallsInner(g, at[g])
    /\ tries' = [tries EXCEPT ![g][at[g]] = 0]
    /\ UNCHANGED <<given, history, val, entry, waits, slot, lineage, done>>

\* err == nil: the result is passed on, also when it says Success = false.
RetrySucceeds(g) ==
    /\ Answered(g, "retry") /\ val[g] \in Results
    /\ at' = [at EXCEPT ![g] = Outer(g)]
    /\ UNCHANGED <<given, history, pc, val, entry, tries, waits, slot, lineage, done>>

\* The loop ends on a done context or after the last attempt.
RetryGivesUpEarly(g) ==          \* mutant: one attempt too few
    /\ Answered(g, "retry") /\ val[g] \in Errors
    /\ done[g] \/ tries[g][Outer(g)] + 1 >= Limit
    /\ at' = [at EXCEPT ![g] = Outer(g)]
    /\ val' = [val EXCEPT ![g] = "exhausted"]
    /\ UNCHANGED <<given, history, pc, entry, tries, waits, slot, lineage, done>>

RetryGivesUp(g) ==
    /\ Answered(g, "retry") /\ val[g] \in Errors
    /\ done[g] \/ tries[g][Outer(g)] >= Limit
    /\ at' = [at EXCEPT ![g] = Outer(g)]
    /\ val' = [val EXCEPT ![g] = "exhausted"]
    /\ UNCHANGED <<given, history, pc, entry, tries, waits, slot, lineage, done>>

RetryBacksOffOnceMore(g) ==      \* mutant: <= for <
    /\ Answered(g, "retry") /\ val[g] \in Errors
    /\ ~done[g] /\ tries[g][Outer(g)] <= Limit
    /\ pc' = [pc EXCEPT ![g] = "sleep"]
    /\ at' = [at EXCEPT ![g] = Outer(g)]
    /\ UNCHANGED <<given, history, val, entry, tries, waits, slot, lineage, done>>

RetryBacksOffUnchecked(g) ==     \* mutant: the context is not looked at
    /\ Answered(g, "retry") /\ val[g] \in Errors
    /\ tries[g][Outer(g)] < Limit
    /\ pc' = [pc EXCEPT ![g] = "sleep"]
    /\ at' = [at EXCEPT ![g] = Outer(g)]
    /\ UNCHANGED <<given, history, val, entry, tries, waits, slot, lineage, done>>

RetryBacksOff(g) ==
    /\ Answered(g, "retry") /\ val[g] \in Errors
    /\ ~done[g] /\ tries[g][Outer(g)] < Limit
    /\ pc' = [pc EXCEPT ![g] = "sleep"]
    /\ at' = [at EXCEPT ![g] = Outer(g)]
    /\ UNCHANGED <<given, history, val, entry, tries, waits, slot, lineage, done>>

\* time.Sleep ends, attempt++ and the next attempt starts: the context is not looked at.
RetryWakes(g) ==
    /\ pc[g] = "sleep"
    /\ CallsInner(g, at[g])
    /\ tries' = [tries EXCEPT ![g][at[g]] = @ + 1]
    /\ UNCHANGED <<given, history, val, entry, waits, slot, lineage, done>>
-----------------------------------------------------------------------------
\* TimeoutMiddleware derives a context and starts the rest of the chain in goroutine c.
TimeoutCalledDetached(g, c) ==   \* mutant: a context of its own
    /\ Calling(g, "timeout") /\ pc[c] = "unborn" /\ c = Fresh
    /\ pc' = [pc EXCEPT ![g] = "select", ![c] = "call"]
    /\ waits' = [waits EXCEPT ![g] = c]
    /\ entry' = [entry EXCEPT ![c] = InnerTo(at[g])]
    /\ at' = [at EXCEPT ![c] = InnerTo(at[g])]
    /\ lineage' = [lineage EXCEPT ![c] = {c}]
    /\ UNCHANGED <<given, history, val, tries, slot, done>>

TimeoutCalled(g, c) ==
    /\ Calling(g, "timeout") /\ pc[c] = "unborn" /\ c = Fresh
    /\ pc' = [pc EXCEPT ![g] = "select", ![c] = "call"]
    /\ waits' = [waits EXCEPT ![g] = c]
    /\ entry' = [entry EXCEPT ![c] = InnerTo(at[g])]
    /\ at' = [at EXCEPT ![c] = InnerTo(at[g])]
    /\ lineage' = [lineage EXCEPT ![c] = lineage[g] \cup {c}]
    /\ done' = [done EXCEPT ![c] = done[g]]
    /\ UNCHANGED <<given, history, val, tries, slot>>

\* The child sends to the buffered channel and ends, whether or not anyone still listens.
ChildSendsUnbuffered(c) ==     \* mutant: a channel without a buffer
    /\ c # Caller /\ pc[c] = "return" /\ at[c] = entry[c]
    /\ \E g \in Goroutines : pc[g] = "select" /\ waits[g] = c
    /\ slot' = [slot EXCEPT ![c] = val[c]]
    /\ pc' = [pc EXCEPT ![c] = "exited"]
    /\ UNCHANGED <<given, history, entry, at, val, tries, waits, lineage, done>>

ChildSends(c) ==
    /\ c # Caller /\ pc[c] = "return" /\ at[c] = entry[c]
    /\ slot' = [slot EXCEPT ![c] = val[c]]
    /\ pc' = [pc EXCEPT ![c] = "exited"]
    /\ UNCHANGED <<given, history, entry, at, val, tries, waits, lineage, done>>

\* select: the answer and ctx.Done() are taken at random when both are ready; the
\* deferred cancel() then ends the derived context in either case.
SelectAnswer(g) ==
    /\ pc[g] = "select" /\ slot[waits[g]] # None
    /\ Returns(g, slot[waits[g]])
    /\ done' = Expired(waits[g])
    /\ waits' = [waits EXCEPT ![g] = None]
    /\ UNCHANGED <<given, history, entry, at, tries, slot, lineage>>

SelectDoneJoins(g) ==      \* mutant: the child is waited for
    /\ pc[g] = "select" /\ done[waits[g]] /\ pc[waits[g]] = "exited"
    /\ Returns(g, "timedout")
    /\ done' = Expired(waits[g])
    /\ waits' = [waits EXCEPT ![g] = None]
    /\ UNCHANGED <<given, history, entry, at, tries, slot, lineage>>

SelectDone(g) ==
    /\ pc[g] = "select" /\ done[waits[g]]
    /\ Returns(g, "timedout")
    /\ done' = Expired(waits[g])
    /\ waits' = [waits EXCEPT ![g] = None]
    /\ UNCHANGED <<given, history, entry, at, tries, slot, lineage>>

\* The timer of context.WithTimeout fires for the context of goroutine c.
DeadlineFires(c) ==
    /\ c # Caller /\ pc[c] # "unborn" /\ ~done[c]
    /\ done' = Expired(c)
    /\ UNCHANGED <<given, history, pc, entry, at, val, tries, waits, slot, lineage>>

\* The caller's own context is cancelled, before or during the call.
CallerCancels ==
    /\ pc[Caller] # "exited" /\ ~done[Caller]
    /\ done' = Expired(Caller)
    /\ UNCHANGED <<given, history, pc, entry, at, val, tries, waits, slot, lineage>>
-----------------------------------------------------------------------------
\* The steps a goroutine takes by itself, once the scheduler runs it.
Step(g) ==
    \/ FormatBegins(g)
    \/ ValidationCalled(g) \/ ValidationAnswered(g)
    \/ RetryCalled(g) \/ RetrySucceeds(g) \/ RetryGivesUp(g) \/ RetryBacksOff(g)
    \/ RetryWakes(g)
    \/ \E c \in Goroutines : TimeoutCalled(g, c)
    \/ ChildSends(g)
    \/ SelectAnswer(g) \/ SelectDone(g)

Next ==
    \/ Resolve \/ ExecuteReturns \/ CallerCancels
    \/ \E g \in Goroutines : Step(g) \/ FormatReturns(g) \/ DeadlineFires(g)

Spec == Init /\ [][Next]_vars

\* Every runnable goroutine is eventually run, a sleep ends and a timer fires.  Nothing
\* is assumed of Format, nor of the caller cancelling.
Fairness ==
    /\ WF_vars(Resolve) /\ WF_vars(ExecuteReturns)
    /\ \A g \in Goroutines : WF_vars(Step(g)) /\ WF_vars(DeadlineFires(g))
FairSpec == Spec /\ Fairness

\* Format returns, in the end: the formatter honours its context or is merely slow.
FormatsReturn == \A g \in Goroutines : WF_vars(FormatReturns(g))
-----------------------------------------------------------------------------
TypeOK ==
    /\ chain \in Seq(Kinds) /\ retries \in Int /\ blank \in BOOLEAN
    /\ pc \in [Goroutines -> PCs]
    /\ entry \in [Goroutines -> 1 .. Len(chain) + 1]
    /\ at \in [Goroutines -> 1 .. Len(chain) + 1]
    /\ val \in [Goroutines -> Results \cup Errors \cup {None}]
    /\ tries \in [Goroutines -> [Positions -> 0 .. Limit]]
    /\ waits \in [Goroutines -> Goroutines \cup {None}]
    /\ slot \in [Goroutines -> Results \cup Errors \cup {None}]
    /\ lineage \in [Goroutines -> SUBSET Goroutines]
    /\ done \in [Goroutines -> BOOLEAN]
    /\ seen \subseteq Outcomes /\ begun \in Nat /\ late \in 0 .. begun

Has(kind) == \E p \in Positions : chain[p] = kind

\* A timeout inside a retry: every attempt runs in a goroutine and on a context of its own.
TimeoutPerAttempt ==
    \E p, q \in Positions : p < q /\ chain[p] = "retry" /\ chain[q] = "timeout"

\* Once Execute has answered, no goroutine it left behind holds a live context, so a
\* formatter that honours its context is told to stop: the deferred cancel (executor.go:288)
\* reaches every context derived from the one it ends, at any depth of timeouts.
AnsweredMeansCancelled ==
    pc[Caller] = "exited" => \A c \in Born \ {Caller} : done[c]

\* With ValidationMiddleware anywhere in the chain, Execute never answers with an empty
\* success, and a request without content reaches no formatter.
Validated ==
    Has("validation") =>
        /\ pc[Caller] = "exited" => val[Caller] # "empty"
        /\ blank => begun = 0

\* RetryMiddleware reports failure on a live context only after 1 + maxRetries attempts, that is
\* after as many Format calls at least; KeepsPromise bounds them from above.
EveryAttemptMade ==
    \A g \in Goroutines :
        (/\ pc[g] = "return" /\ at[g] \in Positions /\ chain[at[g]] = "retry"
         /\ val[g] = "exhausted" /\ ~done[g] /\ ~blank /\ ~TimeoutPerAttempt)
            => begun >= Limit + 1

\* With TimeoutMiddleware in the chain, Execute answers even if Format never does.
TimeoutBoundsTheCall == Has("timeout") => <>(pc[Caller] = "exited")

\* If every Format call returns, no goroutine stays behind: an answer that nobody receives
\* fits in its channel (executor.go:290-291).
NoGoroutineLeak ==
    FormatsReturn => \A g \in Goroutines : pc[g] # "unborn" ~> pc[g] = "exited"

\* The documents' words (docs/USER_GUIDE.md:413, docs/API_REFERENCE.md:652):
\* RetryMiddleware "respects context cancellation", so it starts no attempt after it.
RetryRespectsCancellation ==
    [][\A g \in Goroutines : (pc[g] = "sleep" /\ pc'[g] = "call") => ~done[g]]_vars

\* The abstract call: what Execute promises about the Format calls it makes.  Each of them is made
\* at one attempt of every retry in the chain, and no two at the same.
Retries == {p \in Positions : chain[p] = "retry"}
Attempts == Cardinality([Retries -> 0 .. Limit])
LateAttempts == IF TimeoutPerAttempt THEN Attempts ELSE 1
Promise == INSTANCE FormatCall WITH
    Failures <- Errors,
    left     <- Attempts - begun,
    lateLeft <- LateAttempts - late,
    running  <- Cardinality({g \in Goroutines : pc[g] = "format"}),
    reply    <- IF pc[Caller] = "exited" THEN {val[Caller]} ELSE {}
KeepsPromise == Promise!Spec
=============================================================================
