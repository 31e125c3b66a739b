--------------------------- MODULE SequentialFormat ---------------------------
(***************************************************************************)
(* The loops that make one Format call after another, down to the child    *)
(* processes and HTTP exchanges of the calls: Pipeline.Execute             *)
(* (pkg/executor/executor.go), which hands the output of a step to the     *)
(* next one, and the FormatBatch methods of the native and of the service  *)
(* formatters (pkg/native/native.go, pkg/service/service.go).              *)
(*                                                                         *)
(* A text is the sequence of its lines, as strings.Split gives it.  What a *)
(* child process or a service answers, and when, is up to them.  A child   *)
(* may leave a process behind that holds its output open: cmd.Run waits    *)
(* for that one too.  NativeFormatter.formatFunc, an injection for tests,  *)
(* is not set.                                                             *)
(***************************************************************************)
EXTENDS Integers, Sequences, FiniteSets

CONSTANTS
    Texts,     \* contents of requests and outputs of formatters: sequences of lines
    Blank,     \* the line without characters
    Plans,     \* the calls explored: [api, kinds, timeout], the kinds of the formatters in
               \* order and the Timeout that the services are configured with
    None

APIs  == {"Pipeline", "NativeBatch", "ServiceBatch"}
Kinds == {"native", "service"}

ASSUME TextsAssumption == Texts \subseteq Seq(UNION {{t[i] : i \in DOMAIN t} : t \in Texts})
ASSUME PlansAssumption == \A p \in Plans : p.api \in APIs /\ p.kinds \in Seq(Kinds) /\ p.timeout \in Nat
ASSUME NoneAssumption  == None \notin Texts

VARIABLES
    plan,      \* which call it is
    contents,  \* the requests' contents: one for a pipeline, one per formatter for a batch
    done,      \* ctx.Err() != nil
    pc,        \* "loop", "run" (a child), "exchange" (an HTTP request), "returned", "answered"
    step,      \* the number of the Format call
    current,   \* Pipeline's current, or the content of the batch's next request
    child,     \* the child process: "none", "running", "succeeded", "failed" or "killed"
    output,    \* what it has written to stdout
    held,      \* a process it left behind still holds its stdout
    results,   \* the batch's results so far
    answer,    \* what the caller gets, or None so far
    fed,       \* history: the contents given to the Format calls
    returned   \* history: what the calls returned

vars == <<plan, contents, done, pc, step, current, child, output, held, results, answer,
          fed, returned>>
process == <<child, output, held>>

Last == returned[Len(returned)]
Count == Len(plan.kinds)

\* LinesChanged: positions at which the lines differ, a missing line taken as a blank one.
LineOf(t, i) == IF i <= Len(t) THEN t[i] ELSE Blank
LongestOf(t, u) == IF Len(t) >= Len(u) THEN Len(t) ELSE Len(u)
LinesChangedByOriginal(t, u) ==      \* mutant: the lines of the original only
    Cardinality({i \in 1 .. Len(t) : LineOf(t, i) # LineOf(u, i)})
computeLineChanges(t, u) ==
    Cardinality({i \in 1 .. LongestOf(t, u) : LineOf(t, i) # LineOf(u, i)})

\* What Format returns: a result, and whether there is an error beside it.
Formatted(text, isChanged, lines) ==
    [success |-> TRUE, err |-> FALSE, text |-> text, changed |-> isChanged, lines |-> lines]
Failed(isError) ==
    [success |-> FALSE, err |-> isError, text |-> None, changed |-> FALSE, lines |-> 0]

Init ==
    /\ plan \in Plans
    /\ contents \in [1 .. IF plan.api = "Pipeline" THEN 1 ELSE Count -> Texts]
    /\ done = FALSE /\ pc = "loop" /\ step = 1
    /\ current = IF contents = <<>> THEN None ELSE contents[1]
    /\ child = "none" /\ output = None /\ held = FALSE
    /\ results = <<>> /\ answer = None /\ fed = <<>> /\ returned = <<>>

CallerCancels ==
    /\ pc # "answered" /\ ~done /\ done' = TRUE
    /\ UNCHANGED <<plan, contents, pc, step, current, process, results, answer, fed, returned>>

\* Format(ctx, req) of the next formatter begins.
Calls(kind) ==
    /\ pc = "loop" /\ step <= Count /\ plan.kinds[step] = kind
    /\ fed' = Append(fed, current)

Returns(r) == pc' = "returned" /\ returned' = Append(returned, r)
-----------------------------------------------------------------------------
\* NativeFormatter.Format: cmd.Run starts the child, unless the context is done already.
ChildStarts ==
    /\ Calls("native") /\ ~done
    /\ child' = "running" /\ pc' = "run"
    /\ UNCHANGED <<plan, contents, done, step, current, output, held, results, answer, returned>>

\* There is no such binary, or the context is done: a failed result and no error.
ChildDoesNotStart ==
    /\ Calls("native")
    /\ Returns(Failed(FALSE))
    /\ UNCHANGED <<plan, contents, done, step, current, process, results, answer>>

\* The child, on its own: it writes an answer and exits, with or without a process left behind.
ChildExits ==
    /\ child = "running"
    /\ \/ child' = "succeeded" /\ output' \in Texts
       \/ child' = "failed" /\ UNCHANGED output
    /\ held' \in BOOLEAN
    /\ UNCHANGED <<plan, contents, done, pc, step, current, results, answer, fed, returned>>

ChildIsNotKilled == FALSE /\ UNCHANGED vars      \* mutant: exec.Command

\* exec.CommandContext kills the child, and only the child.
ChildIsKilled ==
    /\ child = "running" /\ done
    /\ child' = "killed" /\ held' \in BOOLEAN
    /\ UNCHANGED <<plan, contents, done, pc, step, current, output, results, answer, fed, returned>>

HolderExits ==
    /\ held /\ held' = FALSE
    /\ UNCHANGED <<plan, contents, done, pc, step, current, child, output, results, answer, fed,
                   returned>>

\* cmd.Run returns when the child has ended and its output is closed.  With a context that is
\* done it may report the context's error for a child that has succeeded.
RunReturns ==
    /\ pc = "run" /\ child \notin {"none", "running"} /\ ~held
    /\ \/ child = "succeeded" /\ Returns(Formatted(output, output # current,
                                                   computeLineChanges(current, output)))
       \/ (child # "succeeded" \/ done) /\ Returns(Failed(FALSE))
    /\ child' = "none" /\ output' = None /\ UNCHANGED held
    /\ UNCHANGED <<plan, contents, done, step, current, results, answer, fed>>
-----------------------------------------------------------------------------
\* ServiceFormatter.Format: the request is marshalled and sent, or one of the two fails.
RequestIsSent ==
    /\ Calls("service")
    /\ pc' = "exchange"
    /\ UNCHANGED <<plan, contents, done, step, current, process, results, answer, returned>>

RequestIsNotSent ==
    /\ Calls("service")
    /\ Returns(Failed(TRUE))
    /\ UNCHANGED <<plan, contents, done, step, current, process, results, answer>>

\* The service answers: whatever the status code, the body decides.  It says itself whether
\* it has changed the text.
ServiceAnswers ==
    /\ pc = "exchange"
    /\ \E t \in Texts, c \in BOOLEAN : Returns(Formatted(t, c, 0))
    /\ UNCHANGED <<plan, contents, done, step, current, process, results, answer, fed>>

\* The transport fails, or the body is unreadable, malformed or says success = false.
ExchangeFails ==
    /\ pc = "exchange"
    /\ Returns(Failed(TRUE))
    /\ UNCHANGED <<plan, contents, done, step, current, process, results, answer, fed>>

\* The context ends the exchange, or the HTTP client's Timeout, where there is one: a client
\* with a timeout of zero has none, and NewServiceFormatter gives it 30 seconds instead.
TimeoutAsGiven(t) == t       \* mutant: no default
Timeout(t) == IF t = 0 THEN 30 ELSE t

ExchangeIsEnded ==
    /\ pc = "exchange" /\ (done \/ Timeout(plan.timeout) > 0)
    /\ Returns(Failed(TRUE))
    /\ UNCHANGED <<plan, contents, done, step, current, process, results, answer, fed>>
-----------------------------------------------------------------------------
Answers(r) == pc' = "answered" /\ answer' = r

\* Pipeline.Execute: an error ends the pipeline without a result, a failed result ends it with
\* that result, and a good one is the next step's input.
PipelineStops ==
    /\ plan.api = "Pipeline" /\ pc = "returned" /\ ~Last.success
    /\ Answers(Last)
    /\ UNCHANGED <<plan, contents, done, step, current, process, results, fed, returned>>

PipelineFeedsFailures ==      \* mutant: and a failed result's text is the next input
    /\ plan.api = "Pipeline" /\ pc = "returned" /\ ~Last.err
    /\ pc' = "loop" /\ step' = step + 1 /\ current' = Last.text
    /\ UNCHANGED <<plan, contents, done, process, results, answer, fed, returned>>

PipelineGoesOnAnyway ==       \* mutant: only an error ends the pipeline
    /\ plan.api = "Pipeline" /\ pc = "returned" /\ ~Last.err
    /\ pc' = "loop" /\ step' = step + 1
    /\ current' = IF Last.success THEN Last.text ELSE current
    /\ UNCHANGED <<plan, contents, done, process, results, answer, fed, returned>>

PipelineGoesOn ==
    /\ plan.api = "Pipeline" /\ pc = "returned" /\ Last.success
    /\ pc' = "loop" /\ step' = step + 1 /\ current' = Last.text
    /\ UNCHANGED <<plan, contents, done, process, results, answer, fed, returned>>

\* With every step done, Changed compares the last result with the first content; a pipeline
\* without steps answers the content itself.
PipelineEndsWithLast ==       \* mutant: the last step's Changed
    /\ plan.api = "Pipeline" /\ pc = "loop" /\ step > Count
    /\ Answers(IF Count = 0 THEN Formatted(contents[1], FALSE, 0) ELSE Last)
    /\ UNCHANGED <<plan, contents, done, step, current, process, results, fed, returned>>

PipelineEnds ==
    /\ plan.api = "Pipeline" /\ pc = "loop" /\ step > Count
    /\ Answers(IF Count = 0 THEN Formatted(contents[1], FALSE, 0)
               ELSE [Last EXCEPT !.changed = Last.text # contents[1]])
    /\ UNCHANGED <<plan, contents, done, step, current, process, results, fed, returned>>

\* FormatBatch, native: an error would end the batch, but Format returns none.  Service: an
\* error becomes a failed result of its request.
BatchAbortsOnError ==         \* mutant: the service batch ends at the first error
    /\ plan.api # "Pipeline" /\ pc = "returned"
    /\ results' = Append(results, Last)
    /\ step' = IF Last.err THEN Count + 1 ELSE step + 1
    /\ pc' = "loop" /\ current' = IF step < Count THEN contents[step + 1] ELSE current
    /\ UNCHANGED <<plan, contents, done, process, answer, fed, returned>>

BatchGoesOn ==
    /\ plan.api # "Pipeline" /\ pc = "returned"
    /\ results' = Append(results, Last)
    /\ step' = step + 1
    /\ pc' = "loop" /\ current' = IF step < Count THEN contents[step + 1] ELSE current
    /\ UNCHANGED <<plan, contents, done, process, answer, fed, returned>>

BatchEnds ==
    /\ plan.api # "Pipeline" /\ pc = "loop" /\ step > Count
    /\ pc' = "answered"
    /\ UNCHANGED <<plan, contents, done, step, current, process, results, answer, fed, returned>>
-----------------------------------------------------------------------------
\* What the calling goroutine does by itself.
Step == \/ ChildStarts \/ ChildDoesNotStart \/ RunReturns
        \/ RequestIsSent \/ RequestIsNotSent \/ ExchangeIsEnded
        \/ PipelineStops \/ PipelineGoesOn \/ PipelineEnds \/ BatchGoesOn \/ BatchEnds

Next == \/ Step \/ CallerCancels \/ ChildIsKilled
        \/ ChildExits \/ HolderExits \/ ServiceAnswers \/ ExchangeFails

Spec == Init /\ [][Next]_vars

\* The goroutine runs, the HTTP client's timer fires and a kill is delivered.  Nothing is
\* assumed of child processes, of those they leave behind, or of services.
FairSpec == Spec /\ WF_vars(Step) /\ WF_vars(ChildIsKilled)
-----------------------------------------------------------------------------
Outcome == [success : BOOLEAN, err : BOOLEAN, text : Texts \cup {None}, changed : BOOLEAN,
            lines : Nat]

TypeOK ==
    /\ plan \in Plans /\ contents \in Seq(Texts) /\ done \in BOOLEAN
    /\ pc \in {"loop", "run", "exchange", "returned", "answered"}
    /\ step \in 1 .. Count + 1 /\ current \in Texts \cup {None}
    /\ child \in {"none", "running", "succeeded", "failed", "killed"}
    /\ output \in Texts \cup {None} /\ held \in BOOLEAN
    /\ results \in Seq(Outcome) /\ answer \in Outcome \cup {None}
    /\ fed \in Seq(Texts) /\ returned \in Seq(Outcome)

\* A pipeline reports success only when every step succeeded on the output of the step before
\* it, the first one on the request (executor.go:185-213).
SuccessIsOfAllSteps ==
    (answer # None /\ answer.success) =>
        /\ Len(returned) = Count /\ \A i \in 1 .. Count : returned[i].success
        /\ \A i \in 1 .. Count : fed[i] = IF i = 1 THEN contents[1] ELSE returned[i - 1].text
        /\ answer.text = IF Count = 0 THEN contents[1] ELSE returned[Count].text

\* The Changed of a pipeline is about the request, also where a step undoes what another did
\* and whatever a service says of its own step (executor.go:223).
ChangedIsAboutTheRequest ==
    (answer # None /\ answer.success) => (answer.changed <=> answer.text # contents[1])

\* FormatBatch answers every request, in its place and with the outcome of its own Format
\* call, however many of the others fail (service.go:205-223, native.go:106-126).
BatchAnswersEachRequest ==
    (pc = "answered" /\ plan.api # "Pipeline") =>
        /\ Len(results) = Count /\ results = returned
        /\ fed = contents

\* A count of zero changed lines means that the texts are the same but for blank lines at their
\* ends (native.go:164-191).
IsTrimmed(t, u) == /\ Len(u) <= Len(t) /\ u = SubSeq(t, 1, Len(u))
                   /\ \A j \in Len(u) + 1 .. Len(t) : t[j] = Blank
ZeroMeansAlike ==
    \A i \in DOMAIN returned :
        (plan.kinds[i] = "native" /\ returned[i].success /\ returned[i].lines = 0) =>
            \E n \in 0 .. Len(fed[i]) : LET u == SubSeq(fed[i], 1, n) IN
                IsTrimmed(fed[i], u) /\ IsTrimmed(returned[i].text, u)

\* Services answer late or never, and the call ends all the same (service.go:83-85).
ServicesAreTimed ==
    (\A i \in 1 .. Count : plan.kinds[i] = "service") ~> pc = "answered"

\* A cancelled call ends, unless a process that the child left behind holds its output open:
\* native.go sets no WaitDelay (native.go:52-62).
CancelEndsTheCall == done ~> (pc = "answered" \/ held)
=============================================================================
