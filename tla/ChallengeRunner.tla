---------------------------- MODULE ChallengeRunner ----------------------------
(***************************************************************************)
(* The self-test of the library: challenges/runner/main.go, which runs     *)
(* eight checks in one locale and tells the outcome by its exit code, and  *)
(* challenges/formatters_describe_challenge.sh, the gate, which runs it    *)
(* twice as it is and once with each of its eight mutations.               *)
(*                                                                         *)
(* The library under test is the set of its faults, the same in every run: *)
(* what a call gives is what it gives without faults, but for the faults   *)
(* that are in its way.  A mutation is a hook in the runner that makes one *)
(* of its own checks fail; one that has gone stale no longer bites.        *)
(***************************************************************************)
EXTENDS Integers, Sequences, SequencesExt, FiniteSets

CONSTANTS
    Cases,       \* the challenges explored: [faults, hooks, gate, run], see Init
    None

\* What the gate must find: a call that fails or gives the wrong thing.
Seen == {"Register", "List", "Get", "GetByLanguage", "Execute", "bytes of en", "bytes of sr",
         "Format not called", "Pipeline", "step not called", "entry lost", "entry mixed up",
         "key too coarse", "constructor", "detection", "ambiguity accepted"}

\* What no check looks at: check3 asks for one Format call or more, check4 for the number of
\* calls of each step and not for their order.
Unseen == {"Format called twice", "steps swapped"}

Faults == Seen \cup Unseen

\* In the order of the checks they are aimed at, and of the gate's loop.
Mutations == <<"skip_registry", "corrupt_roundtrip", "no_format_call", "skip_steps",
               "cache_miss", "constructor_drift", "detect_drift", "accept_ambiguous">>
NumChecks == Len(Mutations)
Target(m) == CHOOSE k \in 1 .. NumChecks : Mutations[k] = m

Locales == {"en", "sr"}     \* those that have labels

ASSUME CasesAssumption ==
    \A c \in Cases : /\ c.faults \subseteq Faults /\ c.hooks \subseteq ToSet(Mutations)
                     /\ c.gate \in BOOLEAN
                     /\ DOMAIN c.run = {"lang", "mutation"}
ASSUME NoneAssumption == None \notin Int \cup ToSet(Mutations)

VARIABLES
    faults,      \* of the library under test
    hooks,       \* the mutations that still bite
    gate,        \* the runs are those of the gate's script, not one made by hand
    todo,        \* runs still to make
    run,         \* the present run: -lang and MUTATE
    phase,       \* "idle", "checks" (the runner runs), "exited" or "over"
    check,       \* the check that is next, the summary after the last
    results,     \* the runner's results; its counters are the numbers in them
    exit,        \* exit code of the run
    pass, fail,  \* the gate's counters
    gateExit     \* exit code of the gate

vars == <<faults, hooks, gate, todo, run, phase, check, results, exit, pass, fail, gateExit>>
library == <<faults, hooks, gate>>
counters == <<pass, fail, gateExit>>

Run(lang, mutation) == [lang |-> lang, mutation |-> mutation]

GateRunsEnglish == <<Run("en", None)>> \o           \* mutant: one baseline is enough
    [k \in 1 .. NumChecks |-> Run("en", Mutations[k])]
GateRuns == <<Run("en", None), Run("sr", None)>> \o
    [k \in 1 .. NumChecks |-> Run("en", Mutations[k])]

Init ==
    /\ \E c \in Cases : /\ faults = c.faults /\ hooks = c.hooks /\ gate = c.gate
                        /\ todo = IF c.gate THEN GateRuns ELSE <<c.run>>
                        /\ run = c.run
    /\ phase = "idle" /\ check = 1 /\ results = <<>> /\ exit = None
    /\ pass = 0 /\ fail = 0 /\ gateExit = None
-----------------------------------------------------------------------------
(* The checks, each as what it asks for, in that order: a check that does  *)
(* not get one of these records a failure and returns, and one that gets   *)
(* all of them records a pass.                                             *)

Works(call) == call \notin faults
Bites(m) == run.mutation = m /\ m \in hooks

\* The fixtures of the runner's locale: language and locale of each.
fixtures == {<<"go", "en">>, <<"go", "sr">>, <<"python", "en">>, <<"python", "sr">>,
             <<"sql", "en">>}
ActiveFixtures == {x \in fixtures : run.lang \in {x[2], "all"}}

\* Execute finds the formatter and calls it: what it rests on.
ExecuteWorks == Works("Register") /\ Works("GetByLanguage") /\ Works("Execute")

check1RegistryRegistersAndLooksUp ==
    LET registered == ~Bites("skip_registry")
    IN  <<registered => Works("Register"),
          registered /\ Works("List"),
          registered /\ Works("Get"),
          registered /\ Works("GetByLanguage")>>

check2ExecutorRoundTripsBilingualFixtures ==
    LET seeded  == {"go", "python", "sql"}
        bytes   == [en |-> "bytes of en", sr |-> "bytes of sr"]
        kept(x) == ~Bites("corrupt_roundtrip") /\ Works(bytes[x[2]])
    IN  <<Works("Register"),
          \A x \in ActiveFixtures : x[1] \in seeded /\ ExecuteWorks,
          \A x \in ActiveFixtures : kept(x)>>

\* The error of Register is dropped here: Execute then finds no formatter.
check3MiddlewareChainExecutes ==
    LET calls == IF Bites("no_format_call") \/ ~Works("Format not called") THEN 0
                 ELSE IF Works("Format called twice") THEN 1 ELSE 2
    IN  <<ExecuteWorks, calls # 0>>

check4PipelineComposesSteps ==
    LET calls == [step \in {"a", "b", "c"} |->
                     IF step = "a" /\ Bites("skip_steps") THEN 0
                     ELSE IF step = "b" /\ ~Works("step not called") THEN 0 ELSE 1]
    IN  <<Works("Pipeline"), \A step \in {"a", "b", "c"} : calls[step] = 1>>

\* With the mutation the request that is looked up is not the one that was stored.
check5CacheStoresAndRetrieves ==
    LET sameKey == Bites("cache_miss") => ~Works("key too coarse")
    IN  <<sameKey /\ Works("entry lost"), Works("entry mixed up")>>

\* The constructors' name and languages, and those that the check asks for.
constructors ==
    {<<"gofmt", {"go"}>>, <<"black", {"python"}>>, <<"rustfmt", {"rust"}>>, <<"sqlformat", {"sql"}>>,
     <<"prettier", {"typescript", "json", "html", "css", "scss", "markdown", "yaml", "graphql"}
                   \cup (IF Works("constructor") THEN {"javascript"} ELSE {})>>}
check6NativeConstructorsExpose ==
    LET specs == {<<"gofmt", "go">>, <<"black", "python">>, <<"prettier", "javascript">>,
                  <<"rustfmt", "rust">>, <<"sqlformat", "sql">>}
    IN  <<\A s \in specs : \E c \in constructors : c[1] = s[1] /\ s[2] \in c[2],
          ~Bites("constructor_drift")>>

\* The entries of the table of extensions that the check asks for.
DetectLanguageFromPath ==
    [go |-> "go", py |-> "python", ts |-> IF Works("detection") THEN "typescript" ELSE "",
     scss |-> "scss", sql |-> "sql"]
check7DetectLanguageFromPath ==
    LET cases == {<<"go", "go">>, <<"py", "python">>, <<"ts", "typescript">>, <<"scss", "scss">>,
                  <<"sql", "sql">>}
        got(ext) == IF Bites("detect_drift") THEN "wrong" ELSE DetectLanguageFromPath[ext]
    IN  <<\A c \in cases : got(c[1]) = c[2]>>

check8ExecutorRejectsAmbiguous ==
    <<~Bites("accept_ambiguous") /\ Works("ambiguity accepted")>>

Check(k) == CASE k = 1 -> check1RegistryRegistersAndLooksUp
              [] k = 2 -> check2ExecutorRoundTripsBilingualFixtures
              [] k = 3 -> check3MiddlewareChainExecutes
              [] k = 4 -> check4PipelineComposesSteps
              [] k = 5 -> check5CacheStoresAndRetrieves
              [] k = 6 -> check6NativeConstructorsExpose
              [] k = 7 -> check7DetectLanguageFromPath
              [] k = 8 -> check8ExecutorRejectsAmbiguous

\* What a check that asks for these records: one failure, or one pass.
VerdictsWithoutReturn(asked) ==      \* mutant: no return after a recorded failure
    SelectSeq(asked, LAMBDA ok : ~ok) \o <<TRUE>>
Verdicts(asked) == IF \E i \in DOMAIN asked : ~asked[i] THEN <<FALSE>> ELSE <<TRUE>>
-----------------------------------------------------------------------------
\* main up to the checks.
RunnerStarts ==
    /\ phase = "idle" /\ todo # <<>>
    /\ run' = Head(todo) /\ todo' = Tail(todo)
    /\ check' = 1 /\ results' = <<>>
    /\ IF run'.lang \in Locales \cup {"all"}
       THEN phase' = "checks" /\ exit' = None
       ELSE phase' = "exited" /\ exit' = 2
    /\ UNCHANGED <<library, counters>>

\* A check and its call of record, which looks up a label of the locale after it has stored
\* the result, and exits where there is none.
RunsCheck ==
    /\ phase = "checks" /\ check <= NumChecks
    /\ check' = check + 1
    /\ results' = results \o [i \in DOMAIN Verdicts(Check(check)) |->
                                 [check |-> check, passed |-> Verdicts(Check(check))[i]]]
    /\ IF run.lang \in Locales THEN UNCHANGED <<phase, exit>>
                               ELSE phase' = "exited" /\ exit' = 2
    /\ UNCHANGED <<library, todo, run, counters>>

Failed == {results[i].check : i \in {j \in DOMAIN results : ~results[j].passed}}

RunnerExitsWithCount ==      \* mutant: the number of failures as exit code
    /\ phase = "checks" /\ check > NumChecks
    /\ phase' = "exited"
    /\ exit' = IF run.mutation # None THEN 99 ELSE Cardinality(Failed)
    /\ UNCHANGED <<library, todo, run, check, results, counters>>

\* The end of main.
RunnerExits ==
    /\ phase = "checks" /\ check > NumChecks
    /\ phase' = "exited"
    /\ exit' = CASE Failed # {} /\ run.mutation # None -> 99
                 [] Failed # {} /\ run.mutation = None -> 2
                 [] Failed = {} /\ run.mutation # None -> 2
                 [] OTHER -> 0
    /\ UNCHANGED <<library, todo, run, check, results, counters>>

\* The gate looks at the exit code of a baseline or a mutation.
GateJudges ==
    /\ gate /\ phase = "exited"
    /\ phase' = "idle"
    /\ IF exit = (IF run.mutation = None THEN 0 ELSE 99)
       THEN pass' = pass + 1 /\ UNCHANGED fail
       ELSE fail' = fail + 1 /\ UNCHANGED pass
    /\ UNCHANGED <<library, todo, run, check, results, exit, gateExit>>

GateExits ==
    /\ gate /\ phase = "idle" /\ todo = <<>>
    /\ phase' = "over"
    /\ gateExit' = IF fail # 0 THEN 1 ELSE 0
    /\ UNCHANGED <<library, todo, run, check, results, exit, pass, fail>>

Next == RunnerStarts \/ RunsCheck \/ RunnerExits \/ GateJudges \/ GateExits

Spec == Init /\ [][Next]_vars
-----------------------------------------------------------------------------
TypeOK ==
    /\ faults \subseteq Faults /\ hooks \subseteq ToSet(Mutations) /\ gate \in BOOLEAN
    /\ phase \in {"idle", "checks", "exited", "over"} /\ check \in 1 .. NumChecks + 1
    /\ \A i \in DOMAIN results : results[i] \in [check : 1 .. NumChecks, passed : BOOLEAN]
    /\ exit \in {None, 0, 2, 99} /\ gateExit \in {None, 0, 1}
    /\ pass + fail + Len(todo) <= Len(GateRuns)

\* A run in a locale with labels has asked every check once, whatever the earlier ones found,
\* and its exit code says which of the three outcomes it had (main.go:20-24, 622-663): 0 with
\* every check passed, 99 with one failed under a mutation, 2 with anything unexpected.  In any
\* other locale no run gets to the second check: "all", the default, has no labels, so that the
\* first call of record ends the program with 2 whatever the check found (main.go:173, 598,
\* 606-609).
ExitTellsTheRun ==
    phase = "exited" =>
        IF run.lang \in Locales
        THEN /\ [i \in DOMAIN results |-> results[i].check] = [k \in 1 .. NumChecks |-> k]
             /\ exit = 0 <=> Failed = {} /\ run.mutation = None
             /\ exit = 99 <=> Failed # {} /\ run.mutation # None
        ELSE /\ exit = 2
             /\ Len(results) = IF run.lang = "all" THEN 1 ELSE 0

\* The gate exits 0 exactly for a library without the faults that the checks are to see, in
\* either locale, and with no mutation gone stale; and as long as nothing has gone wrong, each
\* mutation flips its own check and no other, so that an exit code of 99 is about that one
\* (formatters_describe_challenge.sh:48-78; docs/test-coverage.md:91-92).
GateIsExact ==
    /\ gateExit # None =>
          (gateExit = 0 <=> faults \subseteq Unseen /\ hooks = ToSet(Mutations))
    /\ (gate /\ phase = "exited" /\ fail = 0 /\ exit = 99) => Failed = {Target(run.mutation)}
=============================================================================
