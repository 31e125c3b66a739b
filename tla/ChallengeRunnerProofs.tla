------------------------- MODULE ChallengeRunnerProofs -------------------------
(***************************************************************************)
(* Proofs about ChallengeRunner, for libraries with any set of faults and  *)
(* any of the mutations gone stale.                                        *)
(***************************************************************************)
EXTENDS ChallengeRunner, SequenceTheorems, TLAPS

\* A check fails if it does not get something that it asks for.
Fails(k) == \E i \in DOMAIN Check(k) : ~Check(k)[i]
Faulty(S) == faults \cap S # {}
-----------------------------------------------------------------------------
(* What each check finds. *)

\* There are eight mutations, each of them another one.
LEMMA MutationsAre ==
    /\ NumChecks = 8 /\ DOMAIN Mutations = 1 .. 8
    /\ Mutations[1] = "skip_registry" /\ Mutations[2] = "corrupt_roundtrip"
    /\ Mutations[3] = "no_format_call" /\ Mutations[4] = "skip_steps"
    /\ Mutations[5] = "cache_miss" /\ Mutations[6] = "constructor_drift"
    /\ Mutations[7] = "detect_drift" /\ Mutations[8] = "accept_ambiguous"
  BY DEF NumChecks, Mutations

\* Each mutation is aimed at one check.
LEMMA TargetIs == \A k \in 1 .. 8 : Target(Mutations[k]) = k
  <1>1. \A j, k \in 1 .. 8 : Mutations[j] = Mutations[k] => j = k
    BY MutationsAre
  <1> QED
    BY <1>1, MutationsAre DEF Target

\* A list of one truth value has a false one if that is false.
LEMMA FailsOne ==
    ASSUME NEW a \in BOOLEAN
    PROVE  (\E i \in DOMAIN <<a>> : ~<<a>>[i]) <=> ~a
  <1>1. DOMAIN <<a>> = {1} /\ <<a>>[1] = a
    OBVIOUS
  <1> QED
    BY <1>1

\* A list of two truth values has a false one if some of them is false.
LEMMA FailsTwo ==
    ASSUME NEW a \in BOOLEAN, NEW b \in BOOLEAN
    PROVE  (\E i \in DOMAIN <<a, b>> : ~<<a, b>>[i]) <=> ~a \/ ~b
  <1>1. DOMAIN <<a, b>> = {1, 2} /\ <<a, b>>[1] = a /\ <<a, b>>[2] = b
    OBVIOUS
  <1> QED
    BY <1>1

\* A list of three truth values has a false one if some of them is false.
LEMMA FailsThree ==
    ASSUME NEW a \in BOOLEAN, NEW b \in BOOLEAN, NEW c \in BOOLEAN
    PROVE  (\E i \in DOMAIN <<a, b, c>> : ~<<a, b, c>>[i]) <=> ~a \/ ~b \/ ~c
  <1>1. /\ DOMAIN <<a, b, c>> = {1, 2, 3}
        /\ <<a, b, c>>[1] = a /\ <<a, b, c>>[2] = b /\ <<a, b, c>>[3] = c
    OBVIOUS
  <1> QED
    BY <1>1

\* A list of four truth values has a false one if some of them is false.
LEMMA FailsFour ==
    ASSUME NEW a \in BOOLEAN, NEW b \in BOOLEAN, NEW c \in BOOLEAN, NEW d \in BOOLEAN
    PROVE  (\E i \in DOMAIN <<a, b, c, d>> : ~<<a, b, c, d>>[i]) <=> ~a \/ ~b \/ ~c \/ ~d
  <1>1. /\ DOMAIN <<a, b, c, d>> = {1, 2, 3, 4}
        /\ <<a, b, c, d>>[1] = a /\ <<a, b, c, d>>[2] = b
        /\ <<a, b, c, d>>[3] = c /\ <<a, b, c, d>>[4] = d
    OBVIOUS
  <1> QED
    BY <1>1

\* The checks are run in this order.
LEMMA CheckIs ==
    /\ Check(1) = check1RegistryRegistersAndLooksUp
    /\ Check(2) = check2ExecutorRoundTripsBilingualFixtures
    /\ Check(3) = check3MiddlewareChainExecutes
    /\ Check(4) = check4PipelineComposesSteps
    /\ Check(5) = check5CacheStoresAndRetrieves
    /\ Check(6) = check6NativeConstructorsExpose
    /\ Check(7) = check7DetectLanguageFromPath
    /\ Check(8) = check8ExecutorRejectsAmbiguous
  BY DEF Check

\* check1 is about the registry.
LEMMA Check1Fails ==
    Fails(1) <=> Bites("skip_registry") \/ Faulty({"Register", "List", "Get", "GetByLanguage"})
  <1> DEFINE registered == ~Bites("skip_registry")
             a == registered => Works("Register")
             b == registered /\ Works("List")
             c == registered /\ Works("Get")
             d == registered /\ Works("GetByLanguage")
  <1>1. Check(1) = <<a, b, c, d>>
    <2>1. check1RegistryRegistersAndLooksUp = <<a, b, c, d>>
      BY DEF check1RegistryRegistersAndLooksUp
    <2> QED
      BY <2>1, CheckIs
  <1>2. ~a \/ ~b \/ ~c \/ ~d <=>
            Bites("skip_registry") \/ Faulty({"Register", "List", "Get", "GetByLanguage"})
    BY DEF Works, Faulty
  <1>3. a \in BOOLEAN /\ b \in BOOLEAN /\ c \in BOOLEAN /\ d \in BOOLEAN
    OBVIOUS
  <1> HIDE DEF a, b, c, d
  <1> QED
    BY <1>1, <1>2, <1>3, FailsFour DEF Fails

\* check2 is about what Execute makes of the fixtures of the locale.
LEMMA Check2Fails ==
    ASSUME run.lang \in Locales
    PROVE  Fails(2) <=> \/ Bites("corrupt_roundtrip")
                        \/ Faulty({"Register", "GetByLanguage", "Execute"})
                        \/ ~Works(IF run.lang = "en" THEN "bytes of en" ELSE "bytes of sr")
  <1> DEFINE seeded  == {"go", "python", "sql"}
             bytes   == [en |-> "bytes of en", sr |-> "bytes of sr"]
             kept(x) == ~Bites("corrupt_roundtrip") /\ Works(bytes[x[2]])
             a == Works("Register")
             b == \A x \in ActiveFixtures : x[1] \in seeded /\ ExecuteWorks
             c == \A x \in ActiveFixtures : kept(x)
  <1>1. Check(2) = <<a, b, c>>
    <2>1. check2ExecutorRoundTripsBilingualFixtures = <<a, b, c>>
      BY DEF check2ExecutorRoundTripsBilingualFixtures
    <2> QED
      BY <2>1, CheckIs
  <1>2. /\ \A x \in ActiveFixtures : x[1] \in seeded /\ x[2] = run.lang
        /\ <<"go", run.lang>> \in ActiveFixtures
    BY DEF ActiveFixtures, fixtures, Locales
  <1>3. b <=> ExecuteWorks
    <2> HIDE DEF seeded
    <2> QED
      BY <1>2
  <1>4. c <=> ~Bites("corrupt_roundtrip") /\ Works(bytes[run.lang])
    <2>1. \A x \in ActiveFixtures : kept(x) <=> ~Bites("corrupt_roundtrip") /\ Works(bytes[run.lang])
      BY <1>2
    <2> HIDE DEF kept, bytes
    <2> QED
      BY <1>2, <2>1
  <1>5. bytes[run.lang] = IF run.lang = "en" THEN "bytes of en" ELSE "bytes of sr"
    <2>1. bytes["en"] = "bytes of en" /\ bytes["sr"] = "bytes of sr"
      OBVIOUS
    <2> HIDE DEF bytes
    <2> QED
      BY <2>1 DEF Locales
  <1>6. a \in BOOLEAN /\ b \in BOOLEAN /\ c \in BOOLEAN
    BY DEF Works
  <1>7. ~a \/ ~b \/ ~c <=> \/ Bites("corrupt_roundtrip")
                          \/ Faulty({"Register", "GetByLanguage", "Execute"})
                          \/ ~Works(IF run.lang = "en" THEN "bytes of en" ELSE "bytes of sr")
    <2> HIDE DEF b, c, bytes
    <2> QED
      BY <1>3, <1>4, <1>5 DEF ExecuteWorks, Works, Faulty
  <1> HIDE DEF a, b, c, bytes, kept, seeded
  <1>8. Fails(2) <=> ~a \/ ~b \/ ~c
    BY <1>1, <1>6, FailsThree DEF Fails
  <1> QED
    BY <1>7, <1>8

\* check3 is about the chain of middlewares.
LEMMA Check3Fails ==
    Fails(3) <=> \/ Bites("no_format_call")
                 \/ Faulty({"Register", "GetByLanguage", "Execute", "Format not called"})
  <1> DEFINE calls == IF Bites("no_format_call") \/ ~Works("Format not called") THEN 0
                      ELSE IF Works("Format called twice") THEN 1 ELSE 2
             a == ExecuteWorks
             b == calls # 0
  <1>1. Check(3) = <<a, b>>
    <2>1. check3MiddlewareChainExecutes = <<a, b>>
      BY DEF check3MiddlewareChainExecutes
    <2> QED
      BY <2>1, CheckIs
  <1>2. b <=> ~Bites("no_format_call") /\ Works("Format not called")
    <2>1. CASE Bites("no_format_call") \/ ~Works("Format not called")
      <3>1. calls = 0
        BY <2>1, Zenon
      <3> QED
        BY <2>1, <3>1
    <2>2. CASE ~(Bites("no_format_call") \/ ~Works("Format not called"))
      <3>1. calls = 1 \/ calls = 2
        BY <2>2, Zenon
      <3> HIDE DEF calls
      <3>2. b
        BY <3>1
      <3> HIDE DEF b
      <3> QED
        BY <2>2, <3>2
    <2> QED
      BY <2>1, <2>2
  <1>3. a \in BOOLEAN /\ b \in BOOLEAN
    BY DEF ExecuteWorks
  <1>4. ~a \/ ~b <=> \/ Bites("no_format_call")
                     \/ Faulty({"Register", "GetByLanguage", "Execute", "Format not called"})
    BY <1>2 DEF ExecuteWorks, Works, Faulty
  <1> HIDE DEF a, b
  <1> QED
    BY <1>1, <1>3, <1>4, FailsTwo DEF Fails

\* check4 is about the pipeline.
LEMMA Check4Fails ==
    Fails(4) <=> Bites("skip_steps") \/ Faulty({"Pipeline", "step not called"})
  <1> DEFINE calls == [step \in {"a", "b", "c"} |->
                         IF step = "a" /\ Bites("skip_steps") THEN 0
                         ELSE IF step = "b" /\ ~Works("step not called") THEN 0 ELSE 1]
             a == Works("Pipeline")
             b == \A step \in {"a", "b", "c"} : calls[step] = 1
  <1>1. Check(4) = <<a, b>>
    <2>1. check4PipelineComposesSteps = <<a, b>>
      BY DEF check4PipelineComposesSteps
    <2> QED
      BY <2>1, CheckIs
  <1>2. b <=> ~Bites("skip_steps") /\ Works("step not called")
    <2>1. /\ calls["a"] = IF Bites("skip_steps") THEN 0 ELSE 1
          /\ calls["b"] = IF ~Works("step not called") THEN 0 ELSE 1
          /\ calls["c"] = 1
      OBVIOUS
    <2> HIDE DEF calls
    <2>2. b <=> calls["a"] = 1 /\ calls["b"] = 1 /\ calls["c"] = 1
      OBVIOUS
    <2>3. /\ calls["a"] = 1 <=> ~Bites("skip_steps")
          /\ calls["b"] = 1 <=> Works("step not called")
      <3>1. 0 # 1
        OBVIOUS
      <3> QED
        BY <2>1, <3>1, Zenon
    <2> HIDE DEF b
    <2> QED
      BY <2>1, <2>2, <2>3
  <1>3. a \in BOOLEAN /\ b \in BOOLEAN
    BY DEF Works
  <1>4. ~a \/ ~b <=> Bites("skip_steps") \/ Faulty({"Pipeline", "step not called"})
    <2> HIDE DEF b
    <2> QED
      BY <1>2 DEF Works, Faulty
  <1> HIDE DEF a, b
  <1> QED
    BY <1>1, <1>3, <1>4, FailsTwo DEF Fails

\* check5 is about the cache.
LEMMA Check5Fails ==
    Fails(5) <=> \/ Bites("cache_miss") /\ Works("key too coarse")
                 \/ Faulty({"entry lost", "entry mixed up"})
  <1> DEFINE sameKey == Bites("cache_miss") => ~Works("key too coarse")
             a == sameKey /\ Works("entry lost")
             b == Works("entry mixed up")
  <1>1. Check(5) = <<a, b>>
    <2>1. check5CacheStoresAndRetrieves = <<a, b>>
      BY DEF check5CacheStoresAndRetrieves
    <2> QED
      BY <2>1, CheckIs
  <1>2. a \in BOOLEAN /\ b \in BOOLEAN
    BY DEF Works
  <1>3. ~a \/ ~b <=> \/ Bites("cache_miss") /\ Works("key too coarse")
                     \/ Faulty({"entry lost", "entry mixed up"})
    BY DEF Works, Faulty
  <1> HIDE DEF a, b
  <1> QED
    BY <1>1, <1>2, <1>3, FailsTwo DEF Fails

\* check6 is about the constructors.
LEMMA Check6Fails == Fails(6) <=> Bites("constructor_drift") \/ ~Works("constructor")
  <1> DEFINE specs == {<<"gofmt", "go">>, <<"black", "python">>, <<"prettier", "javascript">>,
                       <<"rustfmt", "rust">>, <<"sqlformat", "sql">>}
             a == \A s \in specs : \E c \in constructors : c[1] = s[1] /\ s[2] \in c[2]
             b == ~Bites("constructor_drift")
  <1>1. Check(6) = <<a, b>>
    <2>1. check6NativeConstructorsExpose = <<a, b>>
      BY DEF check6NativeConstructorsExpose
    <2> QED
      BY <2>1, CheckIs
  <1>2. ASSUME Works("constructor") PROVE a
    BY <1>2 DEF constructors
  <1>3. ASSUME ~Works("constructor") PROVE ~a
    <2>1. \A c \in constructors : c[1] = "prettier" => "javascript" \notin c[2]
      BY <1>3 DEF constructors
    <2> QED
      BY <2>1
  <1>4. a \in BOOLEAN /\ b \in BOOLEAN
    OBVIOUS
  <1> HIDE DEF a
  <1>5. ~a \/ ~b <=> Bites("constructor_drift") \/ ~Works("constructor")
    BY <1>2, <1>3
  <1> HIDE DEF b
  <1> QED
    BY <1>1, <1>4, <1>5, FailsTwo DEF Fails

\* check7 is about the table of extensions.
LEMMA Check7Fails == Fails(7) <=> Bites("detect_drift") \/ ~Works("detection")
  <1> DEFINE cases == {<<"go", "go">>, <<"py", "python">>, <<"ts", "typescript">>, <<"scss", "scss">>,
                       <<"sql", "sql">>}
             got(ext) == IF Bites("detect_drift") THEN "wrong" ELSE DetectLanguageFromPath[ext]
             a == \A c \in cases : got(c[1]) = c[2]
  <1>1. Check(7) = <<a>>
    <2>1. check7DetectLanguageFromPath = <<a>>
      BY DEF check7DetectLanguageFromPath
    <2> QED
      BY <2>1, CheckIs
  <1>2. /\ DetectLanguageFromPath["go"] = "go" /\ DetectLanguageFromPath["py"] = "python"
        /\ DetectLanguageFromPath["ts"] = IF Works("detection") THEN "typescript" ELSE ""
        /\ DetectLanguageFromPath["scss"] = "scss" /\ DetectLanguageFromPath["sql"] = "sql"
    BY DEF DetectLanguageFromPath
  <1>3. a <=> /\ got("go") = "go" /\ got("py") = "python" /\ got("ts") = "typescript"
              /\ got("scss") = "scss" /\ got("sql") = "sql"
    <2> HIDE DEF got
    <2> QED
      OBVIOUS
  <1>4. a <=> ~Bites("detect_drift") /\ Works("detection")
    <2> HIDE DEF a
    <2> QED
      BY <1>2, <1>3
  <1>5. a \in BOOLEAN
    OBVIOUS
  <1> HIDE DEF a
  <1> QED
    BY <1>1, <1>4, <1>5, FailsOne DEF Fails

\* check8 is about languages that cannot be told.
LEMMA Check8Fails == Fails(8) <=> Bites("accept_ambiguous") \/ ~Works("ambiguity accepted")
  <1> DEFINE a == ~Bites("accept_ambiguous") /\ Works("ambiguity accepted")
  <1>1. Check(8) = <<a>>
    <2>1. check8ExecutorRejectsAmbiguous = <<a>>
      BY DEF check8ExecutorRejectsAmbiguous
    <2> QED
      BY <2>1, CheckIs
  <1>2. a \in BOOLEAN /\ (~a <=> Bites("accept_ambiguous") \/ ~Works("ambiguity accepted"))
    OBVIOUS
  <1> HIDE DEF a
  <1> QED
    BY <1>1, <1>2, FailsOne DEF Fails
-----------------------------------------------------------------------------
(* What the ten runs of the gate find. *)

\* The faults that a run without a mutation does not see.  That two requests have one key is
\* seen with cache_miss only, which then has no effect.
Hidden == Unseen \cup {"key too coarse"}
UnseenIn(lang) == Hidden \cup {IF lang = "en" THEN "bytes of sr" ELSE "bytes of en"}

\* A baseline passes every check unless the library has a fault that is seen in its locale.
LEMMA BaselinePasses ==
    ASSUME faults \subseteq Faults, run.lang \in Locales, run.mutation = None
    PROVE  (\A k \in 1 .. 8 : ~Fails(k)) <=> faults \subseteq UnseenIn(run.lang)
  <1>1. \A m \in ToSet(Mutations) : ~Bites(m)
    BY NoneAssumption DEF Bites
  <1>2. \A k \in 1 .. 8 : Mutations[k] \in ToSet(Mutations)
    BY MutationsAre DEF ToSet
  <1>3. /\ ~Bites("skip_registry") /\ ~Bites("corrupt_roundtrip") /\ ~Bites("no_format_call")
        /\ ~Bites("skip_steps") /\ ~Bites("cache_miss") /\ ~Bites("constructor_drift")
        /\ ~Bites("detect_drift") /\ ~Bites("accept_ambiguous")
    BY <1>1, <1>2, MutationsAre
  <1>4. (\A k \in 1 .. 8 : ~Fails(k)) <=>
            /\ ~Fails(1) /\ ~Fails(2) /\ ~Fails(3) /\ ~Fails(4)
            /\ ~Fails(5) /\ ~Fails(6) /\ ~Fails(7) /\ ~Fails(8)
    OBVIOUS
  <1>5. (\A k \in 1 .. 8 : ~Fails(k)) <=>
            /\ ~Faulty({"Register", "List", "Get", "GetByLanguage", "Execute", "Format not called",
                        "Pipeline", "step not called", "entry lost", "entry mixed up",
                        "constructor", "detection", "ambiguity accepted"})
            /\ Works(IF run.lang = "en" THEN "bytes of en" ELSE "bytes of sr")
    BY <1>3, <1>4, Check1Fails, Check2Fails, Check3Fails, Check4Fails, Check5Fails, Check6Fails,
       Check7Fails, Check8Fails DEF Faulty, Works
  <1>6. CASE run.lang = "en"
    BY <1>5, <1>6 DEF Faulty, Works, UnseenIn, Hidden, Unseen, Faults, Seen
  <1>7. CASE run.lang = "sr"
    BY <1>5, <1>7 DEF Faulty, Works, UnseenIn, Hidden, Unseen, Faults, Seen
  <1> QED
    BY <1>6, <1>7 DEF Locales

\* A mutation that bites makes its own check fail and no other, where the baselines pass.
LEMMA MutatedFails ==
    ASSUME faults \subseteq Hidden, run.lang \in Locales,
           NEW m \in 1 .. 8, run.mutation = Mutations[m], NEW k \in 1 .. 8
    PROVE  Fails(k) <=> /\ k = m /\ Mutations[m] \in hooks
                        /\ m = 5 => Works("key too coarse")
  <1>1. \A j \in 1 .. 8 : Bites(Mutations[j]) <=> j = m /\ Mutations[m] \in hooks
    <2>1. \A j \in 1 .. 8 : Mutations[j] = Mutations[m] => j = m
      BY TargetIs
    <2> QED
      BY <2>1 DEF Bites
  <1>2. /\ ~Faulty({"Register", "List", "Get", "GetByLanguage"})
        /\ ~Faulty({"Register", "GetByLanguage", "Execute"})
        /\ Works(IF run.lang = "en" THEN "bytes of en" ELSE "bytes of sr")
        /\ ~Faulty({"Register", "GetByLanguage", "Execute", "Format not called"})
        /\ ~Faulty({"Pipeline", "step not called"})
        /\ ~Faulty({"entry lost", "entry mixed up"})
        /\ Works("constructor") /\ Works("detection") /\ Works("ambiguity accepted")
    BY DEF Faulty, Works, Hidden, Unseen
  <1>3. /\ Fails(1) <=> Bites(Mutations[1])
        /\ Fails(2) <=> Bites(Mutations[2])
        /\ Fails(3) <=> Bites(Mutations[3])
        /\ Fails(4) <=> Bites(Mutations[4])
        /\ Fails(5) <=> Bites(Mutations[5]) /\ Works("key too coarse")
        /\ Fails(6) <=> Bites(Mutations[6])
        /\ Fails(7) <=> Bites(Mutations[7])
        /\ Fails(8) <=> Bites(Mutations[8])
    BY <1>2, Check1Fails, Check2Fails, Check3Fails, Check4Fails, Check5Fails, Check6Fails,
       Check7Fails, Check8Fails, MutationsAre
  <1>4. Fails(k) <=> Bites(Mutations[k]) /\ (k = 5 => Works("key too coarse"))
    <2>1. k \in {1, 2, 3, 4, 5, 6, 7, 8}
      OBVIOUS
    <2> QED
      BY <1>3, <2>1
  <1> QED
    BY <1>1, <1>4

\* The gate's ten runs.
LEMMA GateRunsAre ==
    /\ GateRuns \in Seq(ToSet(GateRuns)) /\ Len(GateRuns) = 10 /\ DOMAIN GateRuns = 1 .. 10
    /\ GateRuns[1] = Run("en", None) /\ GateRuns[2] = Run("sr", None)
    /\ \A k \in 1 .. 8 : GateRuns[k + 2] = Run("en", Mutations[k])
    /\ \A j \in 3 .. 10 : GateRuns[j] = Run("en", Mutations[j - 2])
    /\ \A j \in 1 .. 10 : GateRuns[j].lang \in Locales /\ (GateRuns[j].mutation = None <=> j <= 2)
  <1> DEFINE base == <<Run("en", None), Run("sr", None)>>
             mutated == [k \in 1 .. NumChecks |-> Run("en", Mutations[k])]
             S == {Run(l, m) : l \in Locales, m \in ToSet(Mutations) \cup {None}}
  <1>1. /\ base \in Seq(S) /\ Len(base) = 2
        /\ base[1] = Run("en", None) /\ base[2] = Run("sr", None)
    BY DEF Locales
  <1>2. \A k \in 1 .. 8 : Mutations[k] \in ToSet(Mutations)
    BY MutationsAre DEF ToSet
  <1>3. /\ mutated \in Seq(S) /\ Len(mutated) = 8
        /\ \A k \in 1 .. 8 : mutated[k] = Run("en", Mutations[k])
    <2>1. \A k \in 1 .. 8 : Run("en", Mutations[k]) \in S
      BY <1>2 DEF Locales
    <2> HIDE DEF S
    <2> QED
      BY <2>1, MutationsAre
  <1>4. GateRuns = base \o mutated
    BY DEF GateRuns
  <1> HIDE DEF base, mutated, S
  <1>5. /\ GateRuns \in Seq(S) /\ Len(GateRuns) = 10 /\ DOMAIN GateRuns = 1 .. 10
        /\ GateRuns[1] = Run("en", None) /\ GateRuns[2] = Run("sr", None)
        /\ \A k \in 1 .. 8 : GateRuns[k + 2] = Run("en", Mutations[k])
    <2>1. /\ Len(base \o mutated) = 10 /\ base \o mutated \in Seq(S)
          /\ \A i \in 1 .. 10 : (base \o mutated)[i] = IF i <= 2 THEN base[i] ELSE mutated[i - 2]
      <3>1. Len(base) + Len(mutated) = 10 /\ Len(base) = 2
        BY <1>1, <1>3
      <3>2. /\ Len(base \o mutated) = Len(base) + Len(mutated) /\ base \o mutated \in Seq(S)
            /\ \A i \in 1 .. Len(base) + Len(mutated) :
                  (base \o mutated)[i] = IF i <= Len(base) THEN base[i] ELSE mutated[i - Len(base)]
        BY <1>1, <1>3, ConcatProperties, Zenon
      <3> QED
        BY <3>1, <3>2, Zenon
    <2>2. Len(GateRuns) = 10 /\ DOMAIN GateRuns = 1 .. 10
      BY <1>4, <2>1, LenProperties
    <2>3. \A k \in 1 .. 8 : k + 2 \in 1 .. 10 /\ ~(k + 2 <= 2) /\ (k + 2) - 2 = k
      OBVIOUS
    <2>4. \A k \in 1 .. 8 : GateRuns[k + 2] = mutated[k]
      BY <1>4, <2>1, <2>3
    <2>5. GateRuns[1] = base[1] /\ GateRuns[2] = base[2]
      <3>1. 1 \in 1 .. 10 /\ 2 \in 1 .. 10 /\ 1 <= 2 /\ 2 <= 2
        OBVIOUS
      <3> QED
        BY <1>4, <2>1, <3>1, Zenon
    <2> QED
      BY <1>1, <1>3, <1>4, <2>1, <2>2, <2>4, <2>5
  <1>6. \A j \in 3 .. 10 : GateRuns[j] = Run("en", Mutations[j - 2])
    <2> SUFFICES ASSUME NEW j \in 3 .. 10 PROVE GateRuns[j] = Run("en", Mutations[j - 2])
      OBVIOUS
    <2>1. j - 2 \in 1 .. 8 /\ (j - 2) + 2 = j
      OBVIOUS
    <2> QED
      BY <1>5, <2>1
  <1>7. \A j \in 3 .. 10 : Mutations[j - 2] # None
    BY <1>2, NoneAssumption
  <1>8. \A j \in 1 .. 10 : j = 1 \/ j = 2 \/ j \in 3 .. 10
    OBVIOUS
  <1>9. GateRuns \in Seq(ToSet(GateRuns))
    <2>1. GateRuns \in [1 .. 10 -> S] /\ \A i \in 1 .. 10 : GateRuns[i] \in ToSet(GateRuns)
      BY <1>5, LenProperties DEF ToSet
    <2>2. GateRuns \in [1 .. 10 -> ToSet(GateRuns)]
      BY <2>1
    <2>3. 10 \in Nat
      OBVIOUS
    <2> QED
      BY <2>2, <2>3, SeqDef, Zenon
  <1> QED
    BY <1>5, <1>6, <1>7, <1>8, <1>9 DEF Run, Locales
-----------------------------------------------------------------------------
(* The inductive invariant. *)

Result == [check : 1 .. 8, passed : BOOLEAN]
Runs == ToSet(GateRuns) \cup {c.run : c \in Cases}

TypeInv ==
    /\ faults \subseteq Faults /\ hooks \subseteq ToSet(Mutations) /\ gate \in BOOLEAN
    /\ phase \in {"idle", "checks", "exited", "over"} /\ check \in 1 .. 9
    /\ todo \in Seq(Runs) /\ results \in Seq(Result)
    /\ exit \in {None, 0, 2, 99} /\ pass \in Nat /\ fail \in Nat

\* In a locale with labels each check so far has its result, and a run that has exited has
\* made all of them.
RunInv ==
    run.lang \in Locales =>
        /\ Len(results) = check - 1
        /\ \A i \in 1 .. check - 1 : results[i].check = i /\ (results[i].passed <=> ~Fails(i))
        /\ phase = "exited" =>
              /\ check = 9
              /\ exit = CASE Failed # {} /\ run.mutation # None -> 99
                          [] Failed # {} /\ run.mutation = None -> 2
                          [] Failed = {} /\ run.mutation # None -> 2
                          [] OTHER -> 0

\* In any other locale the runner has exited with 2 when a check has been made.
NoLabelsInv ==
    run.lang \notin Locales =>
        /\ phase = "checks" => check = 1 /\ results = <<>> /\ run.lang = "all"
        /\ phase = "exited" => exit = 2 /\ Len(results) = IF run.lang = "all" THEN 1 ELSE 0

\* Runs that the gate has begun, and those it has judged.
Begun  == 10 - Len(todo)
Judged == IF phase \in {"checks", "exited"} THEN Begun - 1 ELSE Begun

\* What must be so for the gate to be content with a run.
Right(r) ==
    IF r.mutation = None
    THEN faults \subseteq UnseenIn(r.lang)
    ELSE faults \subseteq Hidden =>
            r.mutation \in hooks /\ (r.mutation = "cache_miss" => Works("key too coarse"))

\* The gate makes its runs in their order, and has found every one so far right if it has
\* counted no failure.
GateInv ==
    gate =>
        /\ Len(todo) <= 10 /\ \A i \in 1 .. Len(todo) : todo[i] = GateRuns[Begun + i]
        /\ Begun > 0 => run = GateRuns[Begun]
        /\ Judged >= 0 /\ pass + fail = Judged
        /\ fail = 0 => \A j \in 1 .. Judged : Right(GateRuns[j])
        /\ faults \subseteq Unseen /\ hooks = ToSet(Mutations) => fail = 0

ExitInv ==
    /\ ~gate => pass = 0 /\ fail = 0 /\ Len(todo) <= 1
    /\ gateExit \in {None, 0, 1}
    /\ gateExit # None => gate /\ phase = "over"
    /\ phase = "over" => todo = <<>> /\ gateExit = IF fail # 0 THEN 1 ELSE 0

IInv == TypeInv /\ RunInv /\ NoLabelsInv /\ GateInv /\ ExitInv

\* The invariant holds before the first run.
LEMMA InitInv == Init => IInv
  <1> SUFFICES ASSUME Init PROVE IInv
    OBVIOUS
  <1>1. PICK c \in Cases : /\ faults = c.faults /\ hooks = c.hooks /\ gate = c.gate
                           /\ todo = IF c.gate THEN GateRuns ELSE <<c.run>>
                           /\ run = c.run
    BY DEF Init
  <1>2. todo \in Seq(Runs) /\ Len(todo) = IF gate THEN 10 ELSE 1
    <2>1. GateRuns \in Seq(Runs)
      <3>1. ToSet(GateRuns) \subseteq Runs
        BY DEF Runs
      <3> QED
        BY <3>1, GateRunsAre
    <2>2. <<c.run>> \in Seq(Runs) /\ Len(<<c.run>>) = 1
      BY DEF Runs
    <2> QED
      BY <1>1, <2>1, <2>2, GateRunsAre
  <1>3. TypeInv
    BY <1>1, <1>2, CasesAssumption DEF Init, TypeInv
  <1>4. RunInv /\ NoLabelsInv
    BY DEF Init, RunInv, NoLabelsInv
  <1>5. GateInv
    <2> SUFFICES ASSUME gate PROVE GateInv
      BY DEF GateInv
    <2>1. todo = GateRuns /\ Len(todo) = 10 /\ Begun = 0 /\ Judged = 0
      BY <1>1, <1>2 DEF Init, Begun, Judged
    <2>2. \A i \in 1 .. Len(todo) : todo[i] = GateRuns[Begun + i]
      <3>1. \A i \in 1 .. Len(todo) : 0 + i = i
        OBVIOUS
      <3> QED
        BY <2>1, <3>1
    <2>3. \A j \in 1 .. Judged : Right(GateRuns[j])
      BY <2>1
    <2>4. fail = 0 /\ pass + fail = Judged /\ Judged >= 0 /\ ~(Begun > 0) /\ Len(todo) <= 10
      <3>1. pass = 0 /\ fail = 0
        BY DEF Init
      <3> QED
        BY <2>1, <3>1
    <2> QED
      BY <2>1, <2>2, <2>3, <2>4 DEF GateInv
  <1>6. ExitInv
    BY <1>2 DEF Init, ExitInv
  <1> QED
    BY <1>3, <1>4, <1>5, <1>6 DEF IInv

\* A check records one result.
LEMMA Recorded ==
    ASSUME results \in Seq(Result), check \in 1 .. 8,
           results' = results \o [i \in DOMAIN Verdicts(Check(check)) |->
                                     [check |-> check, passed |-> Verdicts(Check(check))[i]]]
    PROVE  /\ results' \in Seq(Result) /\ Len(results') = Len(results) + 1
           /\ \A i \in 1 .. Len(results) : results'[i] = results[i]
           /\ results'[Len(results) + 1].check = check
           /\ results'[Len(results) + 1].passed <=> ~Fails(check)
  <1> DEFINE holds == IF Fails(check) THEN FALSE ELSE TRUE
             r == [check |-> check, passed |-> holds]
  <1>1. Verdicts(Check(check)) = <<holds>>
    BY Zenon DEF Verdicts, Fails
  <1>2. holds \in BOOLEAN /\ (holds <=> ~Fails(check))
    OBVIOUS
  <1> HIDE DEF holds
  <1>3. r \in Result /\ r.check = check /\ r.passed = holds
    BY <1>2 DEF Result
  <1>4. [i \in DOMAIN Verdicts(Check(check)) |->
            [check |-> check, passed |-> Verdicts(Check(check))[i]]] = <<r>>
    <2>1. DOMAIN <<holds>> = {1} /\ <<holds>>[1] = holds
      OBVIOUS
    <2>2. [i \in DOMAIN <<holds>> |-> [check |-> check, passed |-> <<holds>>[i]]] = <<r>>
      BY <2>1
    <2> QED
      BY <1>1, <2>2
  <1>5. results' = results \o <<r>>
    BY <1>4
  <1> HIDE DEF r
  <1>6. /\ results' \in Seq(Result) /\ Len(results') = Len(results) + 1
        /\ \A i \in 1 .. Len(results) : results'[i] = results[i]
        /\ results'[Len(results) + 1] = r
    BY <1>3, <1>5
  <1> QED
    BY <1>2, <1>3, <1>6

\* Every step keeps the types.
LEMMA TypeStep == IInv /\ [Next]_vars => TypeInv'
  <1> SUFFICES ASSUME IInv, [Next]_vars PROVE TypeInv'
    OBVIOUS
  <1> USE DEF IInv, TypeInv
  <1>1. CASE RunnerStarts
    <2>1. todo' \in Seq(Runs)
      BY <1>1, HeadTailProperties DEF RunnerStarts
    <2>2. results' \in Seq(Result) /\ check' = 1 /\ exit' \in {None, 2} /\ phase' \in {"checks", "exited"}
      BY <1>1 DEF RunnerStarts
    <2> QED
      BY <1>1, <2>1, <2>2 DEF RunnerStarts, library, counters
  <1>2. CASE RunsCheck
    <2>1. check \in 1 .. 8 /\ check' = check + 1
      BY <1>2, MutationsAre DEF RunsCheck
    <2>2. results' \in Seq(Result)
      BY <1>2, <2>1, Recorded DEF RunsCheck
    <2> QED
      BY <1>2, <2>1, <2>2 DEF RunsCheck, library, counters
  <1>3. CASE RunnerExits
    <2>1. exit' \in {0, 2, 99}
      BY <1>3 DEF RunnerExits
    <2> QED
      BY <1>3, <2>1 DEF RunnerExits, library, counters
  <1>4. CASE GateJudges
    BY <1>4 DEF GateJudges, library
  <1>5. CASE GateExits
    BY <1>5 DEF GateExits, library
  <1>6. CASE UNCHANGED vars
    BY <1>6 DEF vars
  <1> QED
    BY <1>1, <1>2, <1>3, <1>4, <1>5, <1>6 DEF Next

\* What a check finds depends on the library, on the locale and on the mutation.
LEMMA FindingsStay == UNCHANGED library /\ run' = run => \A k \in 1 .. 8 : Fails(k)' = Fails(k)
  BY DEF library, Fails, Check, check1RegistryRegistersAndLooksUp,
     check2ExecutorRoundTripsBilingualFixtures, check3MiddlewareChainExecutes,
     check4PipelineComposesSteps, check5CacheStoresAndRetrieves, check6NativeConstructorsExpose,
     check7DetectLanguageFromPath, check8ExecutorRejectsAmbiguous, Works, Bites, ActiveFixtures,
     ExecuteWorks, constructors, DetectLanguageFromPath

\* Every step keeps what is known of the present run.
LEMMA RunStep == IInv /\ [Next]_vars => RunInv'
  <1> SUFFICES ASSUME IInv, [Next]_vars, run'.lang \in Locales PROVE RunInv'
    BY DEF RunInv
  <1> USE DEF IInv, TypeInv
  <1>1. CASE RunnerStarts
    <2>1. check' = 1 /\ results' = <<>> /\ phase' = "checks"
      BY <1>1 DEF RunnerStarts
    <2> QED
      BY <2>1 DEF RunInv
  <1>2. CASE RunsCheck
    <2>1. /\ check \in 1 .. 8 /\ check' = check + 1 /\ run' = run /\ UNCHANGED library
          /\ phase' = "checks"
      BY <1>2, MutationsAre DEF RunsCheck, library
    <2>2. /\ Len(results) = check - 1 /\ Len(results') = Len(results) + 1
          /\ \A i \in 1 .. Len(results) : results'[i] = results[i]
          /\ results'[check].check = check /\ (results'[check].passed <=> ~Fails(check))
      <3>1. Len(results) = check - 1
        BY <2>1 DEF RunInv
      <3>2. /\ Len(results') = Len(results) + 1
            /\ \A i \in 1 .. Len(results) : results'[i] = results[i]
            /\ results'[Len(results) + 1].check = check
            /\ results'[Len(results) + 1].passed <=> ~Fails(check)
        BY <1>2, <2>1, Recorded DEF RunsCheck
      <3>3. Len(results) + 1 = check
        BY <2>1, <3>1
      <3> QED
        BY <3>1, <3>2, <3>3
    <2>3. ASSUME NEW i \in 1 .. check
          PROVE  results'[i].check = i /\ (results'[i].passed <=> ~Fails(i)')
      <3>1. i \in 1 .. 8 /\ (Fails(i)' <=> Fails(i))
        <4>1. i \in 1 .. 8
          BY <2>1
        <4> QED
          BY <2>1, <4>1, FindingsStay
      <3>2. CASE i = check
        BY <2>2, <3>1, <3>2
      <3>3. CASE i # check
        <4>1. i \in 1 .. check - 1 /\ i \in 1 .. Len(results)
          BY <2>1, <2>2, <3>3
        <4>2. results[i].check = i /\ (results[i].passed <=> ~Fails(i))
          BY <2>1, <4>1 DEF RunInv
        <4> QED
          BY <2>2, <3>1, <4>1, <4>2
      <3> QED
        BY <3>2, <3>3
    <2>4. Len(results') = check' - 1 /\ check' - 1 = check
      BY <2>1, <2>2, SMTT(30)
    <2> QED
      BY <2>1, <2>3, <2>4 DEF RunInv
  <1>3. CASE RunnerExits
    <2>1. /\ check = 9 /\ UNCHANGED <<library, run, check, results>>
          /\ exit' = CASE Failed # {} /\ run.mutation # None -> 99
                       [] Failed # {} /\ run.mutation = None -> 2
                       [] Failed = {} /\ run.mutation # None -> 2
                       [] OTHER -> 0
      BY <1>3, MutationsAre DEF RunnerExits, library
    <2>2. \A k \in 1 .. 8 : Fails(k)' = Fails(k)
      BY <2>1, FindingsStay
    <2>3. Failed' = Failed
      BY <2>1 DEF Failed
    <2>4. /\ Len(results') = check' - 1
          /\ \A i \in 1 .. check' - 1 : results'[i].check = i /\ (results'[i].passed <=> ~Fails(i)')
      BY <2>1, <2>2 DEF RunInv
    <2> QED
      BY <2>1, <2>3, <2>4 DEF RunInv
  <1>4. CASE GateJudges \/ GateExits \/ UNCHANGED vars
    <2>1. /\ UNCHANGED <<library, run, check, results>>
          /\ phase' = "exited" => phase = "exited" /\ exit' = exit
      BY <1>4 DEF GateJudges, GateExits, vars, library
    <2>2. \A k \in 1 .. 8 : Fails(k)' = Fails(k)
      BY <2>1, FindingsStay
    <2>3. Failed' = Failed
      BY <2>1 DEF Failed
    <2> QED
      BY <2>1, <2>2, <2>3, SMTT(30) DEF RunInv
  <1> QED
    BY <1>1, <1>2, <1>3, <1>4 DEF Next

\* Every step keeps what is known of a run in a locale without labels.
LEMMA NoLabelsStep == IInv /\ [Next]_vars => NoLabelsInv'
  <1> SUFFICES ASSUME IInv, [Next]_vars, run'.lang \notin Locales PROVE NoLabelsInv'
    BY DEF NoLabelsInv
  <1> USE DEF IInv, TypeInv, NoLabelsInv
  <1>1. CASE RunnerStarts
    BY <1>1 DEF RunnerStarts
  <1>2. CASE RunsCheck
    <2>1. run' = run /\ results = <<>> /\ run.lang = "all" /\ phase' = "exited" /\ exit' = 2
      BY <1>2 DEF RunsCheck
    <2>2. Len(results') = 1
      <3>1. check \in 1 .. 8
        BY <1>2, MutationsAre DEF RunsCheck
      <3>2. Len(results') = Len(results) + 1
        BY <1>2, <3>1, Recorded DEF RunsCheck
      <3> QED
        BY <2>1, <3>2
    <2> QED
      BY <2>1, <2>2
  <1>3. CASE RunnerExits
    <2>1. FALSE
      BY <1>3, MutationsAre DEF RunnerExits
    <2> QED
      BY <2>1
  <1>4. CASE GateJudges \/ GateExits \/ UNCHANGED vars
    BY <1>4 DEF GateJudges, GateExits, vars
  <1> QED
    BY <1>1, <1>2, <1>3, <1>4 DEF Next

\* The exit code at the end of main tells three outcomes apart.
LEMMA OutcomeTells ==
    ASSUME exit = CASE Failed # {} /\ run.mutation # None -> 99
                    [] Failed # {} /\ run.mutation = None -> 2
                    [] Failed = {} /\ run.mutation # None -> 2
                    [] OTHER -> 0
    PROVE  /\ exit = 0 <=> Failed = {} /\ run.mutation = None
           /\ exit = 99 <=> Failed # {} /\ run.mutation # None
  OBVIOUS

\* A library with whose baselines the gate is content has no fault but those that are hidden.
LEMMA BaselinesSuffice ==
    ASSUME Right(GateRuns[1]), Right(GateRuns[2]) PROVE faults \subseteq Hidden
  <1>1. faults \subseteq UnseenIn("en") /\ faults \subseteq UnseenIn("sr")
    BY GateRunsAre DEF Right, Run
  <1> QED
    BY <1>1 DEF UnseenIn, Hidden

\* After its last check a run has failed in those that did not get what they asked for.
LEMMA FailedIs ==
    ASSUME IInv, run.lang \in Locales, phase = "exited" \/ check = 9
    PROVE  Failed = {k \in 1 .. 8 : Fails(k)}
  <1>1. /\ Len(results) = 8 /\ DOMAIN results = 1 .. 8
        /\ \A i \in 1 .. 8 : results[i].check = i /\ (results[i].passed <=> ~Fails(i))
    <2>1. check = 9 /\ Len(results) = check - 1
      BY DEF IInv, RunInv
    <2>2. Len(results) = 8 /\ DOMAIN results = 1 .. Len(results)
      BY <2>1, LenProperties DEF IInv, TypeInv
    <2>3. \A i \in 1 .. check - 1 : results[i].check = i /\ (results[i].passed <=> ~Fails(i))
      BY DEF IInv, RunInv
    <2>4. check - 1 = 8
      BY <2>1
    <2> QED
      BY <2>2, <2>3, <2>4
  <1> QED
    BY <1>1 DEF Failed

\* The gate is content with a run only if that is right, and with every run over a library
\* without faults and mutations that bite.
LEMMA Judgement ==
    ASSUME IInv, gate, phase = "exited"
    PROVE  /\ exit = (IF run.mutation = None THEN 0 ELSE 99) => Right(run)
           /\ faults \subseteq Unseen /\ hooks = ToSet(Mutations) =>
                 exit = (IF run.mutation = None THEN 0 ELSE 99)
  <1>1. Begun \in 1 .. 10 /\ run = GateRuns[Begun]
    <2>1. /\ Judged >= 0 /\ Judged = Begun - 1 /\ (Begun > 0 => run = GateRuns[Begun])
      BY DEF IInv, GateInv, Judged
    <2>2. Len(todo) \in Nat /\ Begun = 10 - Len(todo)
      BY LenProperties DEF IInv, TypeInv, Begun
    <2> QED
      BY <2>1, <2>2
  <1>2. run.lang \in Locales
    BY <1>1, GateRunsAre
  <1>3. Failed = {k \in 1 .. 8 : Fails(k)}
    BY <1>2, FailedIs
  <1>4. /\ exit = 0 <=> Failed = {} /\ run.mutation = None
        /\ exit = 99 <=> Failed # {} /\ run.mutation # None
    BY <1>2, OutcomeTells DEF IInv, TypeInv, RunInv
  <1>5. CASE run.mutation = None
    <2>1. Failed = {} <=> faults \subseteq UnseenIn(run.lang)
      BY <1>2, <1>3, <1>5, BaselinePasses DEF IInv, TypeInv
    <2>2. Unseen \subseteq UnseenIn(run.lang)
      BY DEF UnseenIn, Hidden
    <2> QED
      BY <1>4, <1>5, <2>1, <2>2 DEF Right
  <1>6. CASE run.mutation # None
    <2>1. PICK m \in 1 .. 8 : run.mutation = Mutations[m]
      <3>1. Begun \in 3 .. 10 /\ run = Run("en", Mutations[Begun - 2]) /\ Begun - 2 \in 1 .. 8
        BY <1>1, <1>6, GateRunsAre
      <3> QED
        BY <3>1 DEF Run
    <2>2. m = 5 <=> run.mutation = "cache_miss"
      BY <2>1, MutationsAre, TargetIs
    <2>3. ASSUME faults \subseteq Hidden
          PROVE  Failed # {} <=> Mutations[m] \in hooks /\ (m = 5 => Works("key too coarse"))
      <3>1. \A k \in 1 .. 8 : Fails(k) <=> /\ k = m /\ Mutations[m] \in hooks
                                           /\ m = 5 => Works("key too coarse")
        BY <1>2, <2>1, <2>3, MutatedFails
      <3> QED
        BY <1>3, <3>1
    <2>4. exit = 99 => Right(run)
      BY <1>4, <1>6, <2>1, <2>2, <2>3 DEF Right
    <2>5. ASSUME faults \subseteq Unseen, hooks = ToSet(Mutations) PROVE exit = 99
      <3>1. faults \subseteq Hidden /\ Works("key too coarse")
        BY <2>5 DEF Hidden, Unseen, Works
      <3>2. Mutations[m] \in hooks
        BY <2>5, MutationsAre DEF ToSet
      <3> QED
        BY <1>4, <1>6, <2>3, <3>1, <3>2
    <2> QED
      BY <1>6, <2>4, <2>5
  <1> QED
    BY <1>5, <1>6

\* Every step keeps what is known of the gate.
LEMMA GateStep == IInv /\ [Next]_vars => GateInv'
  <1> SUFFICES ASSUME IInv, [Next]_vars, gate' PROVE GateInv'
    BY DEF GateInv
  <1>1. gate /\ UNCHANGED library /\ \A r : Right(r)' <=> Right(r)
    <2>1. UNCHANGED library
      BY DEF Next, RunnerStarts, RunsCheck, RunnerExits, GateJudges, GateExits, vars, library
    <2> QED
      BY <2>1 DEF library, Right, UnseenIn, Works
  <1>2. /\ Len(todo) \in 0 .. 10 /\ \A i \in 1 .. Len(todo) : todo[i] = GateRuns[Begun + i]
        /\ Begun > 0 => run = GateRuns[Begun]
        /\ Judged >= 0 /\ pass + fail = Judged /\ pass \in Nat /\ fail \in Nat
        /\ fail = 0 => \A j \in 1 .. Judged : Right(GateRuns[j])
        /\ faults \subseteq Unseen /\ hooks = ToSet(Mutations) => fail = 0
    <2>1. Len(todo) \in Nat /\ pass \in Nat /\ fail \in Nat
      BY LenProperties DEF IInv, TypeInv
    <2>2. Len(todo) <= 10
      BY <1>1 DEF IInv, GateInv
    <2> DEFINE n == Len(todo)
    <2>3. n \in 0 .. 10
      <3>1. n \in Nat /\ n <= 10
        BY <2>1, <2>2
      <3> HIDE DEF n
      <3> QED
        BY <3>1
    <2> QED
      BY <1>1, <2>1, <2>3 DEF IInv, GateInv
  <1>3. CASE RunnerStarts
    <2>1. /\ phase = "idle" /\ todo # <<>> /\ run' = Head(todo) /\ todo' = Tail(todo)
          /\ phase' \in {"checks", "exited"} /\ UNCHANGED <<faults, hooks, pass, fail>>
      BY <1>3 DEF RunnerStarts, library, counters
    <2>2. /\ run' = todo[1] /\ Len(todo') = Len(todo) - 1 /\ Len(todo) > 0
          /\ \A i \in 1 .. Len(todo') : todo'[i] = todo[i + 1]
      BY <2>1, HeadTailProperties DEF IInv, TypeInv
    <2>3. Begun' = Begun + 1 /\ Judged' = Judged /\ Begun \in Int
      BY <1>2, <2>1, <2>2 DEF Begun, Judged
    <2>4. run' = GateRuns[Begun']
      <3>1. 1 \in 1 .. Len(todo)
        BY <1>2, <2>2
      <3> QED
        BY <1>2, <2>2, <2>3, <3>1
    <2>5. \A i \in 1 .. Len(todo') : todo'[i] = GateRuns[Begun' + i]
      <3> SUFFICES ASSUME NEW i \in 1 .. Len(todo') PROVE todo'[i] = GateRuns[Begun' + i]
        OBVIOUS
      <3>1. i + 1 \in 1 .. Len(todo) /\ Begun + (i + 1) = Begun' + i
        BY <1>2, <2>2, <2>3
      <3> QED
        BY <1>2, <2>2, <3>1
    <2>6. Len(todo') <= 10 /\ Judged' >= 0 /\ pass' + fail' = Judged'
      <3>1. Len(todo) \in 0 .. 10
        BY <1>2
      <3> DEFINE n == Len(todo)
                 m == Len(todo')
      <3>2. m <= 10
        <4>1. n \in 0 .. 10 /\ m = n - 1
          BY <2>2, <3>1
        <4> HIDE DEF n, m
        <4> QED
          BY <4>1
      <3> QED
        BY <1>2, <2>1, <2>3, <3>2
    <2>7. fail' = 0 => \A j \in 1 .. Judged' : Right(GateRuns[j])'
      BY <1>1, <1>2, <2>1, <2>3
    <2>8. faults' \subseteq Unseen /\ hooks' = ToSet(Mutations) => fail' = 0
      BY <1>2, <2>1
    <2> QED
      BY <2>4, <2>5, <2>6, <2>7, <2>8 DEF GateInv
  <1>4. CASE GateJudges
    <2>1. /\ phase = "exited" /\ phase' = "idle" /\ UNCHANGED <<faults, hooks, todo, run>>
          /\ IF exit = (IF run.mutation = None THEN 0 ELSE 99)
             THEN pass' = pass + 1 /\ fail' = fail
             ELSE fail' = fail + 1 /\ pass' = pass
      BY <1>4 DEF GateJudges, library
    <2>2. Begun' = Begun /\ Judged' = Begun /\ Judged = Begun - 1 /\ Begun \in 1 .. 10
      BY <1>2, <2>1, SMTT(30) DEF Begun, Judged
    <2>3. run = GateRuns[Begun] /\ pass' + fail' = Judged' /\ Judged' >= 0
      BY <1>2, <2>1, <2>2
    <2>4. ASSUME fail' = 0, NEW j \in 1 .. Judged' PROVE Right(GateRuns[j])'
      <3>1. fail = 0 /\ exit = (IF run.mutation = None THEN 0 ELSE 99)
        BY <1>2, <2>1, <2>4
      <3>2. Right(run)
        BY <1>1, <2>1, <3>1, Judgement
      <3>3. j \in 1 .. Judged \/ j = Begun
        BY <2>2
      <3> QED
        BY <1>1, <1>2, <2>3, <3>1, <3>2, <3>3
    <2>5. ASSUME faults' \subseteq Unseen, hooks' = ToSet(Mutations) PROVE fail' = 0
      BY <1>1, <1>2, <2>1, <2>5, Judgement
    <2>6. /\ Len(todo') <= 10 /\ \A i \in 1 .. Len(todo') : todo'[i] = GateRuns[Begun' + i]
          /\ Begun' > 0 => run' = GateRuns[Begun']
      <3> DEFINE n == Len(todo)
      <3>1. n <= 10
        <4>1. n \in 0 .. 10
          BY <1>2
        <4> HIDE DEF n
        <4> QED
          BY <4>1
      <3> QED
        BY <1>2, <2>1, <2>2, <3>1
    <2> QED
      BY <2>3, <2>4, <2>5, <2>6 DEF GateInv
  <1>5. CASE RunsCheck \/ RunnerExits \/ GateExits \/ UNCHANGED vars
    <2>1. /\ UNCHANGED <<faults, hooks, todo, run, pass, fail>>
          /\ phase' \in {"checks", "exited"} <=> phase \in {"checks", "exited"}
      BY <1>5 DEF RunsCheck, RunnerExits, GateExits, vars, library, counters
    <2>2. Begun' = Begun /\ Judged' = Judged
      BY <2>1 DEF Begun, Judged
    <2> QED
      BY <1>1, <1>2, <2>1, <2>2, SMTT(30) DEF GateInv
  <1> QED
    BY <1>3, <1>4, <1>5 DEF Next

\* Every step keeps what is known of the exit code of the gate.
LEMMA ExitStep == IInv /\ [Next]_vars => ExitInv'
  <1> SUFFICES ASSUME IInv, [Next]_vars PROVE ExitInv'
    OBVIOUS
  <1> USE DEF IInv, ExitInv, library, counters
  <1>1. CASE RunnerStarts
    <2>1. Len(todo') = Len(todo) - 1 /\ Len(todo) \in Nat
      BY <1>1, HeadTailProperties DEF RunnerStarts, TypeInv
    <2>2. phase = "idle" /\ phase' # "over"
      BY <1>1 DEF RunnerStarts
    <2> QED
      BY <1>1, <2>1, <2>2, NoneAssumption DEF RunnerStarts
  <1>2. CASE RunsCheck
    BY <1>2, NoneAssumption DEF RunsCheck
  <1>3. CASE RunnerExits
    BY <1>3, NoneAssumption DEF RunnerExits
  <1>4. CASE GateJudges
    BY <1>4, NoneAssumption DEF GateJudges
  <1>5. CASE GateExits
    BY <1>5, NoneAssumption DEF GateExits
  <1>6. CASE UNCHANGED vars
    BY <1>6 DEF vars
  <1> QED
    BY <1>1, <1>2, <1>3, <1>4, <1>5, <1>6 DEF Next
-----------------------------------------------------------------------------
\* The invariant holds in every state.
THEOREM IInvCorrect == Spec => []IInv
  <1>1. IInv /\ [Next]_vars => IInv'
    BY TypeStep, RunStep, NoLabelsStep, GateStep, ExitStep DEF IInv
  <1> QED
    BY InitInv, <1>1, PTL DEF Spec

\* For every set of cases: the results of a run are results of the eight checks, and the gate
\* makes no more than its ten runs.
THEOREM TypeCorrect == Spec => []TypeOK
  <1>1. IInv => TypeOK
    <2> SUFFICES ASSUME IInv PROVE TypeOK
      OBVIOUS
    <2>1. \A i \in DOMAIN results : results[i] \in [check : 1 .. NumChecks, passed : BOOLEAN]
      <3>1. \A i \in DOMAIN results : results[i] \in Result
        BY ElementOfSeq, LenProperties DEF IInv, TypeInv
      <3> QED
        BY <3>1, MutationsAre DEF Result
    <2>2. pass + fail + Len(todo) <= Len(GateRuns)
      BY GateRunsAre DEF IInv, TypeInv, GateInv, ExitInv, Judged, Begun
    <2> QED
      BY <2>1, <2>2, MutationsAre DEF IInv, TypeInv, ExitInv, TypeOK
  <1> QED
    BY IInvCorrect, <1>1, PTL

\* For every set of faults, every locale and every value of MUTATE: a run of main in a locale
\* with labels makes all eight checks, and its exit code tells a pass from a caught mutation and
\* both from the rest; in any other it ends with 2, for "all" after the first check.
THEOREM ExitTellsTheRunCorrect == Spec => []ExitTellsTheRun
  <1>1. IInv => ExitTellsTheRun
    <2> SUFFICES ASSUME IInv, phase = "exited", run.lang \in Locales PROVE ExitTellsTheRun
      BY DEF IInv, NoLabelsInv, ExitTellsTheRun
    <2>1. /\ DOMAIN results = 1 .. 8 /\ NumChecks = 8
          /\ \A i \in 1 .. 8 : results[i].check = i
      <3>1. check = 9 /\ Len(results) = check - 1
        BY DEF IInv, RunInv
      <3>2. Len(results) = 8 /\ DOMAIN results = 1 .. Len(results)
        BY <3>1, LenProperties DEF IInv, TypeInv
      <3>3. \A i \in 1 .. check - 1 : results[i].check = i
        BY DEF IInv, RunInv
      <3>4. check - 1 = 8
        BY <3>1
      <3> QED
        BY <3>2, <3>3, <3>4, MutationsAre
    <2>2. [i \in DOMAIN results |-> results[i].check] = [k \in 1 .. NumChecks |-> k]
      BY <2>1
    <2>3. /\ exit = 0 <=> Failed = {} /\ run.mutation = None
          /\ exit = 99 <=> Failed # {} /\ run.mutation # None
      BY OutcomeTells DEF IInv, RunInv
    <2> QED
      BY <2>2, <2>3 DEF ExitTellsTheRun
  <1> QED
    BY IInvCorrect, <1>1, PTL

\* For every set of faults, however they hide each other, and every set of mutations gone stale:
\* the gate's script exits 0 exactly where it should.
THEOREM GateIsExactCorrect == Spec => []GateIsExact
  <1>1. ASSUME IInv, gateExit # None
        PROVE  gateExit = 0 <=> faults \subseteq Unseen /\ hooks = ToSet(Mutations)
    <2>1. gate /\ Judged = 10 /\ (gateExit = 0 <=> fail = 0)
      BY <1>1 DEF IInv, TypeInv, ExitInv, Judged, Begun
    <2>2. ASSUME fail = 0 PROVE faults \subseteq Unseen /\ hooks = ToSet(Mutations)
      <3>1. \A j \in 1 .. 10 : Right(GateRuns[j])
        BY <1>1, <2>1, <2>2 DEF IInv, GateInv
      <3>2. faults \subseteq Hidden
        BY <3>1, BaselinesSuffice
      <3>3. \A k \in 1 .. 8 : /\ Mutations[k] \in hooks
                              /\ Mutations[k] = "cache_miss" => Works("key too coarse")
        <4> SUFFICES ASSUME NEW k \in 1 .. 8
                     PROVE  /\ Mutations[k] \in hooks
                            /\ Mutations[k] = "cache_miss" => Works("key too coarse")
          OBVIOUS
        <4>1. /\ k + 2 \in 1 .. 10 /\ ~(k + 2 <= 2) /\ GateRuns[k + 2].mutation = Mutations[k]
          BY GateRunsAre DEF Run
        <4> QED
          BY <3>1, <3>2, <4>1, GateRunsAre DEF Right
      <3>4. faults \subseteq Unseen
        <4>1. 5 \in 1 .. 8 /\ Mutations[5] = "cache_miss"
          BY MutationsAre
        <4>2. "key too coarse" \notin faults
          BY <3>3, <4>1 DEF Works
        <4> QED
          BY <3>2, <4>2 DEF Hidden
      <3>5. ToSet(Mutations) \subseteq hooks
        BY <3>3, MutationsAre DEF ToSet
      <3> QED
        BY <1>1, <3>4, <3>5 DEF IInv, TypeInv
    <2> QED
      BY <1>1, <2>1, <2>2 DEF IInv, GateInv
  <1>2. ASSUME IInv, gate, phase = "exited", fail = 0, exit = 99
        PROVE  Failed = {Target(run.mutation)}
    <2>1. Begun \in 1 .. 10 /\ run = GateRuns[Begun] /\ Judged = Begun - 1
      BY <1>2, SMTT(30) DEF IInv, TypeInv, GateInv, Begun, Judged
    <2>2. run.lang \in Locales
      BY <2>1, GateRunsAre
    <2>3. Failed # {} /\ run.mutation # None
      BY <1>2, <2>2, OutcomeTells DEF IInv, RunInv
    <2>4. Begun \in 3 .. 10 /\ run = Run("en", Mutations[Begun - 2])
      BY <2>1, <2>3, GateRunsAre
    <2>5. PICK m \in 1 .. 8 : run.mutation = Mutations[m]
      <3>1. Begun - 2 \in 1 .. 8
        BY <2>4
      <3> QED
        BY <2>4, <3>1 DEF Run
    <2>6. faults \subseteq Hidden
      <3>1. Right(GateRuns[1]) /\ Right(GateRuns[2])
        BY <1>2, <2>1, <2>4 DEF IInv, GateInv
      <3> QED
        BY <3>1, BaselinesSuffice
    <2>7. \A k \in 1 .. 8 : Fails(k) => k = m
      BY <2>2, <2>5, <2>6, MutatedFails
    <2>8. Failed = {m}
      BY <1>2, <2>2, <2>3, <2>7, FailedIs
    <2> QED
      BY <2>5, <2>8, TargetIs
  <1>3. IInv => GateIsExact
    BY <1>1, <1>2 DEF GateIsExact
  <1> QED
    BY IInvCorrect, <1>3, PTL
=============================================================================
