------------------------- MODULE SequentialFormatProofs -------------------------
(***************************************************************************)
(* Proofs about SequentialFormat, for pipelines and batches of every       *)
(* length and for all texts.                                               *)
(***************************************************************************)
EXTENDS SequentialFormat, FiniteSetTheorems, SequenceTheorems, TLAPS

USE TextsAssumption, PlansAssumption, NoneAssumption DEF APIs, Kinds

\* The content that the i-th Format call is to be given.
Input(i) == IF plan.api = "Pipeline" /\ i > 1 THEN returned[i - 1].text ELSE contents[i]

\* A successful result has a text.
Result == {r \in Outcome : r.success => r.text \in Texts}
-----------------------------------------------------------------------------
(* The inductive invariant. *)

TypeInv ==
    /\ plan \in Plans /\ Count \in Nat
    /\ contents \in [1 .. IF plan.api = "Pipeline" THEN 1 ELSE Count -> Texts]
    /\ done \in BOOLEAN /\ pc \in {"loop", "run", "exchange", "returned", "answered"}
    /\ step \in 1 .. Count + 1 /\ current \in Texts \cup {None}
    /\ child \in {"none", "running", "succeeded", "failed", "killed"}
    /\ output \in Texts \cup {None} /\ (child = "succeeded" => output \in Texts)
    /\ held \in BOOLEAN
    /\ results \in Seq(Outcome) /\ answer \in Outcome \cup {None}
    /\ fed \in Seq(Texts) /\ returned \in Seq(Result)

\* Each call has been given its input, and the next one is about to be.
CallsInv ==
    /\ pc \in {"run", "exchange", "returned"} => step <= Count
    /\ pc = "exchange" => plan.kinds[step] = "service"
    /\ Len(fed) = IF pc \in {"run", "exchange"} THEN Len(returned) + 1 ELSE Len(returned)
    /\ pc # "answered" => Len(returned) = IF pc = "returned" THEN step ELSE step - 1
    /\ \A i \in 1 .. Len(fed) : fed[i] = Input(i)
    /\ (pc \in {"loop", "run", "exchange"} /\ step <= Count) => current = Input(step)

PipelineInv ==
    plan.api = "Pipeline" =>
        /\ pc \in {"loop", "run", "exchange"} => \A i \in 1 .. step - 1 : returned[i].success
        /\ pc = "returned" => \A i \in 1 .. step - 1 : returned[i].success

BatchInv ==
    plan.api # "Pipeline" =>
        /\ answer = None
        /\ Len(results) = step - 1 /\ \A i \in 1 .. step - 1 : results[i] = returned[i]
        /\ pc = "answered" => step = Count + 1 /\ Len(returned) = Count

AnswerInv == (pc # "answered" => answer = None) /\ SuccessIsOfAllSteps /\ ChangedIsAboutTheRequest

LinesInv ==
    \A i \in 1 .. Len(returned) :
        (plan.kinds[i] = "native" /\ returned[i].success) =>
            returned[i].lines = computeLineChanges(fed[i], returned[i].text)

IInv == TypeInv /\ CallsInv /\ PipelineInv /\ BatchInv /\ AnswerInv /\ LinesInv
-----------------------------------------------------------------------------
\* What Append adds, and what it leaves as it was.
LEMMA Appended ==
    ASSUME NEW S, NEW s \in Seq(S), NEW x \in S
    PROVE  /\ Append(s, x) \in Seq(S) /\ Len(Append(s, x)) = Len(s) + 1 /\ Len(s) \in Nat
           /\ \A i \in 1 .. Len(s) : Append(s, x)[i] = s[i]
           /\ Append(s, x)[Len(s) + 1] = x
  BY AppendProperties, LenProperties

\* A text has a number of lines.
LEMMA TextsAreSequences == ASSUME NEW t \in Texts PROVE Len(t) \in Nat
  <1>1. t \in Seq(UNION {{u[i] : i \in DOMAIN u} : u \in Texts})
    OBVIOUS
  <1> QED
    BY <1>1, LenProperties

\* The count of changed lines is a number, and zero only if no line that either text has differs.
LEMMA LineChangesType ==
    ASSUME NEW t \in Texts, NEW u \in Texts
    PROVE  /\ computeLineChanges(t, u) \in Nat
           /\ computeLineChanges(t, u) = 0 =>
                 \A i \in 1 .. LongestOf(t, u) : LineOf(t, i) = LineOf(u, i)
  <1> DEFINE D == {i \in 1 .. LongestOf(t, u) : LineOf(t, i) # LineOf(u, i)}
  <1>1. LongestOf(t, u) \in Nat
    BY TextsAreSequences DEF LongestOf
  <1>2. IsFiniteSet(1 .. LongestOf(t, u)) /\ D \subseteq 1 .. LongestOf(t, u)
    BY <1>1, FS_Interval
  <1>3. IsFiniteSet(D)
    BY <1>2, FS_Subset
  <1>4. Cardinality(D) \in Nat /\ (Cardinality(D) = 0 => D = {})
    BY <1>3, FS_CardinalityType, FS_EmptySet
  <1> QED
    BY <1>4 DEF computeLineChanges

\* What a Format call returns is an outcome, and a success among them has a text.
LEMMA ResultTypes ==
    /\ \A t \in Texts, b \in BOOLEAN, n \in Nat : Formatted(t, b, n) \in Result
    /\ \A b \in BOOLEAN : Failed(b) \in Result
    /\ Result \subseteq Outcome
  BY DEF Formatted, Failed, Result, Outcome
-----------------------------------------------------------------------------
\* The invariant holds before the first Format call.
LEMMA InitInv == Init => IInv
  <1> SUFFICES ASSUME Init PROVE IInv
    OBVIOUS
  <1> USE DEF Init
  <1>1. Count \in Nat /\ plan.api \in APIs
    BY LenProperties DEF Count
  <1>2. current \in Texts \cup {None}
    <2>1. CASE contents = <<>>
      BY <2>1
    <2>2. CASE contents # <<>>
      <3>1. 1 \in DOMAIN contents
        BY <1>1, <2>2
      <3> QED
        BY <1>1, <2>2, <3>1
    <2> QED
      BY <2>1, <2>2
  <1>3. TypeInv
    <2>1. <<>> \in Seq(Outcome) /\ <<>> \in Seq(Texts) /\ <<>> \in Seq(Result)
      BY EmptySeq
    <2> HIDE DEF Result, Outcome
    <2>2. step \in 1 .. Count + 1 /\ fed \in Seq(Texts) /\ returned \in Seq(Result)
          /\ results \in Seq(Outcome)
      BY <1>1, <2>1
    <2> QED
      BY <1>1, <1>2, <2>2 DEF TypeInv
  <1>4. CallsInv
    <2>1. 1 <= Count \/ plan.api = "Pipeline" => contents # <<>>
      BY <1>1
    <2> QED
      BY <1>1, <2>1, EmptySeq DEF CallsInv, Input
  <1>5. PipelineInv /\ BatchInv
    BY EmptySeq DEF PipelineInv, BatchInv
  <1>6. AnswerInv /\ LinesInv
    BY EmptySeq DEF AnswerInv, SuccessIsOfAllSteps, ChangedIsAboutTheRequest, LinesInv
  <1> QED
    BY <1>3, <1>4, <1>5, <1>6 DEF IInv
\* Before it is answered, a call is given its input, which is a text.
LEMMA InputType ==
    ASSUME IInv, pc \in {"loop", "run", "exchange"}, step <= Count
    PROVE  /\ step \in 1 .. Count /\ Count \in Nat
           /\ current = Input(step) /\ current \in Texts
           /\ Len(returned) = step - 1
  <1>1. step \in 1 .. Count /\ Count \in Nat /\ current = Input(step) /\ Len(returned) = step - 1
    BY DEF IInv, TypeInv, CallsInv
  <1>2. CASE plan.api = "Pipeline" /\ step > 1
    <2>1. step - 1 \in 1 .. Len(returned)
      BY <1>1, <1>2
    <2>2. returned[step - 1] \in Result
      BY <2>1, ElementOfSeq DEF IInv, TypeInv
    <2>3. returned[step - 1].success
      BY <1>1, <1>2 DEF IInv, PipelineInv
    <2> QED
      BY <1>1, <1>2, <2>2, <2>3 DEF Input, Result
  <1>3. CASE ~(plan.api = "Pipeline" /\ step > 1)
    <2>1. contents[step] \in Texts
      BY <1>1, <1>3 DEF IInv, TypeInv
    <2> QED
      BY <1>1, <1>3, <2>1 DEF Input
  <1> QED
    BY <1>2, <1>3

\* A Format call begins with the right content.
LEMMA CallBegins ==
    ASSUME IInv, NEW kind \in Kinds, Calls(kind)
    PROVE  /\ step \in 1 .. Count /\ Count \in Nat /\ plan.kinds[step] = kind
           /\ current \in Texts /\ Len(returned) = step - 1
           /\ fed' \in Seq(Texts) /\ Len(fed') = step
           /\ fed'[step] = current /\ \A i \in 1 .. step : fed'[i] = Input(i)
  <1>1. /\ pc = "loop" /\ step <= Count /\ plan.kinds[step] = kind /\ fed' = Append(fed, current)
    BY DEF Calls
  <1>2. /\ step \in 1 .. Count /\ Count \in Nat
        /\ current = Input(step) /\ current \in Texts
        /\ Len(returned) = step - 1
    BY <1>1, InputType
  <1>3. fed \in Seq(Texts) /\ Len(fed) = step - 1 /\ \A i \in 1 .. step - 1 : fed[i] = Input(i)
    BY <1>1, <1>2 DEF IInv, TypeInv, CallsInv
  <1>4. /\ fed' \in Seq(Texts) /\ Len(fed') = Len(fed) + 1
        /\ \A i \in 1 .. Len(fed) : fed'[i] = fed[i]
        /\ fed'[Len(fed) + 1] = current
    BY <1>1, <1>2, <1>3, Appended
  <1>5. fed'[step] = current /\ Len(fed') = step
    BY <1>2, <1>3, <1>4
  <1>6. \A i \in 1 .. step : fed'[i] = Input(i)
    BY <1>2, <1>3, <1>4, <1>5
  <1> QED
    BY <1>1, <1>2, <1>4, <1>5, <1>6

\* A Format call waits for its child or its exchange.
LEMMA CallWaits ==
    ASSUME IInv, pc = "loop", pc' \in {"run", "exchange"}, step \in 1 .. Count,
           pc' = "exchange" => plan.kinds[step] = "service", Len(returned) = step - 1,
           fed' \in Seq(Texts), Len(fed') = step, \A i \in 1 .. step : fed'[i] = Input(i),
           current = Input(step), child' \in {"running"} \/ (UNCHANGED child),
           UNCHANGED <<plan, contents, done, step, current, output, held, results, answer, returned>>
    PROVE  IInv'
  <1>1. Count' = Count /\ Count \in Nat /\ \A i : Input(i)' = Input(i)
    BY DEF Count, Input, IInv, TypeInv
  <1>2. TypeInv'
    <2> HIDE DEF Result, Outcome
    <2> QED
      BY <1>1 DEF IInv, TypeInv
  <1>3. CallsInv'
    BY <1>1 DEF CallsInv
  <1>4. PipelineInv' /\ BatchInv'
    BY <1>1 DEF IInv, PipelineInv, BatchInv
  <1>5. AnswerInv'
    BY DEF IInv, AnswerInv, SuccessIsOfAllSteps, ChangedIsAboutTheRequest
  <1>6. LinesInv'
    <2>1. \A i \in 1 .. step - 1 : fed'[i] = fed[i]
      BY <1>1 DEF IInv, CallsInv
    <2> QED
      BY <1>1, <2>1 DEF IInv, LinesInv
  <1> QED
    BY <1>2, <1>3, <1>4, <1>5, <1>6 DEF IInv

\* A Format call returns, at once or after its child or its exchange.
LEMMA CallReturns ==
    ASSUME IInv, NEW r \in Result, Returns(r), pc \in {"loop", "run", "exchange"},
           step <= Count, fed' \in Seq(Texts), Len(fed') = step,
           \A i \in 1 .. step : fed'[i] = Input(i),
           (plan.kinds[step] = "native" /\ r.success) =>
               r.lines = computeLineChanges(fed'[step], r.text),
           child' \in {"none", "running", "failed", "killed"} \/ (UNCHANGED <<child, output>>),
           output' \in Texts \cup {None}, held' \in BOOLEAN,
           UNCHANGED <<plan, contents, done, step, current, results, answer>>
    PROVE  IInv'
  <1>1. /\ step \in 1 .. Count /\ Count \in Nat /\ Len(returned) = step - 1
        /\ returned \in Seq(Result) /\ Count' = Count
    BY InputType DEF IInv, TypeInv, Count
  <1>2. /\ returned' \in Seq(Result) /\ Len(returned') = step
        /\ \A i \in 1 .. step - 1 : returned'[i] = returned[i]
        /\ returned'[step] = r /\ pc' = "returned"
    <2>1. /\ Append(returned, r) \in Seq(Result) /\ Len(Append(returned, r)) = Len(returned) + 1
          /\ \A i \in 1 .. Len(returned) : Append(returned, r)[i] = returned[i]
          /\ Append(returned, r)[Len(returned) + 1] = r
      BY <1>1, Appended
    <2>2. pc' = "returned" /\ returned' = Append(returned, r)
      BY DEF Returns
    <2>3. Len(returned) + 1 = step
      BY <1>1
    <2> HIDE DEF Result
    <2> QED
      BY <1>1, <2>1, <2>2, <2>3
  <1>3. TypeInv'
    <2> HIDE DEF Result, Outcome
    <2> QED
      BY <1>1, <1>2 DEF IInv, TypeInv
  <1>4. \A i \in 1 .. step : Input(i)' = Input(i)
    BY <1>1, <1>2 DEF Input
  <1>5. CallsInv'
    BY <1>1, <1>2, <1>4 DEF CallsInv
  <1>6. PipelineInv'
    BY <1>1, <1>2 DEF IInv, PipelineInv
  <1>7. BatchInv'
    BY <1>1, <1>2 DEF IInv, BatchInv
  <1>8. AnswerInv'
    BY DEF IInv, AnswerInv, SuccessIsOfAllSteps, ChangedIsAboutTheRequest
  <1>9. LinesInv'
    <2>1. Len(fed) \in {step, step - 1} /\ \A i \in 1 .. step - 1 : fed[i] = Input(i)
      BY <1>1 DEF IInv, CallsInv
    <2>2. \A i \in 1 .. step - 1 : fed'[i] = fed[i]
      BY <1>1, <2>1
    <2>3. ASSUME NEW i \in 1 .. step, plan.kinds[i] = "native", returned'[i].success
          PROVE  returned'[i].lines = computeLineChanges(fed'[i], returned'[i].text)
      <3>1. CASE i = step
        BY <1>2, <2>3, <3>1
      <3>2. CASE i # step
        BY <1>1, <1>2, <2>2, <2>3, <3>2 DEF IInv, LinesInv
      <3> QED
        BY <3>1, <3>2
    <2> QED
      BY <1>2, <2>3 DEF LinesInv
  <1> QED
    BY <1>3, <1>5, <1>6, <1>7, <1>8, <1>9 DEF IInv
\* What the environment and the context do to a child process is nothing to the caller's state.
LEMMA ProcessStep ==
    ASSUME IInv, UNCHANGED <<plan, contents, pc, step, current, results, answer, fed, returned>>,
           done' \in BOOLEAN, child' \in {"none", "running", "succeeded", "failed", "killed"},
           output' \in Texts \cup {None}, child' = "succeeded" => output' \in Texts,
           held' \in BOOLEAN
    PROVE  IInv'
  <1>1. Count' = Count /\ \A i : Input(i)' = Input(i)
    BY DEF Count, Input
  <1>2. TypeInv'
    <2> HIDE DEF Result, Outcome
    <2> QED
      BY <1>1 DEF IInv, TypeInv
  <1>3. CallsInv' /\ PipelineInv' /\ BatchInv'
    BY <1>1 DEF IInv, CallsInv, PipelineInv, BatchInv
  <1>4. AnswerInv' /\ LinesInv'
    BY <1>1 DEF IInv, AnswerInv, SuccessIsOfAllSteps, ChangedIsAboutTheRequest, LinesInv
  <1> QED
    BY <1>2, <1>3, <1>4 DEF IInv

\* The steps of a native formatter keep the invariant.
LEMMA NativeStep ==
    ASSUME IInv, ChildStarts \/ ChildDoesNotStart \/ RunReturns PROVE IInv'
  <1> USE DEF process
  <1>0. /\ child \in {"none", "running", "succeeded", "failed", "killed"} /\ held \in BOOLEAN
        /\ output \in Texts \cup {None} /\ (child = "succeeded" => output \in Texts)
        /\ Count \in Nat
    BY DEF IInv, TypeInv
  <1>1. CASE ChildStarts
    <2>1. /\ Calls("native") /\ pc = "loop" /\ pc' = "run" /\ child' = "running"
          /\ UNCHANGED <<plan, contents, done, step, current, output, held, results, answer,
                         returned>>
      BY <1>1 DEF ChildStarts, Calls
    <2>2. /\ step \in 1 .. Count /\ current \in Texts /\ Len(returned) = step - 1
          /\ fed' \in Seq(Texts) /\ Len(fed') = step /\ \A i \in 1 .. step : fed'[i] = Input(i)
          /\ current = Input(step)
      BY <2>1, CallBegins, InputType
    <2> QED
      BY <1>0, <2>1, <2>2, CallWaits
  <1>2. CASE ChildDoesNotStart
    <2>1. /\ Calls("native") /\ pc = "loop" /\ Returns(Failed(FALSE))
          /\ UNCHANGED <<plan, contents, done, step, current, child, output, held, results, answer>>
      BY <1>2 DEF ChildDoesNotStart, Calls
    <2>2. /\ step <= Count
          /\ fed' \in Seq(Texts) /\ Len(fed') = step /\ \A i \in 1 .. step : fed'[i] = Input(i)
      BY <1>0, <2>1, CallBegins
    <2>3. Failed(FALSE) \in Result /\ ~Failed(FALSE).success
      BY ResultTypes DEF Failed
    <2> HIDE DEF Result, Outcome
    <2> QED
      BY <1>0, <2>1, <2>2, <2>3, CallReturns
  <1>3. CASE RunReturns
    <2>1. /\ pc = "run" /\ child' = "none" /\ output' = None /\ UNCHANGED <<held, fed>>
          /\ UNCHANGED <<plan, contents, done, step, current, results, answer>>
      BY <1>3 DEF RunReturns
    <2>2. /\ step \in 1 .. Count /\ current = Input(step) /\ current \in Texts
          /\ Len(returned) = step - 1 /\ step <= Count
      BY <1>0, <2>1, InputType DEF IInv, CallsInv
    <2>3. /\ fed' \in Seq(Texts) /\ Len(fed') = step /\ \A i \in 1 .. step : fed'[i] = Input(i)
          /\ fed'[step] = current
      BY <2>1, <2>2 DEF IInv, TypeInv, CallsInv
    <2>4. CASE child = "succeeded" /\ Returns(Formatted(output, output # current,
                                                        computeLineChanges(current, output)))
      <3> DEFINE r == Formatted(output, output # current, computeLineChanges(current, output))
      <3>1. r \in Result
        BY <1>0, <2>2, <2>4, LineChangesType, ResultTypes
      <3>2. r.lines = computeLineChanges(fed'[step], r.text) /\ Returns(r)
        BY <2>3, <2>4 DEF Formatted
      <3> HIDE DEF r, Result, Outcome
      <3> QED
        BY <1>0, <2>1, <2>2, <2>3, <3>1, <3>2, CallReturns
    <2>5. CASE Returns(Failed(FALSE))
      <3>1. Failed(FALSE) \in Result /\ ~Failed(FALSE).success
        BY ResultTypes DEF Failed
      <3> HIDE DEF Result, Outcome
      <3> QED
        BY <1>0, <2>1, <2>2, <2>3, <2>5, <3>1, CallReturns
    <2> QED
      BY <1>3, <2>4, <2>5 DEF RunReturns
  <1> QED
    BY <1>1, <1>2, <1>3

\* The steps of a service formatter keep the invariant.
LEMMA ServiceStep ==
    ASSUME IInv,
           RequestIsSent \/ RequestIsNotSent \/ ServiceAnswers \/ ExchangeFails \/ ExchangeIsEnded
    PROVE  IInv'
  <1> USE DEF process
  <1>0. /\ child \in {"none", "running", "succeeded", "failed", "killed"} /\ held \in BOOLEAN
        /\ output \in Texts \cup {None} /\ (child = "succeeded" => output \in Texts)
        /\ Count \in Nat
    BY DEF IInv, TypeInv
  <1>1. CASE RequestIsSent
    <2>1. /\ Calls("service") /\ pc = "loop" /\ pc' = "exchange"
          /\ UNCHANGED <<plan, contents, done, step, current, child, output, held, results, answer,
                         returned>>
      BY <1>1 DEF RequestIsSent, Calls
    <2>2. /\ step \in 1 .. Count /\ current \in Texts /\ Len(returned) = step - 1
          /\ fed' \in Seq(Texts) /\ Len(fed') = step /\ \A i \in 1 .. step : fed'[i] = Input(i)
          /\ current = Input(step) /\ plan.kinds[step] = "service"
      BY <2>1, CallBegins, InputType
    <2> QED
      BY <1>0, <2>1, <2>2, CallWaits
  <1>2. CASE RequestIsNotSent
    <2>1. /\ Calls("service") /\ pc = "loop" /\ Returns(Failed(TRUE))
          /\ UNCHANGED <<plan, contents, done, step, current, child, output, held, results, answer>>
      BY <1>2 DEF RequestIsNotSent, Calls
    <2>2. /\ step <= Count
          /\ fed' \in Seq(Texts) /\ Len(fed') = step /\ \A i \in 1 .. step : fed'[i] = Input(i)
      BY <1>0, <2>1, CallBegins
    <2>3. Failed(TRUE) \in Result /\ ~Failed(TRUE).success
      BY ResultTypes DEF Failed
    <2> HIDE DEF Result, Outcome
    <2> QED
      BY <1>0, <2>1, <2>2, <2>3, CallReturns
  <1>3. CASE ServiceAnswers \/ ExchangeFails \/ ExchangeIsEnded
    <2>1. /\ pc = "exchange" /\ UNCHANGED <<child, output, held, fed>>
          /\ UNCHANGED <<plan, contents, done, step, current, results, answer>>
      BY <1>3 DEF ServiceAnswers, ExchangeFails, ExchangeIsEnded
    <2>2. /\ step \in 1 .. Count /\ current = Input(step) /\ Len(returned) = step - 1
          /\ step <= Count /\ plan.kinds[step] = "service"
      BY <1>0, <2>1, InputType DEF IInv, CallsInv
    <2>3. fed' \in Seq(Texts) /\ Len(fed') = step /\ \A i \in 1 .. step : fed'[i] = Input(i)
      BY <2>1, <2>2 DEF IInv, TypeInv, CallsInv
    <2>4. PICK r \in Result : Returns(r)
      BY <1>3, ResultTypes DEF ServiceAnswers, ExchangeFails, ExchangeIsEnded
    <2> HIDE DEF Result, Outcome
    <2> QED
      BY <1>0, <2>1, <2>2, <2>3, <2>4, CallReturns
  <1> QED
    BY <1>1, <1>2, <1>3
\* The loops go from one call to the next, or answer.
LEMMA LoopStep ==
    ASSUME IInv,
           PipelineStops \/ PipelineGoesOn \/ PipelineEnds \/ BatchGoesOn \/ BatchEnds
    PROVE  IInv'
  <1> USE DEF process
  <1>0. /\ UNCHANGED <<plan, contents, done, child, output, held, fed, returned>>
        /\ Count' = Count /\ Count \in Nat /\ step \in 1 .. Count + 1 /\ returned \in Seq(Result)
        /\ \A i : Input(i)' = Input(i)
    BY DEF PipelineStops, PipelineGoesOn, PipelineEnds, BatchGoesOn, BatchEnds, Count, Input, IInv,
           TypeInv
  <1>1. ASSUME pc = "returned"
        PROVE  /\ Len(returned) = step /\ step \in 1 .. Count /\ Last = returned[step]
               /\ Last \in Result /\ Last \in Outcome
    <2>1. Len(returned) = step /\ step \in 1 .. Count /\ Last = returned[step]
      BY <1>0, <1>1 DEF IInv, CallsInv, Last
    <2>2. returned[step] \in Result
      BY <1>0, <2>1, ElementOfSeq
    <2> QED
      BY <2>1, <2>2, ResultTypes
  <1>2. LinesInv'
    BY <1>0 DEF IInv, LinesInv
  <1>3. CASE PipelineStops
    <2>1. /\ plan.api = "Pipeline" /\ pc = "returned" /\ ~Last.success
          /\ pc' = "answered" /\ answer' = Last /\ UNCHANGED <<step, current, results>>
      BY <1>3 DEF PipelineStops, Answers
    <2>2. TypeInv'
      <3> HIDE DEF Result, Outcome
      <3> QED
        BY <1>0, <1>1, <2>1 DEF IInv, TypeInv
    <2>3. CallsInv' /\ PipelineInv' /\ BatchInv'
      BY <1>0, <2>1 DEF IInv, CallsInv, PipelineInv, BatchInv
    <2>4. AnswerInv'
      BY <2>1 DEF AnswerInv, SuccessIsOfAllSteps, ChangedIsAboutTheRequest
    <2> QED
      BY <1>2, <2>2, <2>3, <2>4 DEF IInv
  <1>4. CASE PipelineGoesOn
    <2>1. /\ plan.api = "Pipeline" /\ pc = "returned" /\ Last.success
          /\ pc' = "loop" /\ step' = step + 1 /\ current' = Last.text
          /\ UNCHANGED <<results, answer>>
      BY <1>4 DEF PipelineGoesOn
    <2>2. current' \in Texts
      BY <1>1, <2>1 DEF Result
    <2>3. TypeInv'
      <3> HIDE DEF Result, Outcome
      <3> QED
        BY <1>0, <1>1, <2>1, <2>2 DEF IInv, TypeInv
    <2>4. CallsInv'
      <3>1. current' = Input(step + 1)
        BY <1>1, <2>1 DEF Input
      <3> QED
        BY <1>0, <1>1, <2>1, <3>1 DEF IInv, CallsInv
    <2>5. PipelineInv' /\ BatchInv'
      BY <1>0, <1>1, <2>1 DEF IInv, PipelineInv, BatchInv
    <2>6. AnswerInv'
      BY <2>1 DEF IInv, AnswerInv, SuccessIsOfAllSteps, ChangedIsAboutTheRequest
    <2> QED
      BY <1>2, <2>3, <2>4, <2>5, <2>6 DEF IInv
  <1>5. CASE PipelineEnds
    <2>1. /\ plan.api = "Pipeline" /\ pc = "loop" /\ step = Count + 1
          /\ pc' = "answered" /\ UNCHANGED <<step, current, results>>
          /\ answer' = IF Count = 0 THEN Formatted(contents[1], FALSE, 0)
                       ELSE [Last EXCEPT !.changed = Last.text # contents[1]]
      BY <1>0, <1>5 DEF PipelineEnds, Answers
    <2>2. /\ Len(returned) = Count /\ \A i \in 1 .. Count : returned[i].success
          /\ Len(fed) = Count /\ \A i \in 1 .. Count : fed[i] = Input(i)
          /\ contents[1] \in Texts
      BY <1>0, <2>1 DEF IInv, CallsInv, PipelineInv, TypeInv
    <2>3. CASE Count = 0
      <3>1. answer' = Formatted(contents[1], FALSE, 0) /\ answer' \in Outcome
        BY <2>1, <2>2, <2>3, ResultTypes
      <3>2. answer'.text = contents[1] /\ answer'.changed = FALSE
        BY <3>1 DEF Formatted
      <3>3. TypeInv'
        <4> HIDE DEF Result, Outcome
        <4> QED
          BY <1>0, <2>1, <3>1 DEF IInv, TypeInv
      <3>4. CallsInv' /\ PipelineInv' /\ BatchInv'
        BY <1>0, <2>1 DEF IInv, CallsInv, PipelineInv, BatchInv
      <3>5. AnswerInv'
        <4>1. ChangedIsAboutTheRequest'
          BY <1>0, <3>2 DEF ChangedIsAboutTheRequest
        <4>2. \A i \in 1 .. Count : FALSE
          BY <2>3
        <4>3. SuccessIsOfAllSteps'
          BY <1>0, <2>2, <2>3, <3>2, <4>2 DEF SuccessIsOfAllSteps
        <4> QED
          BY <2>1, <4>1, <4>3 DEF AnswerInv
      <3> QED
        BY <1>2, <3>3, <3>4, <3>5 DEF IInv
    <2>4. CASE Count # 0
      <3>1. Last = returned[Count] /\ Last \in Outcome
        <4>1. returned[Count] \in Result
          BY <1>0, <2>2, <2>4, ElementOfSeq
        <4> QED
          BY <2>2, <4>1, ResultTypes DEF Last
      <3>2. /\ answer' = [Last EXCEPT !.changed = Last.text # contents[1]]
            /\ answer' \in Outcome /\ answer'.text = Last.text
            /\ answer'.changed = (Last.text # contents[1])
        BY <2>1, <2>4, <3>1 DEF Outcome
      <3>3. TypeInv'
        <4> HIDE DEF Result, Outcome
        <4> QED
          BY <1>0, <2>1, <3>2 DEF IInv, TypeInv
      <3>4. CallsInv' /\ PipelineInv' /\ BatchInv'
        BY <1>0, <2>1 DEF IInv, CallsInv, PipelineInv, BatchInv
      <3>5. \A i \in 1 .. Count : fed[i] = IF i = 1 THEN contents[1] ELSE returned[i - 1].text
        BY <2>1, <2>2 DEF Input
      <3>6. AnswerInv'
        BY <1>0, <2>1, <2>2, <2>4, <3>1, <3>2, <3>5
        DEF AnswerInv, SuccessIsOfAllSteps, ChangedIsAboutTheRequest
      <3> QED
        BY <1>2, <3>3, <3>4, <3>6 DEF IInv
    <2> QED
      BY <2>3, <2>4
  <1>6. CASE BatchGoesOn
    <2>1. /\ plan.api # "Pipeline" /\ pc = "returned" /\ results' = Append(results, Last)
          /\ step' = step + 1 /\ pc' = "loop" /\ UNCHANGED answer
          /\ current' = IF step < Count THEN contents[step + 1] ELSE current
      BY <1>6 DEF BatchGoesOn
    <2>2. /\ results' \in Seq(Outcome) /\ Len(results') = step
          /\ \A i \in 1 .. step : results'[i] = returned[i]
      <3>1. /\ results \in Seq(Outcome) /\ Len(results) = step - 1
            /\ \A i \in 1 .. step - 1 : results[i] = returned[i]
        BY <2>1 DEF IInv, TypeInv, BatchInv
      <3>2. /\ Append(results, Last) \in Seq(Outcome)
            /\ Len(Append(results, Last)) = Len(results) + 1
            /\ \A i \in 1 .. Len(results) : Append(results, Last)[i] = results[i]
            /\ Append(results, Last)[Len(results) + 1] = Last
        BY <1>1, <2>1, <3>1, Appended
      <3>3. Len(results) + 1 = step
        BY <1>0, <3>1
      <3> HIDE DEF Outcome, Result
      <3> QED
        BY <1>0, <1>1, <2>1, <3>1, <3>2, <3>3
    <2>3. TypeInv'
      <3>1. current' \in Texts \cup {None}
        BY <1>0, <1>1, <2>1 DEF IInv, TypeInv
      <3> HIDE DEF Result, Outcome
      <3> QED
        BY <1>0, <1>1, <2>1, <2>2, <3>1 DEF IInv, TypeInv
    <2>4. CallsInv'
      <3>1. step + 1 <= Count => current' = Input(step + 1)
        BY <1>0, <2>1 DEF Input
      <3> QED
        BY <1>0, <1>1, <2>1, <3>1 DEF IInv, CallsInv
    <2>5. PipelineInv' /\ BatchInv'
      BY <1>0, <2>1, <2>2 DEF IInv, PipelineInv, BatchInv
    <2>6. AnswerInv'
      BY <2>1 DEF IInv, AnswerInv, SuccessIsOfAllSteps, ChangedIsAboutTheRequest
    <2> QED
      BY <1>2, <2>3, <2>4, <2>5, <2>6 DEF IInv
  <1>7. CASE BatchEnds
    <2>1. /\ plan.api # "Pipeline" /\ pc = "loop" /\ step = Count + 1 /\ pc' = "answered"
          /\ UNCHANGED <<step, current, results, answer>>
      BY <1>0, <1>7 DEF BatchEnds
    <2>2. TypeInv'
      <3> HIDE DEF Result, Outcome
      <3> QED
        BY <1>0, <2>1 DEF IInv, TypeInv
    <2>3. CallsInv' /\ PipelineInv' /\ BatchInv'
      BY <1>0, <2>1 DEF IInv, CallsInv, PipelineInv, BatchInv
    <2>4. AnswerInv'
      BY <2>1 DEF IInv, AnswerInv, SuccessIsOfAllSteps, ChangedIsAboutTheRequest
    <2> QED
      BY <1>2, <2>2, <2>3, <2>4 DEF IInv
  <1> QED
    BY <1>3, <1>4, <1>5, <1>6, <1>7

\* Each Format call is given its request or the output of the call before it, and what it
\* returns is kept in its place (executor.go:179-227, native.go:106-133).
THEOREM IInvCorrect == Spec => []IInv
  <1>1. IInv /\ [Next]_vars => IInv'
    <2> SUFFICES ASSUME IInv, [Next]_vars PROVE IInv'
      OBVIOUS
    <2>1. CASE UNCHANGED vars \/ CallerCancels \/ ChildIsKilled \/ ChildExits \/ HolderExits
      BY <2>1, ProcessStep
      DEF vars, process, CallerCancels, ChildIsKilled, ChildExits, HolderExits, IInv, TypeInv
    <2> QED
      BY <2>1, NativeStep, ServiceStep, LoopStep DEF Next, Step
  <1> QED
    BY InitInv, <1>1, PTL DEF Spec
-----------------------------------------------------------------------------
\* For pipelines and batches of every length: no call runs past the last formatter, and whatever
\* is fed to one is a text.
THEOREM TypeCorrect == Spec => []TypeOK
  <1>1. IInv => TypeOK
    <2> SUFFICES ASSUME IInv PROVE TypeOK
      OBVIOUS
    <2>1. contents \in Seq(Texts)
      BY DEF IInv, TypeInv
    <2>2. returned \in Seq(Outcome)
      <3>1. Result \subseteq Outcome /\ returned \in Seq(Result)
        BY ResultTypes DEF IInv, TypeInv
      <3> HIDE DEF Result, Outcome
      <3> QED
        BY <3>1
    <2> HIDE DEF Result, Outcome
    <2> QED
      BY <2>1, <2>2 DEF IInv, TypeInv, TypeOK
  <1> QED
    BY IInvCorrect, <1>1, PTL

\* For pipelines of every length and formatters that answer what they like: a success is one of
\* every step, each on the output of the one before it, and its Changed is about the request.
THEOREM SuccessIsOfAllStepsCorrect == Spec => []SuccessIsOfAllSteps
  <1>1. IInv => SuccessIsOfAllSteps
    BY DEF IInv, AnswerInv
  <1> QED
    BY IInvCorrect, <1>1, PTL

\* For pipelines of every length, whatever Changed the single steps report: Changed of the
\* pipeline compares its output with the content of the request.
THEOREM ChangedIsAboutTheRequestCorrect == Spec => []ChangedIsAboutTheRequest
  <1>1. IInv => ChangedIsAboutTheRequest
    BY DEF IInv, AnswerInv
  <1> QED
    BY IInvCorrect, <1>1, PTL

\* For batches of every length: each request has the outcome of its own Format call in its place.
THEOREM BatchAnswersEachRequestCorrect == Spec => []BatchAnswersEachRequest
  <1>1. IInv => BatchAnswersEachRequest
    <2> SUFFICES ASSUME IInv, pc = "answered", plan.api # "Pipeline"
                 PROVE  Len(results) = Count /\ results = returned /\ fed = contents
      BY DEF BatchAnswersEachRequest
    <2>1. /\ Count \in Nat /\ step = Count + 1 /\ Len(returned) = Count /\ Len(results) = Count
          /\ \A i \in 1 .. Count : results[i] = returned[i]
          /\ Len(fed) = Count /\ \A i \in 1 .. Count : fed[i] = contents[i]
      BY SMTT(30) DEF IInv, TypeInv, CallsInv, BatchInv, Input
    <2>2. /\ results \in Seq(Outcome) /\ returned \in Seq(Outcome)
          /\ fed \in Seq(Texts) /\ contents \in Seq(Texts) /\ Len(contents) = Count
      <3>1. Result \subseteq Outcome /\ returned \in Seq(Result)
        BY ResultTypes DEF IInv, TypeInv
      <3>2. contents \in [1 .. Count -> Texts]
        BY DEF IInv, TypeInv
      <3> HIDE DEF Result, Outcome
      <3> QED
        BY <2>1, <3>1, <3>2 DEF IInv, TypeInv
    <2>3. results = returned
      BY <2>1, <2>2, SeqEqual
    <2>4. fed = contents
      BY <2>1, <2>2, SeqEqual
    <2> QED
      BY <2>1, <2>3, <2>4
  <1> QED
    BY IInvCorrect, <1>1, PTL

\* For texts of every length: the line count of the native formatter is zero only for texts that
\* differ in blank lines at their ends.
THEOREM ZeroMeansAlikeCorrect == Spec => []ZeroMeansAlike
  <1>1. ASSUME NEW t \in Texts, NEW u \in Texts, computeLineChanges(t, u) = 0
        PROVE  \E n \in 0 .. Len(t) :
                  IsTrimmed(t, SubSeq(t, 1, n)) /\ IsTrimmed(u, SubSeq(t, 1, n))
    <2> DEFINE L == UNION {{x[i] : i \in DOMAIN x} : x \in Texts}
               n == IF Len(t) <= Len(u) THEN Len(t) ELSE Len(u)
               s == SubSeq(t, 1, n)
    <2>1. t \in Seq(L) /\ u \in Seq(L) /\ Len(t) \in Nat /\ Len(u) \in Nat
      BY TextsAreSequences
    <2>2. \A i \in 1 .. LongestOf(t, u) : LineOf(t, i) = LineOf(u, i)
      BY <1>1, LineChangesType
    <2> HIDE DEF L
    <2>3. n \in 0 .. Len(t) /\ n \in 0 .. Len(u) /\ n \in Int /\ n <= Len(t) /\ n <= Len(u)
      BY <2>1
    <2>4. /\ \A i \in 1 .. n : t[i] = u[i]
          /\ \A i \in n + 1 .. Len(t) : t[i] = Blank
          /\ \A i \in n + 1 .. Len(u) : u[i] = Blank
      BY <2>1, <2>2 DEF LongestOf, LineOf
    <2> HIDE DEF n
    <2>5. \A i \in 1 .. n : t[i] \in L /\ u[i] \in L
      BY <2>1, <2>3, ElementOfSeq
    <2>6. s \in Seq(L) /\ Len(s) = n /\ \A i \in 1 .. n : s[i] = t[i]
      BY <2>3, <2>5, SubSeqProperties
    <2>7. SubSeq(u, 1, n) \in Seq(L) /\ Len(SubSeq(u, 1, n)) = n
          /\ \A i \in 1 .. n : SubSeq(u, 1, n)[i] = u[i]
      BY <2>3, <2>5, SubSeqProperties
    <2>8. s = SubSeq(u, 1, n)
      BY <2>4, <2>6, <2>7, SeqEqual
    <2> HIDE DEF s
    <2>9. IsTrimmed(t, s) /\ IsTrimmed(u, s)
      BY <2>3, <2>4, <2>6, <2>8 DEF IsTrimmed, s
    <2> QED
      BY <2>3, <2>9 DEF s
  <1>2. IInv => ZeroMeansAlike
    <2> SUFFICES ASSUME IInv, NEW i \in DOMAIN returned, plan.kinds[i] = "native",
                        returned[i].success, returned[i].lines = 0
                 PROVE  \E n \in 0 .. Len(fed[i]) :
                           /\ IsTrimmed(fed[i], SubSeq(fed[i], 1, n))
                           /\ IsTrimmed(returned[i].text, SubSeq(fed[i], 1, n))
      BY DEF ZeroMeansAlike
    <2>1. returned \in Seq(Result) /\ i \in 1 .. Len(returned) /\ Len(returned) \in Nat
      BY LenProperties DEF IInv, TypeInv
    <2>2. returned[i].text \in Texts
      <3>1. returned[i] \in Result
        BY <2>1, ElementOfSeq
      <3> QED
        BY <3>1 DEF Result
    <2>3. fed[i] \in Texts
      <3>1. fed \in Seq(Texts) /\ i \in 1 .. Len(fed)
        BY <2>1 DEF IInv, TypeInv, CallsInv
      <3> QED
        BY <3>1, ElementOfSeq
    <2>4. computeLineChanges(fed[i], returned[i].text) = 0
      BY <2>1 DEF IInv, LinesInv
    <2> QED
      BY <1>1, <2>2, <2>3, <2>4
  <1> QED
    BY IInvCorrect, <1>2, PTL
=============================================================================
