------------------------- MODULE MiddlewareChainProofs -------------------------
(***************************************************************************)
(* Proofs about MiddlewareChain, for every chain of the three middlewares, *)
(* every retry limit and any number of goroutines.                         *)
(***************************************************************************)
EXTENDS MiddlewareChain, FiniteSetTheorems, TLAPS

USE ChainsAssumption, LimitsAssumption, CallerAssumption, NoneAssumption

\* What the types of the next state rest on: a sleeping RetryMiddleware has an attempt left,
\* and a goroutine in TimeoutMiddleware's select waits for another one, which runs the chain
\* from the next position inwards.
SleepsInRetry ==
    \A g \in Goroutines : pc[g] = "sleep" =>
        at[g] \in Positions /\ chain[at[g]] = "retry" /\ tries[g][at[g]] < Limit
SelectsInTimeout ==
    \A g \in Goroutines : pc[g] = "select" =>
        /\ at[g] \in Positions /\ chain[at[g]] = "timeout"
        /\ waits[g] \in Born /\ waits[g] # g
        /\ entry[waits[g]] = at[g] + 1
TypeInv == TypeOK /\ SleepsInRetry /\ SelectsInTimeout

\* A clamped number of retries is not negative.
LEMMA ClampIsNat == \A n \in Int : Clamp(n) \in Nat
  BY DEF Clamp

\* The limit of a retry loop is not negative.
LEMMA LimitType == retries \in Int => Limit \in Nat
  <1>1. retries \in Int => Clamp(retries) \in Nat
    BY ClampIsNat
  <1> QED
    BY <1>1 DEF Limit

\* The types hold when Execute is called.
LEMMA TypeInit == Init => TypeInv
  <1> SUFFICES ASSUME Init PROVE TypeInv
    OBVIOUS
  <1>1. chain \in Seq(Kinds) /\ retries \in Int
    BY DEF Init
  <1>2. Limit \in Nat
    BY <1>1, LimitType
  <1>3. Len(chain) \in Nat
    BY <1>1
  <1>4. TypeOK
    BY <1>1, <1>2, <1>3 DEF Init, TypeOK, Positions, PCs
  <1>5. SleepsInRetry /\ SelectsInTimeout
    BY DEF Init, SleepsInRetry, SelectsInTimeout
  <1> QED
    BY <1>4, <1>5 DEF TypeInv

\* Every step keeps the types.
LEMMA TypeStep == TypeInv /\ [Next]_vars => TypeInv'
  <1> SUFFICES ASSUME TypeInv, [Next]_vars PROVE TypeInv'
    OBVIOUS
  <1> USE DEF TypeInv, SleepsInRetry, SelectsInTimeout, Born, Positions, given, history
  <1>l. Len(chain) \in Nat
    BY DEF TypeOK
  <1>m. Limit \in Nat /\ (UNCHANGED given => Limit' = Limit)
    BY LimitType DEF Limit, TypeOK
  <1>k. \A p \in Positions : chain[p] \in Kinds
    BY DEF TypeOK
  <1>1. CASE Resolve
    <2>1. CASE pc' = [pc EXCEPT ![Caller] = "call"] /\ UNCHANGED val
      BY <1>1, <2>1, <1>l, <1>m DEF Resolve, TypeOK, PCs
    <2>2. CASE pc' = [pc EXCEPT ![Caller] = "exited"] /\ val' = [val EXCEPT ![Caller] = "unresolved"]
      BY <1>1, <2>2, <1>l, <1>m DEF Resolve, TypeOK, PCs, Errors
    <2> QED
      BY <1>1, <2>1, <2>2 DEF Resolve
  <1>2. CASE ExecuteReturns
    BY <1>2, <1>l, <1>m DEF ExecuteReturns, TypeOK, PCs
  <1>3. CASE CallerCancels
    BY <1>3, <1>l, <1>m DEF CallerCancels, TypeOK, Expired
  <1>4. ASSUME NEW g \in Goroutines, FormatBegins(g) PROVE TypeInv'
    BY <1>4, <1>l, <1>m DEF FormatBegins, TypeOK, PCs
  <1>5. ASSUME NEW g \in Goroutines, FormatReturns(g) PROVE TypeInv'
    BY <1>5, <1>l, <1>m DEF FormatReturns, Returns, TypeOK, PCs, Outcomes, Errors
  <1>6. ASSUME NEW g \in Goroutines, DeadlineFires(g) PROVE TypeInv'
    BY <1>6, <1>l, <1>m, SMTT(30) DEF DeadlineFires, TypeOK, Expired
  <1>7. ASSUME NEW g \in Goroutines, ValidationCalled(g) PROVE TypeInv'
    <2> USE DEF Calling
    <2>1. CASE blank
      <3>1. Returns(g, "rejected") /\ UNCHANGED at
        BY <1>7, <2>1 DEF ValidationCalled
      <3>2. UNCHANGED <<given, history, entry, tries, waits, slot, lineage, done>>
        BY <1>7 DEF ValidationCalled
      <3>3. TypeOK'
        BY <1>7, <3>1, <3>2, <1>l, <1>m DEF Returns, TypeOK, PCs, Errors, ValidationCalled
      <3>4. SleepsInRetry'
        BY <1>7, <3>1, <3>2, <1>l, <1>m DEF Returns, TypeOK, PCs, Errors, ValidationCalled
      <3>5. SelectsInTimeout'
        BY <1>7, <3>1, <3>2, <1>l, <1>m DEF Returns, TypeOK, PCs, Errors, ValidationCalled
      <3> QED
        BY <3>3, <3>4, <3>5
    <2>2. CASE ~blank
      <3>1. CallsInner(g, at[g]) /\ UNCHANGED val
        BY <1>7, <2>2 DEF ValidationCalled
      <3>2. UNCHANGED <<given, history, entry, tries, waits, slot, lineage, done>>
        BY <1>7 DEF ValidationCalled
      <3>3. TypeOK'
        BY <1>7, <3>1, <3>2, <1>l, <1>m, SMTT(30) DEF CallsInner, InnerTo, TypeOK, PCs, ValidationCalled
      <3>4. SleepsInRetry'
        BY <1>7, <3>1, <3>2, <1>l, <1>m DEF CallsInner, InnerTo, TypeOK, PCs, ValidationCalled
      <3>5. SelectsInTimeout'
        BY <1>7, <3>1, <3>2, <1>l, <1>m DEF CallsInner, InnerTo, TypeOK, PCs, ValidationCalled
      <3> QED
        BY <3>3, <3>4, <3>5
    <2> QED
      BY <2>1, <2>2
  <1>8. ASSUME NEW g \in Goroutines, ValidationAnswered(g) PROVE TypeInv'
    <2>1. TypeOK'
      BY <1>8, <1>l, <1>m DEF ValidationAnswered, Answered, Outer, TypeOK, Errors
    <2>2. SleepsInRetry'
      BY <1>8, <1>l, <1>m DEF ValidationAnswered, Answered, Outer, TypeOK, Errors
    <2>3. SelectsInTimeout'
      BY <1>8, <1>l, <1>m DEF ValidationAnswered, Answered, Outer, TypeOK, Errors
    <2> QED
      BY <2>1, <2>2, <2>3
  <1>9. ASSUME NEW g \in Goroutines, RetryCalled(g) PROVE TypeInv'
    <2>1. TypeOK'
      BY <1>9, <1>l, <1>m, SMTT(30) DEF RetryCalled, Calling, CallsInner, InnerTo, TypeOK, PCs
    <2>2. SleepsInRetry'
      BY <1>9, <1>l, <1>m DEF RetryCalled, Calling, CallsInner, InnerTo, TypeOK, PCs
    <2>3. SelectsInTimeout'
      BY <1>9, <1>l, <1>m DEF RetryCalled, Calling, CallsInner, InnerTo, TypeOK, PCs
    <2> QED
      BY <2>1, <2>2, <2>3
  <1>10. ASSUME NEW g \in Goroutines, RetrySucceeds(g) PROVE TypeInv'
    <2>1. TypeOK'
      BY <1>10, <1>l, <1>m DEF RetrySucceeds, Answered, Outer, TypeOK
    <2>2. SleepsInRetry'
      BY <1>10, <1>l, <1>m, SMTT(30) DEF RetrySucceeds, Answered, Outer, TypeOK
    <2>3. SelectsInTimeout'
      BY <1>10, <1>l, <1>m, SMTT(30) DEF RetrySucceeds, Answered, Outer, TypeOK
    <2> QED
      BY <2>1, <2>2, <2>3
  <1>11. ASSUME NEW g \in Goroutines, RetryGivesUp(g) PROVE TypeInv'
    <2>1. TypeOK'
      BY <1>11, <1>l, <1>m DEF RetryGivesUp, Answered, Outer, TypeOK, Errors
    <2>2. SleepsInRetry'
      BY <1>11, <1>l, <1>m DEF RetryGivesUp, Answered, Outer, TypeOK, Errors
    <2>3. SelectsInTimeout'
      BY <1>11, <1>l, <1>m DEF RetryGivesUp, Answered, Outer, TypeOK, Errors
    <2> QED
      BY <2>1, <2>2, <2>3
  <1>12. ASSUME NEW g \in Goroutines, RetryBacksOff(g) PROVE TypeInv'
    <2>1. TypeOK'
      BY <1>12, <1>l, <1>m DEF RetryBacksOff, Answered, Outer, TypeOK, PCs
    <2>2. SleepsInRetry'
      BY <1>12, <1>l, <1>m, SMTT(30) DEF RetryBacksOff, Answered, Outer, TypeOK, PCs
    <2>3. SelectsInTimeout'
      BY <1>12, <1>l, <1>m DEF RetryBacksOff, Answered, Outer, TypeOK, PCs
    <2> QED
      BY <2>1, <2>2, <2>3
  <1>13. ASSUME NEW g \in Goroutines, RetryWakes(g) PROVE TypeInv'
    <2>1. TypeOK'
      BY <1>13, <1>l, <1>m, SMTT(30) DEF RetryWakes, CallsInner, InnerTo, TypeOK, PCs
    <2>2. SleepsInRetry'
      BY <1>13, <1>l, <1>m DEF RetryWakes, CallsInner, InnerTo, TypeOK, PCs
    <2>3. SelectsInTimeout'
      BY <1>13, <1>l, <1>m DEF RetryWakes, CallsInner, InnerTo, TypeOK, PCs
    <2> QED
      BY <2>1, <2>2, <2>3
  <1>14. ASSUME NEW g \in Goroutines, NEW c \in Goroutines, TimeoutCalled(g, c) PROVE TypeInv'
    <2> USE DEF Calling
    <2>0. InnerTo(at[g]) \in 1 .. Len(chain) + 1
      BY <1>14, <1>l, SMTT(30) DEF TimeoutCalled, InnerTo, TypeOK
    <2>1. TypeOK'
      <3>1. UNCHANGED <<given, history, val, tries, slot>>
        BY <1>14 DEF TimeoutCalled
      <3>2. pc' \in [Goroutines -> PCs] /\ waits' \in [Goroutines -> Goroutines \cup {None}]
        BY <1>14 DEF TimeoutCalled, TypeOK, PCs
      <3>3. /\ entry' \in [Goroutines -> 1 .. Len(chain) + 1]
            /\ at' \in [Goroutines -> 1 .. Len(chain) + 1]
        BY <1>14, <2>0 DEF TimeoutCalled, TypeOK
      <3>4. lineage' \in [Goroutines -> SUBSET Goroutines] /\ done' \in [Goroutines -> BOOLEAN]
        BY <1>14 DEF TimeoutCalled, TypeOK
      <3> QED
        BY <3>1, <3>2, <3>3, <3>4, <1>m DEF TypeOK
    <2>2. SleepsInRetry'
      BY <1>14, <1>l, <1>m, SMTT(30) DEF TimeoutCalled, Calling, InnerTo, TypeOK, PCs
    <2>3. SelectsInTimeout'
      BY <1>14, <1>l, <1>m, SMTT(60) DEF TimeoutCalled, Calling, InnerTo, TypeOK, PCs
    <2> QED
      BY <2>1, <2>2, <2>3
  <1>15. ASSUME NEW g \in Goroutines, ChildSends(g) PROVE TypeInv'
    BY <1>15, <1>l, <1>m DEF ChildSends, TypeOK, PCs
  <1>16. ASSUME NEW g \in Goroutines, SelectAnswer(g) PROVE TypeInv'
    BY <1>16, <1>l, <1>m, SMTT(30) DEF SelectAnswer, Returns, Expired, TypeOK, PCs
  <1>17. ASSUME NEW g \in Goroutines, SelectDone(g) PROVE TypeInv'
    BY <1>17, <1>l, <1>m, SMTT(30) DEF SelectDone, Returns, Expired, TypeOK, PCs, Errors
  <1>18. CASE UNCHANGED vars
    BY <1>18, <1>m DEF vars, TypeOK
  <1> QED
    BY <1>1, <1>2, <1>3, <1>4, <1>5, <1>6, <1>7, <1>8, <1>9, <1>10, <1>11, <1>12, <1>13,
       <1>14, <1>15, <1>16, <1>17, <1>18 DEF Next, Step

\* Every variable keeps its type: no middleware runs beyond the chain, and no attempt beyond
\* the clamped limit of RetryMiddleware.
THEOREM TypeCorrect == Spec => []TypeOK
  <1>1. TypeInv => TypeOK
    BY DEF TypeInv
  <1> QED
    BY TypeInit, TypeStep, <1>1, PTL DEF Spec
-----------------------------------------------------------------------------
\* How contexts descend from one another, and why an answered caller leaves no live one
\* behind: every other goroutine's context derives from one that TimeoutMiddleware has
\* ended, or from the one it is going to end because the caller still waits in its select.
Unclosed(a) == pc[Caller] = "select" /\ waits[Caller] = a
LineageInv ==
    /\ pc[Caller] # "unborn"
    /\ \A x \in Goroutines : lineage[x] \subseteq Born
    /\ \A x \in Born : x \in lineage[x]
    /\ \A x \in Goroutines, a \in Goroutines : a \in lineage[x] => lineage[a] \subseteq lineage[x]
    /\ \A x \in Goroutines, a \in Goroutines : a \in lineage[x] /\ done[a] => done[x]
    /\ \A c \in Born \ {Caller} : \E a \in lineage[c] \ {Caller} : done[a] \/ Unclosed(a)

\* The caller's context derives from itself only.
LEMMA LineageInit == Init => LineageInv
  BY DEF Init, LineageInv, Born

\* A step that starts no goroutine, ends no context and leaves the caller's select alone.
LEMMA LineageQuiet ==
    ASSUME LineageInv, Born' = Born, UNCHANGED <<lineage, done, waits>>,
           pc[Caller] = "select" => pc'[Caller] = "select"
    PROVE  LineageInv'
  <1>1. pc'[Caller] # "unborn"
    BY DEF LineageInv, Born
  <1>2. \A c \in Born' \ {Caller} : \E a \in lineage'[c] \ {Caller} : done'[a] \/ Unclosed(a)'
    BY DEF LineageInv, Unclosed
  <1> QED
    BY <1>1, <1>2 DEF LineageInv

\* The context of goroutine e ends; the caller may leave the select in which it waited for e.
LEMMA LineageExpires ==
    ASSUME TypeOK, LineageInv, NEW e \in Born, done' = Expired(e),
           Born' = Born, UNCHANGED lineage,
           \A a \in Goroutines : Unclosed(a) => (a = e \/ Unclosed(a)')
    PROVE  LineageInv'
  <1> USE DEF Expired, Born, TypeOK
  <1>1. pc'[Caller] # "unborn"
    BY DEF LineageInv
  <1>2. \A x \in Goroutines, a \in Goroutines : a \in lineage'[x] /\ done'[a] => done'[x]
    BY DEF LineageInv
  <1>3. ASSUME NEW c \in Born' \ {Caller}
        PROVE  \E a \in lineage'[c] \ {Caller} : done'[a] \/ Unclosed(a)'
    <2>1. PICK a \in lineage[c] \ {Caller} : done[a] \/ Unclosed(a)
      BY DEF LineageInv
    <2>2. a \in Goroutines /\ e \in Goroutines /\ e \in lineage[e]
      BY <2>1 DEF LineageInv
    <2>3. done'[a] \/ Unclosed(a)'
      BY <2>1, <2>2
    <2> QED
      BY <2>1, <2>3
  <1> QED
    BY <1>1, <1>2, <1>3 DEF LineageInv

\* TimeoutMiddleware starts goroutine c on a context derived from the one of g.
LEMMA LineageGrows ==
    ASSUME TypeOK, LineageInv, NEW g \in Goroutines, NEW c \in Goroutines, TimeoutCalled(g, c)
    PROVE  LineageInv'
  <1> USE DEF Born, TypeOK
  <1>1. /\ pc[g] = "call" /\ pc[c] = "unborn" /\ g # c
        /\ pc' = [pc EXCEPT ![g] = "select", ![c] = "call"]
        /\ waits' = [waits EXCEPT ![g] = c]
        /\ lineage' = [lineage EXCEPT ![c] = lineage[g] \cup {c}]
        /\ done' = [done EXCEPT ![c] = done[g]]
    BY DEF TimeoutCalled, Calling
  <1>2. Born' = Born \cup {c} /\ c \notin Born /\ g \in Born
    BY <1>1
  <1>3. \A x \in Goroutines : c \notin lineage[x]
    BY <1>2 DEF LineageInv
  <1>4. /\ pc'[Caller] # "unborn"
        /\ \A x \in Goroutines : lineage'[x] \subseteq Born'
        /\ \A x \in Born' : x \in lineage'[x]
    BY <1>1, <1>2 DEF LineageInv
  <1>5. \A x \in Goroutines, a \in Goroutines :
            a \in lineage'[x] => lineage'[a] \subseteq lineage'[x]
    <2> SUFFICES ASSUME NEW x \in Goroutines, NEW a \in Goroutines, a \in lineage'[x], a # x
                 PROVE  lineage'[a] \subseteq lineage'[x]
      OBVIOUS
    <2>1. CASE x = c
      BY <1>1, <1>3, <2>1 DEF LineageInv
    <2>2. CASE x # c
      BY <1>1, <1>3, <2>2 DEF LineageInv
    <2> QED
      BY <2>1, <2>2
  <1>6. \A x \in Goroutines, a \in Goroutines : a \in lineage'[x] /\ done'[a] => done'[x]
    BY <1>1, <1>3 DEF LineageInv
  <1>7. ASSUME NEW d \in Born' \ {Caller}
        PROVE  \E a \in lineage'[d] \ {Caller} : done'[a] \/ Unclosed(a)'
    <2>1. c # Caller
      BY <1>1 DEF LineageInv
    <2>2. CASE g = Caller /\ d = c
      <3>1. c \in lineage'[c] /\ Unclosed(c)'
        BY <1>1, <2>2 DEF Unclosed
      <3> QED
        BY <3>1, <2>1, <2>2
    <2>3. CASE ~(g = Caller /\ d = c)
      <3> DEFINE b == IF d = c THEN g ELSE d
      <3>1. b \in Born \ {Caller}
        BY <1>2, <2>3
      <3>2. PICK a \in lineage[b] \ {Caller} : done[a] \/ Unclosed(a)
        BY <3>1 DEF LineageInv
      <3>3. b \in Goroutines /\ lineage[b] \subseteq Goroutines
        BY <3>1
      <3>4. lineage[b] \subseteq lineage'[d]
        <4>1. CASE d = c
          BY <1>1, <4>1
        <4>2. CASE d # c
          BY <1>1, <4>2, <3>3
        <4> QED
          BY <4>1, <4>2
      <3>5. a # c /\ a \in Goroutines /\ a \in lineage'[d]
        BY <1>3, <3>2, <3>3, <3>4
      <3>6. done'[a] \/ Unclosed(a)'
        BY <1>1, <2>1, <3>2, <3>5 DEF Unclosed
      <3> QED
        BY <3>2, <3>5, <3>6
    <2> QED
      BY <2>2, <2>3
  <1> QED
    BY <1>4, <1>5, <1>6, <1>7 DEF LineageInv

\* Every step keeps the ancestry of the contexts.
LEMMA LineageStep == TypeInv /\ LineageInv /\ [Next]_vars => LineageInv'
  <1> SUFFICES ASSUME TypeInv, LineageInv, [Next]_vars PROVE LineageInv'
    OBVIOUS
  <1>t. TypeOK
    BY DEF TypeInv
  <1> DEFINE Quiet == /\ Born' = Born /\ UNCHANGED <<lineage, done, waits>>
                      /\ pc[Caller] = "select" => pc'[Caller] = "select"
  <1>q. Quiet => LineageInv'
    BY LineageQuiet
  <1>1. CASE Resolve \/ ExecuteReturns \/ UNCHANGED vars
    <2>1. Quiet
      BY <1>1, <1>t DEF Resolve, ExecuteReturns, vars, TypeOK, Born
    <2> QED
      BY <2>1, <1>q
  <1>2. ASSUME NEW g \in Goroutines,
               \/ FormatBegins(g) \/ FormatReturns(g) \/ ValidationCalled(g)
               \/ ValidationAnswered(g) \/ ChildSends(g)
        PROVE  LineageInv'
    <2>1. Quiet
      BY <1>2, <1>t DEF FormatBegins, FormatReturns, ValidationCalled, Calling, Returns,
         CallsInner, ValidationAnswered, ChildSends, TypeOK, Born
    <2> QED
      BY <2>1, <1>q
  <1>3. ASSUME NEW g \in Goroutines,
               \/ RetryCalled(g) \/ RetrySucceeds(g) \/ RetryGivesUp(g)
               \/ RetryBacksOff(g) \/ RetryWakes(g)
        PROVE  LineageInv'
    <2>1. Quiet
      BY <1>3, <1>t DEF RetryCalled, RetrySucceeds, RetryGivesUp, RetryBacksOff, RetryWakes,
         Calling, Answered, CallsInner, TypeOK, Born
    <2> QED
      BY <2>1, <1>q
  <1>4. ASSUME NEW g \in Goroutines, NEW c \in Goroutines, TimeoutCalled(g, c) PROVE LineageInv'
    BY <1>4, <1>t, LineageGrows
  <1>5. ASSUME NEW g \in Goroutines, SelectAnswer(g) \/ SelectDone(g) PROVE LineageInv'
    <2>1. waits[g] \in Born /\ done' = Expired(waits[g]) /\ UNCHANGED lineage
      BY <1>5 DEF SelectAnswer, SelectDone, TypeInv, SelectsInTimeout
    <2>2. Born' = Born
      BY <1>5, <1>t DEF SelectAnswer, SelectDone, Returns, TypeOK, Born
    <2>3. \A a \in Goroutines : Unclosed(a) => (a = waits[g] \/ Unclosed(a)')
      BY <1>5, <1>t DEF SelectAnswer, SelectDone, Returns, TypeOK, Unclosed
    <2> QED
      BY <1>t, <2>1, <2>2, <2>3, LineageExpires
  <1>6. ASSUME NEW c \in Goroutines, DeadlineFires(c) PROVE LineageInv'
    <2>1. c \in Born /\ Born' = Born
      BY <1>6 DEF DeadlineFires, Born
    <2> QED
      BY <1>6, <1>t, <2>1, LineageExpires DEF DeadlineFires, Unclosed
  <1>7. CASE CallerCancels
    <2>1. Caller \in Born /\ Born' = Born
      BY <1>7 DEF CallerCancels, Born, LineageInv
    <2> QED
      BY <1>7, <1>t, <2>1, LineageExpires DEF CallerCancels, Unclosed
  <1> QED
    BY <1>1, <1>2, <1>3, <1>4, <1>5, <1>6, <1>7 DEF Next, Step

\* Once Execute has answered, every goroutine it left behind is on a cancelled context,
\* however the timeouts are nested and whichever of them gave up first.
THEOREM AnsweredMeansCancelledCorrect == Spec => []AnsweredMeansCancelled
  <1>1. TypeInv /\ LineageInv => AnsweredMeansCancelled
    BY DEF LineageInv, AnsweredMeansCancelled, Unclosed, Born
  <1> QED
    BY TypeInit, TypeStep, LineageInit, LineageStep, <1>1, PTL DEF Spec
-----------------------------------------------------------------------------
\* How far an empty success can travel, and how far a request without content: the one has
\* no ValidationMiddleware inside it when it is returned or waits in a child's channel, the
\* other always has one ahead of it.
NoneFrom(p) == \A q \in Positions : q >= p => chain[q] # "validation"
EmptyReturned ==
    \A g \in Goroutines : pc[g] = "return" /\ val[g] = "empty" => NoneFrom(at[g])
EmptySent ==
    \A c \in Goroutines : slot[c] = "empty" => c \in Born /\ NoneFrom(entry[c])
EmptyAnswered == pc[Caller] = "exited" /\ val[Caller] = "empty" => NoneFrom(1)
EmptyInv ==
    /\ \A g \in Goroutines : pc[g] = "format" => at[g] = Len(chain) + 1
    /\ EmptyReturned /\ EmptySent /\ EmptyAnswered
BlankInv ==
    blank /\ Has("validation") =>
        begun = 0 /\ \A g \in Goroutines : \E q \in Positions : q >= at[g] /\ chain[q] = "validation"

\* Nothing is returned yet, and every validation is still ahead of the request.
LEMMA ValidationInit == Init => EmptyInv /\ BlankInv
  <1> SUFFICES ASSUME Init PROVE EmptyInv /\ BlankInv
    OBVIOUS
  <1>1. Len(chain) \in Nat
    BY DEF Init
  <1>2. None # "empty"
    BY DEF Results
  <1>3. EmptyInv
    BY <1>2 DEF Init, EmptyInv, EmptyReturned, EmptySent, EmptyAnswered
  <1>4. BlankInv
    BY <1>1 DEF Init, BlankInv, Has, Positions
  <1> QED
    BY <1>3, <1>4

\* No step brings an empty success past a validation.
LEMMA EmptyStep == TypeInv /\ EmptyInv /\ [Next]_vars => EmptyInv'
  <1> SUFFICES ASSUME TypeInv, EmptyInv, [Next]_vars PROVE EmptyInv'
    OBVIOUS
  <1> USE DEF EmptyInv, EmptyReturned, EmptySent, EmptyAnswered, NoneFrom, Born, Positions,
              given, history, TypeInv, TypeOK
  <1>l. Len(chain) \in Nat
    OBVIOUS
  <1>1. CASE Resolve
    <2>1. CASE pc' = [pc EXCEPT ![Caller] = "call"] /\ UNCHANGED val
      BY <1>1, <2>1, <1>l DEF Resolve
    <2>2. CASE pc' = [pc EXCEPT ![Caller] = "exited"] /\ val' = [val EXCEPT ![Caller] = "unresolved"]
      BY <1>1, <2>2, <1>l DEF Resolve
    <2> QED
      BY <1>1, <2>1, <2>2 DEF Resolve
  <1>2. CASE ExecuteReturns
    BY <1>2, <1>l DEF ExecuteReturns
  <1>3. CASE CallerCancels \/ UNCHANGED vars
    BY <1>3, <1>l DEF CallerCancels, vars
  <1>4. ASSUME NEW g \in Goroutines, FormatBegins(g) \/ FormatReturns(g) \/ DeadlineFires(g)
        PROVE  EmptyInv'
    <2>1. CASE FormatBegins(g)
      BY <2>1, <1>l DEF FormatBegins
    <2>2. CASE FormatReturns(g)
      <3>1. PICK v \in Outcomes : Returns(g, v)
        BY <2>2 DEF FormatReturns
      <3>2. at[g] = Len(chain) + 1 /\ NoneFrom(at[g])
        BY <2>2, <1>l DEF FormatReturns
      <3> QED
        BY <2>2, <3>1, <3>2, <1>l DEF FormatReturns, Returns
    <2>3. CASE DeadlineFires(g)
      BY <2>3, <1>l DEF DeadlineFires
    <2> QED
      BY <1>4, <2>1, <2>2, <2>3
  <1>5. ASSUME NEW g \in Goroutines, ValidationCalled(g) PROVE EmptyInv'
    <2>1. CASE Returns(g, "rejected") /\ UNCHANGED at
      BY <1>5, <2>1, <1>l DEF ValidationCalled, Calling, Returns
    <2>2. CASE CallsInner(g, at[g]) /\ UNCHANGED val
      BY <1>5, <2>2, <1>l DEF ValidationCalled, Calling, CallsInner
    <2> QED
      BY <1>5, <2>1, <2>2 DEF ValidationCalled
  <1>6. ASSUME NEW g \in Goroutines, ValidationAnswered(g) PROVE EmptyInv'
    BY <1>6, <1>l DEF ValidationAnswered, Answered, Outer
  <1>7. ASSUME NEW g \in Goroutines, RetryCalled(g) \/ RetryWakes(g) PROVE EmptyInv'
    BY <1>7, <1>l, ZenonT(40) DEF RetryCalled, RetryWakes, Calling, CallsInner
  <1>8. ASSUME NEW g \in Goroutines, RetrySucceeds(g) PROVE EmptyInv'
    BY <1>8, <1>l, SMTT(30) DEF RetrySucceeds, Answered, Outer
  <1>9. ASSUME NEW g \in Goroutines, RetryGivesUp(g) \/ RetryBacksOff(g) PROVE EmptyInv'
    BY <1>9, <1>l, ZenonT(40) DEF RetryGivesUp, RetryBacksOff, Answered, Outer
  <1>10. ASSUME NEW g \in Goroutines, NEW c \in Goroutines, TimeoutCalled(g, c) PROVE EmptyInv'
    BY <1>10, <1>l, ZenonT(40) DEF TimeoutCalled, Calling
  <1>11. ASSUME NEW g \in Goroutines, ChildSends(g) PROVE EmptyInv'
    BY <1>11, <1>l DEF ChildSends
  <1>12. ASSUME NEW g \in Goroutines, SelectAnswer(g) PROVE EmptyInv'
    <2>1. /\ at[g] \in Positions /\ chain[at[g]] = "timeout"
          /\ waits[g] \in Goroutines /\ entry[waits[g]] = at[g] + 1
      BY <1>12 DEF SelectAnswer, SelectsInTimeout
    <2>2. slot[waits[g]] = "empty" => NoneFrom(at[g])
      BY <2>1, <1>l
    <2> QED
      BY <1>12, <2>1, <2>2, <1>l, SMTT(30) DEF SelectAnswer, Returns
  <1>13. ASSUME NEW g \in Goroutines, SelectDone(g) PROVE EmptyInv'
    BY <1>13, <1>l DEF SelectDone, Returns
  <1> QED
    BY <1>1, <1>2, <1>3, <1>4, <1>5, <1>6, <1>7, <1>8, <1>9, <1>10, <1>11, <1>12, <1>13
       DEF Next, Step

\* No step brings a request without content past a validation.
LEMMA BlankStep == TypeInv /\ EmptyInv /\ BlankInv /\ [Next]_vars => BlankInv'
  <1> SUFFICES ASSUME TypeInv, EmptyInv, BlankInv, [Next]_vars, blank', Has("validation")'
               PROVE  BlankInv'
    BY DEF BlankInv
  <1> USE DEF EmptyInv, Positions, given, history, TypeInv, TypeOK
  <1>l. Len(chain) \in Nat
    OBVIOUS
  <1>g. UNCHANGED given
    BY ZenonT(40) DEF Next, Step, Resolve, ExecuteReturns, CallerCancels, FormatBegins, FormatReturns,
       DeadlineFires, ValidationCalled, ValidationAnswered, RetryCalled, RetrySucceeds,
       RetryGivesUp, RetryBacksOff, RetryWakes, TimeoutCalled, ChildSends, SelectAnswer,
       SelectDone, vars
  <1>b. /\ begun = 0
        /\ \A g \in Goroutines : \E q \in Positions : q >= at[g] /\ chain[q] = "validation"
    BY <1>g DEF BlankInv, Has
  <1>s. ASSUME begun' = begun, UNCHANGED at PROVE BlankInv'
    BY <1>g, <1>b, <1>s DEF BlankInv
  <1>o. ASSUME NEW g \in Goroutines, at[g] - 1 \in Int, begun' = begun,
               at' = [at EXCEPT ![g] = at[g] - 1]
        PROVE  BlankInv'
    BY <1>g, <1>b, <1>o, <1>l DEF BlankInv
  <1>i. ASSUME NEW g \in Goroutines, NEW c \in Goroutines, begun' = begun,
               at[g] \in Positions, chain[at[g]] # "validation",
               at' = [at EXCEPT ![c] = at[g] + 1]
        PROVE  BlankInv'
    <2>1. \E q \in Positions : q >= at[g] + 1 /\ chain[q] = "validation"
      BY <1>b, <1>i, <1>l, SMTT(30)
    <2> QED
      BY <1>g, <1>b, <1>i, <2>1, <1>l DEF BlankInv
  <1>1. CASE Resolve \/ ExecuteReturns \/ CallerCancels \/ UNCHANGED vars
    BY <1>1, <1>s DEF Resolve, ExecuteReturns, CallerCancels, vars
  <1>2. ASSUME NEW g \in Goroutines,
               \/ FormatReturns(g) \/ DeadlineFires(g) \/ ChildSends(g)
               \/ SelectAnswer(g) \/ SelectDone(g)
        PROVE  BlankInv'
    BY <1>2, <1>s DEF FormatReturns, DeadlineFires, ChildSends, SelectAnswer, SelectDone
  <1>3. ASSUME NEW g \in Goroutines PROVE ~FormatBegins(g)
    <2>1. at[g] # Len(chain) + 1
      BY <1>b, <1>l
    <2> QED
      BY <2>1 DEF FormatBegins
  <1>4. ASSUME NEW g \in Goroutines, ValidationCalled(g) PROVE BlankInv'
    BY <1>4, <1>g, <1>s DEF ValidationCalled
  <1>5. ASSUME NEW g \in Goroutines,
               \/ ValidationAnswered(g) \/ RetrySucceeds(g) \/ RetryGivesUp(g) \/ RetryBacksOff(g)
        PROVE  BlankInv'
    <2>1. at' = [at EXCEPT ![g] = at[g] - 1] /\ begun' = begun
      BY <1>5 DEF ValidationAnswered, RetrySucceeds, RetryGivesUp, RetryBacksOff, Outer
    <2>2. at[g] - 1 \in Int
      BY <1>l
    <2> QED
      BY <2>1, <2>2, <1>o
  <1>6. ASSUME NEW g \in Goroutines, RetryCalled(g) \/ RetryWakes(g) PROVE BlankInv'
    <2>1. /\ at[g] \in Positions /\ chain[at[g]] = "retry" /\ begun' = begun
          /\ at' = [at EXCEPT ![g] = at[g] + 1]
      BY <1>6 DEF RetryCalled, RetryWakes, Calling, CallsInner, InnerTo, SleepsInRetry
    <2> QED
      BY <2>1, <1>i
  <1>7. ASSUME NEW g \in Goroutines, NEW c \in Goroutines, TimeoutCalled(g, c) PROVE BlankInv'
    <2>1. /\ at[g] \in Positions /\ chain[at[g]] = "timeout" /\ begun' = begun
          /\ at' = [at EXCEPT ![c] = at[g] + 1]
      BY <1>7 DEF TimeoutCalled, Calling, InnerTo
    <2> QED
      BY <2>1, <1>i
  <1> QED
    BY <1>1, <1>2, <1>3, <1>4, <1>5, <1>6, <1>7 DEF Next, Step

\* Wherever ValidationMiddleware stands in the chain and whatever stands around it, Execute
\* answers no empty success and hands no request without content to a formatter.
THEOREM ValidatedCorrect == Spec => []Validated
  <1>1. TypeInv /\ EmptyInv /\ BlankInv => Validated
    BY DEF EmptyInv, EmptyAnswered, NoneFrom, BlankInv, Validated, Has, Positions, TypeInv, TypeOK
  <1> QED
    BY TypeInit, TypeStep, ValidationInit, EmptyStep, BlankStep, <1>1, PTL DEF Spec
-----------------------------------------------------------------------------
(* How many Format calls are made.  Each is made at one attempt of every   *)
(* RetryMiddleware in the chain, on a path; no two calls take the same.    *)

Paths == [Retries -> 0 .. Limit]
Formatting == {g \in Goroutines : pc[g] = "format"}

\* g runs the loop of the retry at q, and is inside its next or sleeps before the next attempt.
Inside(g, q) == entry[g] <= q /\ (q < at[g] \/ (q = at[g] /\ pc[g] = "sleep"))

\* The attempt of the retry at q that g is at: its own, or the one g was started in.
Where(inh, g, q) == IF q < entry[g] THEN inh[g][q] ELSE tries[g][q]
Upto(inh, g, h, p) == \A q \in Retries : q < p => h[q] = Where(inh, g, q)

\* g may still call Format on path h: it is on its way inwards, or a loop of its goes on.
Inwards(g) == pc[g] \in {"resolve", "call"}
MayTake(inh, g, h) ==
    \/ Inwards(g) /\ Upto(inh, g, h, at[g])
    \/ \E q \in Retries : Inside(g, q) /\ h[q] > tries[g][q] /\ Upto(inh, g, h, q)

\* No path is taken twice, nor open to two goroutines; inh is where each was started.
Apart(inh, taken) ==
    /\ IsFiniteSet(taken) /\ Cardinality(taken) = begun
    /\ \A g \in Goroutines, h \in Paths : MayTake(inh, g, h) => h \notin taken
    /\ \A g, k \in Goroutines, h \in Paths : MayTake(inh, g, h) /\ MayTake(inh, k, h) => g = k
PathsInv ==
    /\ IsFiniteSet(Formatting)
    /\ \A g \in Goroutines : pc[g] = "sleep" => entry[g] <= at[g]
    /\ \E inh \in [Goroutines -> Paths], taken \in SUBSET Paths : Apart(inh, taken)

\* Without a timeout per attempt one goroutine makes all calls, and none after one that began
\* on a context that was done.
Lively(g) == Inwards(g) \/ \E q \in Retries : Inside(g, q)
LateInv ==
    ~TimeoutPerAttempt =>
        /\ late <= 1
        /\ \A g, k \in Goroutines : Lively(g) /\ Lively(k) => g = k
        /\ late = 1 => \A g \in Goroutines :
                          Lively(g) => done[g] /\ ~Inwards(g) /\ pc[g] # "sleep"

\* Every attempt of a loop on a live context has come to a Format call, or is going to.
MadeInv ==
    ~TimeoutPerAttempt /\ ~blank =>
        \A g \in Goroutines, p \in Retries : Inside(g, p) /\ ~done[g] =>
            /\ Inwards(g) => begun >= tries[g][p]
            /\ pc[g] \in {"format", "return", "sleep"} => begun > tries[g][p]
-----------------------------------------------------------------------------
\* No step changes what Execute was called with, nor what follows from it alone.
LEMMA GivenStays ==
    ASSUME [Next]_vars
    PROVE  /\ UNCHANGED given /\ Retries' = Retries /\ Limit' = Limit /\ Paths' = Paths
           /\ Attempts' = Attempts /\ TimeoutPerAttempt' = TimeoutPerAttempt
  <1>1. UNCHANGED given
    BY DEF Next, Step, Resolve, ExecuteReturns, CallerCancels, FormatBegins, FormatReturns,
       DeadlineFires, ValidationCalled, ValidationAnswered, RetryCalled, RetrySucceeds,
       RetryGivesUp, RetryBacksOff, RetryWakes, TimeoutCalled, ChildSends, SelectAnswer,
       SelectDone, vars, given
  <1>2. /\ Retries' = Retries /\ Limit' = Limit
        /\ TimeoutPerAttempt' = TimeoutPerAttempt
    BY <1>1 DEF given, Retries, Positions, Limit, TimeoutPerAttempt
  <1> QED
    BY <1>1, <1>2 DEF Attempts, Paths

\* What places and counters range over.
LEMMA Ranges ==
    ASSUME TypeOK
    PROVE  /\ Len(chain) \in Nat /\ Limit \in Nat /\ Retries \subseteq Nat \ {0}
           /\ \A p \in Retries : p <= Len(chain) /\ p \in Positions
           /\ \A g \in Goroutines : at[g] \in Nat /\ entry[g] \in Nat
           /\ \A g \in Goroutines, p \in Retries : tries[g][p] \in 0 .. Limit
           /\ begun \in Nat /\ late \in Nat /\ late <= begun
  <1>1. Len(chain) \in Nat /\ Limit \in Nat
    BY LimitType DEF TypeOK
  <1> DEFINE n == Len(chain)
  <1>2. /\ Retries \subseteq 1 .. n
        /\ at \in [Goroutines -> 1 .. n + 1] /\ entry \in [Goroutines -> 1 .. n + 1]
        /\ tries \in [Goroutines -> [1 .. n -> 0 .. Limit]]
        /\ begun \in Nat /\ late \in 0 .. begun
    BY DEF TypeOK, Retries, Positions
  <1> HIDE DEF n
  <1>3. n \in Nat /\ Positions = 1 .. n /\ n = Len(chain)
    BY <1>1 DEF n, Positions
  <1>4. ASSUME NEW g \in Goroutines, NEW p \in Retries PROVE tries[g][p] \in 0 .. Limit
    <2>1. p \in 1 .. n /\ tries[g] \in [1 .. n -> 0 .. Limit]
      BY <1>2
    <2> QED
      BY <2>1
  <1>5. /\ Retries \subseteq Nat \ {0} /\ \A p \in Retries : p <= n /\ p \in Positions
        /\ \A g \in Goroutines : at[g] \in Nat /\ entry[g] \in Nat
        /\ begun \in Nat /\ late \in Nat /\ late <= begun
    BY <1>2, <1>3
  <1> QED
    BY <1>1, <1>3, <1>4, <1>5

\* There are finitely many paths.
LEMMA PathsFinite == TypeOK => IsFiniteSet(Paths)
  <1> SUFFICES ASSUME TypeOK PROVE IsFiniteSet(Paths)
    OBVIOUS
  <1> DEFINE attempts == 0 .. Limit
             Places == Retries \X attempts
             graph == [h \in Paths |-> {w \in Places : w[2] = h[w[1]]}]
  <1>1. IsFiniteSet(Retries) /\ IsFiniteSet(attempts)
    <2>1. Limit \in Int /\ Len(chain) \in Int /\ Retries \in SUBSET (1 .. Len(chain))
      BY Ranges DEF Retries, Positions
    <2>2. IsFiniteSet(1 .. Len(chain)) /\ IsFiniteSet(0 .. Limit)
      BY <2>1, FS_Interval
    <2> QED
      BY <2>1, <2>2, FS_Subset
  <1>2. IsFiniteSet(SUBSET Places)
    BY <1>1, FS_Product, FS_SUBSET
  <1>3. graph \in [Paths -> SUBSET Places]
    OBVIOUS
  <1>4. ASSUME NEW h \in Paths, NEW k \in Paths, graph[h] = graph[k] PROVE h = k
    <2>1. h \in [Retries -> attempts] /\ k \in [Retries -> attempts]
      BY DEF Paths
    <2>2. ASSUME NEW q \in Retries PROVE h[q] = k[q]
      <3>1. <<q, h[q]>> \in graph[h]
        BY <2>1
      <3>2. <<q, h[q]>> \in graph[k]
        BY <1>4, <3>1
      <3> QED
        BY <3>2
    <2> QED
      BY <2>1, <2>2
  <1>5. graph \in Injection(Paths, SUBSET Places)
    <2> HIDE DEF graph, Places
    <2> QED
      BY <1>3, <1>4 DEF Injection, IsInjective
  <1> HIDE DEF graph, Places
  <1> QED
    BY <1>2, <1>5, FS_Injection

\* Goroutine g takes a step that opens no path: it goes on inwards past no retry, or it returns.
Shrinks(g) ==
    /\ \A k \in Goroutines : k # g => pc'[k] = pc[k] /\ at'[k] = at[k]
    /\ UNCHANGED <<entry, tries>> /\ \A k \in Goroutines : done[k] => done'[k]
    /\ \A q \in Retries : Inside(g, q)' => Inside(g, q)
    /\ Inwards(g)' => Inwards(g) /\ \A q \in Retries : q < at[g] => q < at'[g]
    /\ pc'[g] = "sleep" => entry[g] <= at'[g] /\ ~done[g]

\* Such are all steps of a goroutine but three.
LEMMA MostShrink ==
    ASSUME TypeInv, NEW g \in Goroutines,
           \/ g = Caller /\ (Resolve \/ ExecuteReturns)
           \/ FormatBegins(g) \/ FormatReturns(g)
           \/ ValidationCalled(g) \/ ValidationAnswered(g)
           \/ RetrySucceeds(g) \/ RetryGivesUp(g) \/ RetryBacksOff(g)
           \/ ChildSends(g) \/ SelectAnswer(g) \/ SelectDone(g)
    PROVE  Shrinks(g)
  <1> USE DEF history, given, Inwards, Inside
  <1>t. /\ TypeOK /\ pc \in [Goroutines -> PCs] /\ at \in [Goroutines -> 1 .. Len(chain) + 1]
        /\ done \in [Goroutines -> BOOLEAN]
    BY DEF TypeInv, TypeOK
  <1>n. /\ \A k \in Goroutines : at[k] \in Nat /\ entry[k] \in Nat
        /\ Retries \subseteq Nat
    BY <1>t, Ranges
  <1>c. ASSUME UNCHANGED <<chain, at, entry, tries>>, \A k \in Goroutines : done[k] => done'[k],
               NEW to \in PCs \ {"resolve", "sleep"}, pc' = [pc EXCEPT ![g] = to],
               to = "call" => Inwards(g)
        PROVE  Shrinks(g)
    <2>1. \A k \in Goroutines : pc'[k] = IF k = g THEN to ELSE pc[k]
      BY <1>t, <1>c
    <2> QED
      BY <1>c, <1>n, <2>1 DEF Shrinks
  <1>o. ASSUME UNCHANGED <<chain, entry, tries, done>>, NEW to \in {"return", "sleep"},
               pc' = [pc EXCEPT ![g] = to], at' = [at EXCEPT ![g] = at[g] - 1],
               entry[g] <= at[g] - 1, to = "sleep" => ~done[g]
        PROVE  Shrinks(g)
    <2>1. \A k \in Goroutines : /\ pc'[k] = IF k = g THEN to ELSE pc[k]
                                /\ at'[k] = IF k = g THEN at[g] - 1 ELSE at[k]
      BY <1>t, <1>o
    <2> QED
      BY <1>o, <1>n, <2>1 DEF Shrinks
  <1>1. CASE g = Caller /\ Resolve
    BY <1>1, <1>c DEF Resolve, PCs
  <1>2. CASE (g = Caller /\ ExecuteReturns) \/ ChildSends(g) \/ FormatBegins(g)
    BY <1>2, <1>c DEF ExecuteReturns, ChildSends, FormatBegins, PCs
  <1>3. CASE FormatReturns(g)
    BY <1>3, <1>c DEF FormatReturns, Returns, PCs
  <1>4. CASE ValidationCalled(g)
    <2>1. CASE Returns(g, "rejected") /\ UNCHANGED at
      BY <1>4, <1>c, <2>1 DEF ValidationCalled, Returns, PCs
    <2>2. CASE CallsInner(g, at[g])
      <3>1. \A k \in Goroutines : /\ pc'[k] = pc[k] /\ at'[k] = IF k = g THEN at[g] + 1 ELSE at[k]
                                  /\ done'[k] = done[k]
        BY <1>4, <1>t, <2>2 DEF ValidationCalled, Calling, CallsInner, InnerTo
      <3>2. /\ pc[g] = "call" /\ at[g] \in Positions /\ chain[at[g]] = "validation"
            /\ UNCHANGED <<entry, tries, chain>>
        BY <1>4 DEF ValidationCalled, Calling
      <3>3. at[g] \notin Retries
        BY <3>2 DEF Retries
      <3> QED
        BY <1>n, <3>1, <3>2, <3>3 DEF Shrinks
    <2> QED
      BY <1>4, <2>1, <2>2 DEF ValidationCalled
  <1>5. CASE ValidationAnswered(g) \/ RetrySucceeds(g) \/ RetryGivesUp(g) \/ RetryBacksOff(g)
    <2>1. /\ UNCHANGED <<chain, entry, tries, done>> /\ at' = [at EXCEPT ![g] = at[g] - 1]
          /\ entry[g] <= at[g] - 1 /\ pc[g] = "return"
          /\ \/ pc' = pc
             \/ pc' = [pc EXCEPT ![g] = "sleep"] /\ ~done[g]
      BY <1>5, <1>n DEF ValidationAnswered, RetrySucceeds, RetryGivesUp, RetryBacksOff, Answered, Outer
    <2>2. pc' = pc => pc' = [pc EXCEPT ![g] = "return"]
      BY <1>t, <2>1
    <2> QED
      BY <1>o, <2>1, <2>2
  <1>6. CASE SelectAnswer(g) \/ SelectDone(g)
    BY <1>6, <1>c, <1>t DEF SelectAnswer, SelectDone, Returns, Expired, PCs
  <1> QED
    BY <1>1, <1>2, <1>3, <1>4, <1>5, <1>6

\* Then no path is open that was not.
LEMMA ShrinksPaths ==
    ASSUME NEW g \in Goroutines, Shrinks(g), Retries' = Retries,
           NEW inh, NEW k \in Goroutines, NEW h, MayTake(inh, k, h)'
    PROVE  MayTake(inh, k, h)
  <1>1. /\ entry' = entry /\ tries' = tries
        /\ \A q \in Retries : Inside(k, q)' => Inside(k, q)
        /\ Inwards(k)' => Inwards(k) /\ \A q \in Retries : q < at[k] => q < at'[k]
    BY DEF Shrinks, Inside, Inwards
  <1>2. \A p : Upto(inh, k, h, p)' <=> Upto(inh, k, h, p)
    BY <1>1 DEF Upto, Where
  <1>3. Inwards(k)' /\ Upto(inh, k, h, at[k])' => Inwards(k) /\ Upto(inh, k, h, at[k])
    BY <1>1 DEF Upto, Where
  <1> QED
    BY <1>1, <1>2, <1>3 DEF MayTake

\* A step that begins no Format call and opens no path to a goroutine leaves the paths apart.
LEMMA PathsNarrow ==
    ASSUME PathsInv, [Next]_vars, begun' = begun, IsFiniteSet(Formatting'),
           \A k \in Goroutines : pc'[k] = "sleep" => entry'[k] <= at'[k],
           \A inh \in [Goroutines -> Paths], k \in Goroutines, h \in Paths :
               MayTake(inh, k, h)' => MayTake(inh, k, h)
    PROVE  PathsInv'
  <1>1. PICK inh \in [Goroutines -> Paths], taken \in SUBSET Paths : Apart(inh, taken)
    BY DEF PathsInv
  <1>2. Paths' = Paths
    BY GivenStays
  <1>3. Apart(inh, taken)'
    BY <1>1, <1>2 DEF Apart
  <1> QED
    BY <1>1, <1>2, <1>3 DEF PathsInv

\* When Execute is called every path is open, to the caller only.
LEMMA CallsInit == Init => PathsInv /\ LateInv /\ MadeInv
  <1> SUFFICES ASSUME Init PROVE PathsInv /\ LateInv /\ MadeInv
    OBVIOUS
  <1>1. /\ begun = 0 /\ late = 0 /\ TypeOK
        /\ \A g \in Goroutines : pc[g] = IF g = Caller THEN "resolve" ELSE "unborn"
        /\ \A g \in Goroutines : at[g] = 1 /\ entry[g] = 1
    BY TypeInit DEF Init, TypeInv
  <1>2. Retries \subseteq Nat \ {0} /\ Limit \in Nat
    BY <1>1, Ranges
  <1>3. \A g \in Goroutines : (Inwards(g) => g = Caller) /\ \A q \in Retries : ~Inside(g, q)
    BY <1>1, <1>2 DEF Inwards, Inside
  <1>4. IsFiniteSet(Formatting)
    <2>1. Formatting = {}
      BY <1>1 DEF Formatting
    <2> QED
      BY <2>1, FS_EmptySet
  <1>5. PathsInv
    <2> DEFINE inh == [g \in Goroutines |-> [q \in Retries |-> 0]]
    <2>1. inh \in [Goroutines -> Paths]
      BY <1>2 DEF Paths
    <2> HIDE DEF inh
    <2>2. Apart(inh, {})
      BY <1>1, <1>3, FS_EmptySet DEF Apart, MayTake
    <2>3. {} \in SUBSET Paths
      OBVIOUS
    <2> QED
      BY <1>1, <1>4, <2>1, <2>2, <2>3 DEF PathsInv
  <1>6. LateInv
    BY <1>1, <1>3 DEF LateInv, Lively
  <1>7. MadeInv
    BY <1>3 DEF MadeInv
  <1> QED
    BY <1>5, <1>6, <1>7

\* RetryCalled and RetryWakes take up paths that were open to the goroutine: those of the first
\* attempt and those of the later ones, and those of the next attempt.
LEMMA RetryPaths ==
    ASSUME TypeInv, PathsInv, Retries' = Retries,
           NEW g \in Goroutines, RetryCalled(g) \/ RetryWakes(g),
           NEW inh \in [Goroutines -> Paths], NEW k \in Goroutines, NEW h \in Paths,
           MayTake(inh, k, h)'
    PROVE  MayTake(inh, k, h)
  <1>p. PICK p : p = at[g]
    OBVIOUS
  <1>t. /\ pc \in [Goroutines -> PCs] /\ at \in [Goroutines -> 1 .. Len(chain) + 1]
        /\ tries \in [Goroutines -> [Positions -> 0 .. Limit]]
    BY DEF TypeInv, TypeOK
  <1>n. /\ \A x \in Goroutines : at[x] \in Nat /\ entry[x] \in Nat
        /\ Retries \subseteq Nat \ {0} /\ Limit \in Nat
        /\ \A x \in Goroutines, q \in Retries : tries[x][q] \in Nat
    BY Ranges DEF TypeInv
  <1>h. \A q \in Retries : h[q] \in Nat
    BY <1>n DEF Paths
  <1>1. /\ p \in Retries /\ entry' = entry
        /\ \A x \in Goroutines : at'[x] = IF x = g THEN p + 1 ELSE at[x]
        /\ \A x \in Goroutines : pc'[x] = IF x = g THEN "call" ELSE pc[x]
    <2>1. /\ p \in Positions /\ chain[p] = "retry" /\ entry' = entry
          /\ pc' = [pc EXCEPT ![g] = "call"] /\ at' = [at EXCEPT ![g] = p + 1]
      BY <1>p DEF RetryCalled, RetryWakes, Calling, CallsInner, InnerTo, TypeInv, SleepsInRetry
    <2> QED
      BY <1>t, <2>1 DEF Retries
  <1>2. \A x \in Goroutines : x # g => tries'[x] = tries[x]
    BY <1>t DEF RetryCalled, RetryWakes
  <1>3. \A q \in Retries : q # p => tries'[g][q] = tries[g][q]
    <2>1. p \in Positions /\ Retries \subseteq Positions
      BY <1>1 DEF Retries
    <2>2. \/ tries' = [tries EXCEPT ![g][p] = 0]
          \/ tries' = [tries EXCEPT ![g][p] = @ + 1]
      BY <1>p DEF RetryCalled, RetryWakes
    <2> QED
      BY <1>t, <2>1, <2>2
  <1>4. CASE k # g
    <2>1. /\ tries'[k] = tries[k] /\ at'[k] = at[k] /\ pc'[k] = pc[k] /\ entry'[k] = entry[k]
      BY <1>1, <1>2, <1>4
    <2> QED
      BY <2>1 DEF MayTake, Inwards, Inside, Upto, Where
  <1>5. CASE k = g
    <2>1. \A q \in Retries : q < p \/ q < entry[g] => Where(inh, g, q)' = Where(inh, g, q)
      BY <1>1, <1>3, <1>n DEF Where
    <2>2. \A r \in Retries \cup {p, p + 1} : r <= p /\ Upto(inh, g, h, r)' => Upto(inh, g, h, r)
      BY <1>n, <1>1, <2>1 DEF Upto
    <2>3. Upto(inh, g, h, p + 1)' => Upto(inh, g, h, p) /\ h[p] = Where(inh, g, p)'
      BY <1>n, <1>1, <2>1 DEF Upto
    <2>4. \A q \in Retries : Inside(g, q)' => entry[g] <= q /\ q <= p
      <3>1. at'[g] = p + 1 /\ entry'[g] = entry[g] /\ pc'[g] = "call" /\ p \in Nat
        BY <1>n, <1>1
      <3> QED
        BY <1>n, <3>1 DEF Inside
    <2>5. \A q \in Retries : q < p /\ Inside(g, q)' => Inside(g, q) /\ tries'[g][q] = tries[g][q]
      BY <1>n, <1>p, <1>1, <1>3 DEF Inside
    <2>6. PICK q \in Retries :
              \/ Inwards(g)' /\ Upto(inh, g, h, at[g])' /\ q = p
              \/ Inside(g, q)' /\ h[q] > tries'[g][q] /\ Upto(inh, g, h, q)'
      BY <1>1, <1>5 DEF MayTake
    <2>7. CASE q < p
      <3>1. Inside(g, q) /\ h[q] > tries[g][q] /\ Upto(inh, g, h, q)
        BY <2>2, <2>5, <2>6, <2>7, <1>n, <1>1
      <3> QED
        BY <1>5, <3>1 DEF MayTake
    <2>8. CASE ~(q < p)
      <3>1. q = p /\ Upto(inh, g, h, p)
        BY <1>1, <1>n, <2>2, <2>3, <2>4, <2>6, <2>8
      <3>2. CASE RetryCalled(g)
        <4>1. Inwards(g)
          BY <3>2 DEF RetryCalled, Calling, Inwards
        <4> QED
          BY <1>5, <1>p, <3>1, <4>1 DEF MayTake
      <3>3. CASE RetryWakes(g)
        <4>1. Inside(g, p)
          BY <1>1, <1>n, <1>p, <3>3 DEF RetryWakes, PathsInv, Inside
        <4>2. tries'[g][p] = tries[g][p] + 1
          <5>1. tries' = [tries EXCEPT ![g][p] = @ + 1] /\ p \in Positions
            BY <1>1, <1>p, <3>3 DEF RetryWakes, Retries
          <5>2. tries[g] \in [Positions -> 0 .. Limit] /\ tries'[g] = [tries[g] EXCEPT ![p] = @ + 1]
            BY <1>t, <5>1
          <5> QED
            BY <5>1, <5>2
        <4>3. Where(inh, g, p)' = tries'[g][p]
          BY <1>1, <1>n, <4>1 DEF Where, Inside
        <4>4. h[p] > tries[g][p]
          BY <1>1, <1>h, <1>n, <2>3, <2>6, <3>1, <4>2, <4>3
        <4> QED
          BY <1>1, <1>5, <3>1, <4>1, <4>4 DEF MayTake
      <3> QED
        BY <3>2, <3>3
    <2> QED
      BY <2>7, <2>8
  <1> QED
    BY <1>4, <1>5

\* TimeoutCalled hands the goroutine it starts the paths that were open to g on its way inwards.
LEMMA TimeoutPaths ==
    ASSUME TypeInv, PathsInv, [Next]_vars, NEW g \in Goroutines, NEW c \in Goroutines,
           TimeoutCalled(g, c)
    PROVE  PathsInv'
  <1>t. /\ pc \in [Goroutines -> PCs] /\ at \in [Goroutines -> 1 .. Len(chain) + 1]
        /\ entry \in [Goroutines -> 1 .. Len(chain) + 1]
    BY DEF TypeInv, TypeOK
  <1>n. /\ \A x \in Goroutines : at[x] \in Nat /\ entry[x] \in Nat
        /\ Retries \subseteq Nat \ {0} /\ Limit \in Nat
        /\ \A x \in Goroutines, q \in Retries : tries[x][q] \in 0 .. Limit
    BY Ranges DEF TypeInv
  <1>g. Retries' = Retries /\ Paths' = Paths
    BY GivenStays
  <1>p. PICK p : p = at[g]
    OBVIOUS
  <1>1. /\ pc[g] = "call" /\ pc[c] = "unborn" /\ g # c /\ p \notin Retries
        /\ tries' = tries /\ begun' = begun
        /\ \A x \in Goroutines : pc'[x] = IF x = g THEN "select" ELSE IF x = c THEN "call" ELSE pc[x]
        /\ \A x \in Goroutines : at'[x] = IF x = c THEN p + 1 ELSE at[x]
        /\ \A x \in Goroutines : entry'[x] = IF x = c THEN p + 1 ELSE entry[x]
    <2>1. /\ pc[g] = "call" /\ pc[c] = "unborn" /\ chain[p] = "timeout" /\ p \in Positions
          /\ tries' = tries /\ begun' = begun
          /\ pc' = [pc EXCEPT ![g] = "select", ![c] = "call"]
          /\ at' = [at EXCEPT ![c] = p + 1] /\ entry' = [entry EXCEPT ![c] = p + 1]
      BY <1>p DEF TimeoutCalled, Calling, InnerTo, history
    <2> QED
      BY <1>t, <2>1 DEF Retries
  <1>2. PICK inh \in [Goroutines -> Paths], taken \in SUBSET Paths : Apart(inh, taken)
    BY DEF PathsInv
  <1>3. PICK here \in Paths : \A q \in Retries : here[q] = Where(inh, g, q)
    <2> DEFINE where == [q \in Retries |-> Where(inh, g, q)]
    <2>1. \A q \in Retries : inh[g][q] \in 0 .. Limit
      BY DEF Paths
    <2>2. where \in Paths
      BY <1>n, <2>1 DEF Paths, Where
    <2> QED
      BY <2>2
  <1>4. PICK inh2 \in [Goroutines -> Paths] :
            /\ \A q \in Retries : inh2[c][q] = Where(inh, g, q)
            /\ \A x \in Goroutines : x # c => inh2[x] = inh[x]
    <2> DEFINE started == [inh EXCEPT ![c] = here]
    <2>1. /\ started \in [Goroutines -> Paths] /\ started[c] = here
          /\ \A x \in Goroutines : x # c => started[x] = inh[x]
      OBVIOUS
    <2> QED
      BY <1>3, <2>1
  <1>5. ASSUME NEW h \in Paths, MayTake(inh2, c, h)' PROVE Inwards(g) /\ Upto(inh, g, h, at[g])
    <2>1. at'[c] = p + 1 /\ entry'[c] = p + 1 /\ pc'[c] = "call"
      BY <1>1
    <2>2. \A q \in Retries : ~Inside(c, q)'
      BY <1>g, <1>n, <1>p, <2>1 DEF Inside
    <2>3. Upto(inh2, c, h, p + 1)'
      BY <1>5, <1>g, <2>1, <2>2 DEF MayTake
    <2>4. \A q \in Retries : q < p + 1 => h[q] = Where(inh, g, q)
      BY <1>4, <1>g, <2>1, <2>3 DEF Upto, Where
    <2>5. \A q \in Retries : q < p => q < p + 1
      BY <1>n, <1>p
    <2> QED
      BY <1>1, <1>p, <2>4, <2>5 DEF Inwards, Upto
  <1>6. ASSUME NEW k \in Goroutines, k # c, NEW h \in Paths, MayTake(inh2, k, h)'
        PROVE  MayTake(inh, k, h) /\ (k = g => ~Upto(inh, g, h, at[g]))
    <2>1. /\ at'[k] = at[k] /\ entry'[k] = entry[k] /\ tries'[k] = tries[k] /\ inh2[k] = inh[k]
          /\ pc'[k] = IF k = g THEN "select" ELSE pc[k]
      BY <1>1, <1>4, <1>6
    <2>2. \A r : Upto(inh2, k, h, r)' <=> Upto(inh, k, h, r)
      BY <1>g, <2>1 DEF Upto, Where
    <2>3. (\A q \in Retries : Inside(k, q)' => Inside(k, q)) /\ (Inwards(k)' => Inwards(k) /\ k # g)
      BY <2>1 DEF Inside, Inwards
    <2>4. MayTake(inh, k, h)
      BY <1>6, <1>g, <2>1, <2>2, <2>3 DEF MayTake
    <2>5. ASSUME k = g, Upto(inh, g, h, at[g]) PROVE FALSE
      <3>1. PICK q \in Retries : Inside(g, q)' /\ h[q] > tries[g][q]
        BY <1>6, <1>g, <2>1, <2>3, <2>5 DEF MayTake
      <3>2. q < at[g] /\ entry[g] <= q
        BY <1>1, <2>1, <2>5, <3>1 DEF Inside
      <3>3. h[q] = tries[g][q]
        BY <1>n, <2>5, <3>2 DEF Upto, Where
      <3> QED
        BY <1>n, <3>1, <3>3
    <2> QED
      BY <2>4, <2>5
  <1>7. Apart(inh2, taken)'
    <2>1. ASSUME NEW k \in Goroutines, NEW h \in Paths, MayTake(inh2, k, h)' PROVE h \notin taken
      BY <1>2, <1>5, <1>6, <2>1 DEF Apart, MayTake
    <2>2. ASSUME NEW k \in Goroutines, NEW l \in Goroutines, NEW h \in Paths,
                 MayTake(inh2, k, h)', MayTake(inh2, l, h)'
          PROVE  k = l
      <3>1. ASSUME NEW x \in Goroutines, MayTake(inh2, c, h)', MayTake(inh2, x, h)', x # c PROVE FALSE
        <4>1. Inwards(g) /\ Upto(inh, g, h, at[g]) /\ MayTake(inh, g, h)
          BY <1>5, <3>1 DEF MayTake
        <4>2. MayTake(inh, x, h) /\ (x = g => ~Upto(inh, g, h, at[g]))
          BY <1>6, <3>1
        <4> QED
          BY <1>2, <4>1, <4>2 DEF Apart
      <3>2. CASE k # c /\ l # c
        BY <1>2, <1>6, <2>2, <3>2 DEF Apart
      <3> QED
        BY <2>2, <3>1, <3>2
    <2> QED
      BY <1>1, <1>2, <1>g, <2>1, <2>2 DEF Apart
  <1>8. IsFiniteSet(Formatting')
    <2>1. \A x \in Goroutines : pc'[x] = "format" <=> pc[x] = "format"
      BY <1>1
    <2>2. Formatting' = Formatting
      BY <2>1 DEF Formatting
    <2> QED
      BY <2>2 DEF PathsInv
  <1>9. \A k \in Goroutines : pc'[k] = "sleep" => entry'[k] <= at'[k]
    BY <1>1 DEF PathsInv
  <1> QED
    BY <1>4, <1>7, <1>8, <1>9, <1>g DEF PathsInv

\* A Format call takes a path that was open to its goroutine, and not yet taken.
LEMMA FormatPaths ==
    ASSUME TypeInv, PathsInv, [Next]_vars, NEW g \in Goroutines, FormatBegins(g)
    PROVE  PathsInv' /\ begun < Attempts
  <1>n. /\ \A x \in Goroutines : at[x] \in Nat /\ entry[x] \in Nat
        /\ Retries \subseteq Nat \ {0} /\ \A q \in Retries : q <= Len(chain)
        /\ \A x \in Goroutines, q \in Retries : tries[x][q] \in 0 .. Limit
        /\ Len(chain) \in Nat /\ Limit \in Nat /\ begun \in Nat
    BY Ranges DEF TypeInv
  <1>f. IsFiniteSet(Paths)
    BY PathsFinite DEF TypeInv
  <1>g. Retries' = Retries /\ Paths' = Paths
    BY GivenStays
  <1>1. /\ pc[g] = "call" /\ at[g] = Len(chain) + 1 /\ begun' = begun + 1
        /\ \A x \in Goroutines : pc'[x] = IF x = g THEN "format" ELSE pc[x]
        /\ UNCHANGED <<entry, at, tries>>
    BY DEF FormatBegins, TypeInv, TypeOK
  <1>2. PICK inh \in [Goroutines -> Paths], taken \in SUBSET Paths : Apart(inh, taken)
    BY DEF PathsInv
  <1>3. PICK w \in Paths : \A q \in Retries : w[q] = Where(inh, g, q)
    <2> DEFINE where == [q \in Retries |-> Where(inh, g, q)]
    <2>1. \A q \in Retries : inh[g][q] \in 0 .. Limit
      BY DEF Paths
    <2>2. where \in Paths
      BY <1>n, <2>1 DEF Paths, Where
    <2> QED
      BY <2>2
  <1>4. MayTake(inh, g, w) /\ w \notin taken
    <2>1. MayTake(inh, g, w)
      BY <1>1, <1>3 DEF MayTake, Inwards, Upto
    <2> QED
      BY <1>2, <2>1 DEF Apart
  <1>5. ASSUME NEW k \in Goroutines, NEW h \in Paths, MayTake(inh, k, h)'
        PROVE  MayTake(inh, k, h) /\ h # w
    <2>1. MayTake(inh, k, h)
      BY <1>5, <1>g, MostShrink, ShrinksPaths
    <2>2. ASSUME h = w PROVE FALSE
      <3>1. k = g
        BY <1>2, <1>4, <2>1, <2>2 DEF Apart
      <3>2. PICK q \in Retries : Inside(g, q)' /\ w[q] > tries[g][q]
        BY <1>5, <1>1, <1>g, <2>2, <3>1 DEF MayTake, Inwards
      <3>3. entry[g] <= q
        BY <1>1, <3>2 DEF Inside
      <3> QED
        BY <1>n, <1>3, <3>2, <3>3 DEF Where
    <2> QED
      BY <2>1, <2>2
  <1>6. /\ IsFiniteSet(taken) /\ Cardinality(taken) = begun
        /\ IsFiniteSet(taken \cup {w}) /\ Cardinality(taken \cup {w}) = begun + 1
    <2>1. IsFiniteSet(taken) /\ Cardinality(taken) = begun
      BY <1>2 DEF Apart
    <2> QED
      BY <1>4, <2>1, FS_AddElement
  <1>7. Apart(inh, taken \cup {w})'
    BY <1>1, <1>2, <1>5, <1>6, <1>g DEF Apart
  <1>8. IsFiniteSet(Formatting')
    <2>1. Formatting' = Formatting \cup {g}
      BY <1>1 DEF Formatting
    <2> QED
      BY <2>1, FS_AddElement DEF PathsInv
  <1>9. \A k \in Goroutines : pc'[k] = "sleep" => entry'[k] <= at'[k]
    BY <1>1 DEF PathsInv
  <1>10. PathsInv'
    <2>1. inh \in [Goroutines -> Paths'] /\ taken \cup {w} \in SUBSET Paths'
      BY <1>g
    <2> QED
      BY <1>7, <1>8, <1>9, <2>1 DEF PathsInv
  <1>11. begun < Attempts
    <2>1. Cardinality(taken \cup {w}) <= Cardinality(Paths) /\ Cardinality(Paths) \in Nat
      BY <1>f, FS_Subset, FS_CardinalityType
    <2> QED
      BY <1>6, <1>n, <2>1 DEF Attempts, Paths
  <1> QED
    BY <1>10, <1>11

\* No step makes two calls of Format take one path.
LEMMA PathsStep == TypeInv /\ PathsInv /\ [Next]_vars => PathsInv'
  <1> SUFFICES ASSUME TypeInv, PathsInv, [Next]_vars PROVE PathsInv'
    OBVIOUS
  <1>t. pc \in [Goroutines -> PCs]
    BY DEF TypeInv, TypeOK
  <1>g. Retries' = Retries
    BY GivenStays
  <1>f. ASSUME NEW g \in Goroutines, \A k \in Goroutines : k # g => pc'[k] = pc[k], pc'[g] # "format"
        PROVE  IsFiniteSet(Formatting')
    <2>1. Formatting' \in SUBSET Formatting
      BY <1>f DEF Formatting
    <2> QED
      BY <2>1, FS_Subset DEF PathsInv
  <1>s. ASSUME NEW g \in Goroutines, Shrinks(g), begun' = begun, pc'[g] # "format" PROVE PathsInv'
    <2>1. \A k \in Goroutines : pc'[k] = "sleep" => entry'[k] <= at'[k]
      BY <1>s DEF Shrinks, PathsInv
    <2>2. IsFiniteSet(Formatting')
      BY <1>f, <1>s DEF Shrinks
    <2> QED
      BY <1>g, <1>s, <2>1, <2>2, ShrinksPaths, PathsNarrow
  <1>1. CASE Resolve \/ ExecuteReturns
    <2>1. begun' = begun /\ pc'[Caller] # "format"
      BY <1>1, <1>t DEF Resolve, ExecuteReturns, history
    <2> QED
      BY <1>1, <1>s, <2>1, MostShrink
  <1>2. CASE CallerCancels \/ UNCHANGED vars \/ \E g \in Goroutines : DeadlineFires(g)
    <2>1. UNCHANGED <<chain, retries, pc, at, entry, tries, begun>>
      BY <1>2 DEF CallerCancels, DeadlineFires, vars, given, history
    <2>2. \A inh, k, h : MayTake(inh, k, h)' => MayTake(inh, k, h)
      BY <1>g, <2>1 DEF MayTake, Inwards, Inside, Upto, Where
    <2>3. IsFiniteSet(Formatting') /\ \A k \in Goroutines : pc'[k] = "sleep" => entry'[k] <= at'[k]
      BY <2>1 DEF PathsInv, Formatting
    <2> QED
      BY <2>1, <2>2, <2>3, PathsNarrow
  <1>3. ASSUME NEW g \in Goroutines, FormatBegins(g) PROVE PathsInv'
    BY <1>3, FormatPaths
  <1>4. ASSUME NEW g \in Goroutines,
               \/ FormatReturns(g) \/ ValidationCalled(g) \/ ValidationAnswered(g)
               \/ RetrySucceeds(g) \/ RetryGivesUp(g) \/ RetryBacksOff(g)
        PROVE  PathsInv'
    <2>1. begun' = begun /\ pc'[g] # "format"
      BY <1>4, <1>t DEF FormatReturns, ValidationCalled, ValidationAnswered, RetrySucceeds,
         RetryGivesUp, RetryBacksOff, Calling, Answered, Returns, CallsInner, history
    <2> QED
      BY <1>4, <1>s, <2>1, MostShrink
  <1>5. ASSUME NEW g \in Goroutines, ChildSends(g) \/ SelectAnswer(g) \/ SelectDone(g) PROVE PathsInv'
    <2>1. begun' = begun /\ pc'[g] # "format"
      BY <1>5, <1>t DEF ChildSends, SelectAnswer, SelectDone, Returns, history
    <2> QED
      BY <1>5, <1>s, <2>1, MostShrink
  <1>6. ASSUME NEW g \in Goroutines, RetryCalled(g) \/ RetryWakes(g) PROVE PathsInv'
    <2>1. /\ begun' = begun /\ entry' = entry
          /\ \A k \in Goroutines : pc'[k] = IF k = g THEN "call" ELSE pc[k]
          /\ \A k \in Goroutines : k # g => at'[k] = at[k]
      BY <1>6, <1>t DEF RetryCalled, RetryWakes, CallsInner, history, TypeInv, TypeOK
    <2>2. IsFiniteSet(Formatting')
      BY <1>f, <2>1
    <2>3. \A k \in Goroutines : pc'[k] = "sleep" => entry'[k] <= at'[k]
      BY <2>1 DEF PathsInv
    <2> QED
      BY <1>6, <1>g, <2>1, <2>2, <2>3, RetryPaths, PathsNarrow
  <1>7. ASSUME NEW g \in Goroutines, NEW c \in Goroutines, TimeoutCalled(g, c) PROVE PathsInv'
    BY <1>7, TimeoutPaths
  <1> QED
    BY <1>1, <1>2, <1>3, <1>4, <1>5, <1>6, <1>7 DEF Next, Step

\* No Format call follows one on a context that was done.
LEMMA LateStep == TypeInv /\ PathsInv /\ LateInv /\ [Next]_vars => LateInv'
  <1> SUFFICES ASSUME TypeInv, PathsInv, LateInv, [Next]_vars, ~TimeoutPerAttempt PROVE LateInv'
    BY GivenStays DEF LateInv
  <1>t. /\ pc \in [Goroutines -> PCs] /\ at \in [Goroutines -> 1 .. Len(chain) + 1]
        /\ entry \in [Goroutines -> 1 .. Len(chain) + 1] /\ done \in [Goroutines -> BOOLEAN]
    BY DEF TypeInv, TypeOK
  <1>n. /\ \A k \in Goroutines : at[k] \in Nat /\ entry[k] \in Nat
        /\ Retries \subseteq Nat \ {0} /\ late \in Nat
    BY Ranges DEF TypeInv
  <1>g. Retries' = Retries
    BY GivenStays
  <1>a. /\ late <= 1 /\ \A g, k \in Goroutines : Lively(g) /\ Lively(k) => g = k
        /\ late = 1 => \A g \in Goroutines : Lively(g) => done[g] /\ ~Inwards(g) /\ pc[g] # "sleep"
    BY DEF LateInv
  <1>s. ASSUME NEW g \in Goroutines, Shrinks(g), late' = late PROVE LateInv'
    <2>1. \A k \in Goroutines : Lively(k)' => Lively(k)
      BY <1>g, <1>s DEF Shrinks, Lively, Inwards, Inside
    <2>2. \A k \in Goroutines :
             /\ done[k] => done'[k]
             /\ Inwards(k)' => Inwards(k)
             /\ pc'[k] = "sleep" => pc[k] = "sleep" \/ ~done[k]
      BY <1>s DEF Shrinks, Inwards
    <2> QED
      BY <1>a, <1>s, <2>1, <2>2 DEF LateInv
  <1>1. CASE Resolve \/ ExecuteReturns
    <2>1. late' = late
      BY <1>1 DEF Resolve, ExecuteReturns, history
    <2> QED
      BY <1>1, <1>s, <2>1, MostShrink
  <1>2. CASE CallerCancels \/ UNCHANGED vars \/ \E g \in Goroutines : DeadlineFires(g)
    <2>1. UNCHANGED <<pc, at, entry, late>> /\ \A k \in Goroutines : done[k] => done'[k]
      BY <1>2, <1>t DEF CallerCancels, DeadlineFires, Expired, vars, history
    <2>2. \A k \in Goroutines : (Lively(k)' <=> Lively(k)) /\ (Inwards(k)' <=> Inwards(k))
      BY <1>g, <2>1 DEF Lively, Inwards, Inside
    <2> QED
      BY <1>a, <2>1, <2>2 DEF LateInv
  <1>3. ASSUME NEW g \in Goroutines, FormatBegins(g) PROVE LateInv'
    <2>1. /\ pc[g] = "call" /\ pc'[g] = "format" /\ done'[g] = done[g]
          /\ late' = IF done[g] THEN late + 1 ELSE late
      BY <1>3, <1>t DEF FormatBegins
    <2>2. Shrinks(g)
      BY <1>3, MostShrink
    <2>3. Lively(g) /\ late = 0
      <3>1. Lively(g) /\ Inwards(g)
        BY <2>1 DEF Lively, Inwards
      <3> QED
        BY <1>a, <1>n, <3>1
    <2>4. \A k \in Goroutines : Lively(k)' => k = g
      <3>1. \A k \in Goroutines : Lively(k)' => Lively(k)
        BY <1>g, <2>2 DEF Shrinks, Lively, Inwards, Inside
      <3> QED
        BY <1>a, <2>3, <3>1
    <2>5. ~Inwards(g)' /\ pc'[g] # "sleep"
      BY <2>1 DEF Inwards
    <2>6. late' <= 1 /\ (late' = 1 => done'[g])
      BY <1>t, <2>1, <2>3
    <2> QED
      BY <2>4, <2>5, <2>6 DEF LateInv
  <1>4. ASSUME NEW g \in Goroutines,
               \/ FormatReturns(g) \/ ValidationCalled(g) \/ ValidationAnswered(g)
               \/ RetrySucceeds(g) \/ RetryGivesUp(g) \/ RetryBacksOff(g)
               \/ ChildSends(g) \/ SelectAnswer(g) \/ SelectDone(g)
        PROVE  LateInv'
    <2>1. late' = late
      BY <1>4 DEF FormatReturns, ValidationCalled, ValidationAnswered, RetrySucceeds,
         RetryGivesUp, RetryBacksOff, ChildSends, SelectAnswer, SelectDone, history
    <2> QED
      BY <1>4, <1>s, <2>1, MostShrink
  <1>5. ASSUME NEW g \in Goroutines, RetryCalled(g) \/ RetryWakes(g) PROVE LateInv'
    <2>1. /\ late' = late /\ entry' = entry
          /\ \A k \in Goroutines : k # g => pc'[k] = pc[k] /\ at'[k] = at[k]
      BY <1>5, <1>t DEF RetryCalled, RetryWakes, CallsInner, history
    <2>2. Lively(g)
      <3>1. CASE RetryCalled(g)
        BY <3>1 DEF RetryCalled, Calling, Lively, Inwards
      <3>2. CASE RetryWakes(g)
        <4>1. pc[g] = "sleep" /\ at[g] \in Retries /\ entry[g] <= at[g]
          BY <3>2 DEF RetryWakes, TypeInv, SleepsInRetry, PathsInv, Retries
        <4> QED
          BY <4>1 DEF Lively, Inside
      <3> QED
        BY <1>5, <3>1, <3>2
    <2>3. late = 0
      <3>1. Inwards(g) \/ pc[g] = "sleep"
        BY <1>5 DEF RetryCalled, RetryWakes, Calling, Inwards
      <3> QED
        BY <1>a, <1>n, <2>2, <3>1
    <2>4. \A k \in Goroutines : Lively(k)' => k = g
      <3>1. \A k \in Goroutines : k # g /\ Lively(k)' => Lively(k)
        BY <1>g, <2>1 DEF Lively, Inwards, Inside
      <3> QED
        BY <1>a, <2>2, <3>1
    <2> QED
      BY <2>1, <2>3, <2>4 DEF LateInv
  <1>6. ASSUME NEW g \in Goroutines, NEW c \in Goroutines, TimeoutCalled(g, c) PROVE LateInv'
    <2>1. /\ pc[g] = "call" /\ at[g] \in Positions /\ chain[at[g]] = "timeout" /\ late' = late
          /\ g # c
          /\ \A k \in Goroutines :
                /\ pc'[k] = IF k = g THEN "select" ELSE IF k = c THEN "call" ELSE pc[k]
                /\ at'[k] = IF k = c THEN at[g] + 1 ELSE at[k]
                /\ entry'[k] = IF k = c THEN at[g] + 1 ELSE entry[k]
      BY <1>6, <1>t DEF TimeoutCalled, Calling, InnerTo, history
    <2>2. Lively(g) /\ late = 0
      <3>1. Lively(g) /\ Inwards(g)
        BY <2>1 DEF Lively, Inwards
      <3> QED
        BY <1>a, <1>n, <3>1
    <2>3. \A q \in Retries : ~(q < at[g])
      BY <2>1 DEF TimeoutPerAttempt, Retries
    <2>4. ASSUME NEW k \in Goroutines, Lively(k)' PROVE k = c
      <3>1. CASE k = g
        <4>1. ~Inwards(g)' /\ pc'[g] # "sleep" /\ at'[g] = at[g]
          BY <2>1 DEF Inwards
        <4> QED
          BY <1>g, <2>3, <2>4, <3>1, <4>1 DEF Lively, Inside
      <3>2. CASE k # g /\ k # c
        <4>1. pc'[k] = pc[k] /\ at'[k] = at[k] /\ entry'[k] = entry[k]
          BY <2>1, <3>2
        <4>2. Lively(k)
          BY <1>g, <2>4, <4>1 DEF Lively, Inwards, Inside
        <4> QED
          BY <1>a, <2>2, <3>2, <4>2
      <3> QED
        BY <3>1, <3>2
    <2> QED
      BY <2>1, <2>2, <2>4 DEF LateInv
  <1> QED
    BY <1>1, <1>2, <1>3, <1>4, <1>5, <1>6 DEF Next, Step

\* What EveryAttemptMade says of one goroutine, and MadeInv.
Exhausted(g) == pc[g] = "return" /\ at[g] \in Retries /\ val[g] = "exhausted" /\ ~done[g]
Made(g) ==
    /\ \A p \in Retries : Inside(g, p) /\ ~done[g] =>
          /\ Inwards(g) => begun >= tries[g][p]
          /\ pc[g] \in {"format", "return", "sleep"} => begun > tries[g][p]
    /\ Exhausted(g) => begun >= Limit + 1

\* A loop on a live context gives up after its last attempt only, and no attempt ends without
\* a Format call but on a context that is done.
LEMMA MadeStep ==
    TypeInv /\ PathsInv /\ MadeInv /\ EveryAttemptMade /\ [Next]_vars => MadeInv' /\ EveryAttemptMade'
  <1> SUFFICES ASSUME TypeInv, PathsInv, MadeInv, EveryAttemptMade, [Next]_vars
               PROVE  MadeInv' /\ EveryAttemptMade'
    OBVIOUS
  <1>t. /\ pc \in [Goroutines -> PCs] /\ at \in [Goroutines -> 1 .. Len(chain) + 1]
        /\ entry \in [Goroutines -> 1 .. Len(chain) + 1] /\ done \in [Goroutines -> BOOLEAN]
        /\ tries \in [Goroutines -> [Positions -> 0 .. Limit]]
        /\ val \in [Goroutines -> Results \cup Errors \cup {None}]
    BY DEF TypeInv, TypeOK
  <1>n. /\ \A k \in Goroutines : at[k] \in Nat /\ entry[k] \in Nat
        /\ Retries \subseteq Nat \ {0} /\ begun \in Nat /\ Limit \in Nat
        /\ \A k \in Goroutines, q \in Retries : tries[k][q] \in Nat /\ tries[k][q] <= Limit
    <2>1. \A k \in Goroutines, q \in Retries : tries[k][q] \in 0 .. Limit
      BY Ranges DEF TypeInv
    <2> QED
      BY <2>1, Ranges DEF TypeInv
  <1>g. Retries' = Retries /\ Limit' = Limit /\ UNCHANGED given /\ TimeoutPerAttempt' = TimeoutPerAttempt
    BY GivenStays
  <1>b. CASE TimeoutPerAttempt \/ blank
    BY <1>b, <1>g DEF MadeInv, EveryAttemptMade, given
  <1> SUFFICES ASSUME ~TimeoutPerAttempt, ~blank PROVE MadeInv' /\ EveryAttemptMade'
    BY <1>b
  <1>m. \A k \in Goroutines : Made(k)
    BY DEF MadeInv, EveryAttemptMade, Made, Exhausted, Retries
  <1>q. (\A k \in Goroutines : Made(k)') => MadeInv' /\ EveryAttemptMade'
    BY DEF MadeInv, EveryAttemptMade, Made, Exhausted, Retries
  <1>o. ASSUME NEW k \in Goroutines, pc'[k] = pc[k], at'[k] = at[k], entry'[k] = entry[k],
               tries'[k] = tries[k], val'[k] = val[k], begun' \in {begun, begun + 1},
               done[k] => done'[k]
        PROVE  Made(k)'
    <2>1. Made(k) /\ (Exhausted(k)' => Exhausted(k))
      BY <1>g, <1>m, <1>o DEF Exhausted
    <2>2. (\A p \in Retries : Inside(k, p)' <=> Inside(k, p)) /\ (Inwards(k)' <=> Inwards(k))
      BY <1>o DEF Inside, Inwards
    <2>3. Exhausted(k)' => begun' >= Limit' + 1
      BY <1>g, <1>n, <1>o, <2>1 DEF Made
    <2> QED
      BY <1>g, <1>n, <1>o, <2>1, <2>2, <2>3 DEF Made
  <1>s. ASSUME NEW g \in Goroutines, Shrinks(g), \A k \in Goroutines : k # g => val'[k] = val[k],
               begun' = begun,
               pc'[g] \in {"format", "return", "sleep"} =>
                   pc[g] \in {"format", "return", "sleep"} \/ \A p \in Retries : ~Inside(g, p),
               Exhausted(g)' => begun >= Limit + 1
        PROVE  MadeInv' /\ EveryAttemptMade'
    <2>1. \A k \in Goroutines : k # g => Made(k)'
      BY <1>o, <1>s DEF Shrinks
    <2>2. Made(g)'
      <3>1. /\ tries' = tries /\ (done[g] => done'[g]) /\ (Inwards(g)' => Inwards(g))
            /\ \A p \in Retries : Inside(g, p)' => Inside(g, p)
        BY <1>s DEF Shrinks
      <3> QED
        BY <1>g, <1>m, <1>s, <3>1 DEF Made
    <2> QED
      BY <1>q, <2>1, <2>2
  <1>1. CASE Resolve
    <2>1. /\ begun' = begun /\ pc'[Caller] \in {"call", "exited"}
          /\ \A k \in Goroutines : k # Caller => val'[k] = val[k]
      BY <1>1, <1>t DEF Resolve, history
    <2>2. Shrinks(Caller)
      BY <1>1, MostShrink
    <2> QED
      BY <1>s, <2>1, <2>2 DEF Exhausted
  <1>2. CASE CallerCancels \/ UNCHANGED vars \/ \E g \in Goroutines : DeadlineFires(g)
    <2>1. UNCHANGED <<pc, at, entry, tries, val, begun>> /\ \A k \in Goroutines : done[k] => done'[k]
      BY <1>2, <1>t DEF CallerCancels, DeadlineFires, Expired, vars, history
    <2> QED
      BY <1>o, <1>q, <2>1
  <1>3. ASSUME NEW g \in Goroutines, FormatBegins(g) PROVE MadeInv' /\ EveryAttemptMade'
    <2>1. /\ pc[g] = "call" /\ begun' = begun + 1 /\ UNCHANGED <<at, entry, tries, val, done>>
          /\ \A k \in Goroutines : pc'[k] = IF k = g THEN "format" ELSE pc[k]
      BY <1>3, <1>t DEF FormatBegins
    <2>2. \A k \in Goroutines : k # g => Made(k)'
      BY <1>o, <2>1
    <2>3. Made(g)'
      <3>1. \A p \in Retries : Inside(g, p)' => Inside(g, p)
        BY <2>1 DEF Inside
      <3>2. Inwards(g) /\ ~Inwards(g)' /\ ~Exhausted(g)'
        BY <2>1 DEF Inwards, Exhausted
      <3> QED
        BY <1>g, <1>m, <1>n, <2>1, <3>1, <3>2 DEF Made
    <2> QED
      BY <1>q, <2>2, <2>3
  <1>4. ASSUME NEW g \in Goroutines, FormatReturns(g) PROVE MadeInv' /\ EveryAttemptMade'
    <2>1. PICK v \in Outcomes : Returns(g, v)
      BY <1>4 DEF FormatReturns
    <2>2. /\ begun' = begun /\ pc[g] = "format" /\ val'[g] # "exhausted"
          /\ \A k \in Goroutines : k # g => val'[k] = val[k]
      BY <1>4, <1>t, <2>1 DEF FormatReturns, Returns, Outcomes, Results
    <2> QED
      BY <1>4, <1>s, <2>2, MostShrink DEF Exhausted
  <1>5. ASSUME NEW g \in Goroutines, ValidationCalled(g) PROVE MadeInv' /\ EveryAttemptMade'
    <2>1. /\ CallsInner(g, at[g]) /\ UNCHANGED val /\ begun' = begun
      BY <1>5 DEF ValidationCalled, history
    <2>2. pc'[g] = "call"
      BY <1>t, <2>1 DEF CallsInner
    <2> QED
      BY <1>5, <1>s, <2>1, <2>2, MostShrink DEF Exhausted
  <1>6. ASSUME NEW g \in Goroutines, ValidationAnswered(g) \/ RetrySucceeds(g)
        PROVE  MadeInv' /\ EveryAttemptMade'
    <2>1. /\ begun' = begun /\ pc[g] = "return" /\ pc' = pc
          /\ \A k \in Goroutines : k # g => val'[k] = val[k]
          /\ at'[g] = at[g] - 1 /\ Retries \subseteq Positions
      BY <1>6, <1>t DEF ValidationAnswered, RetrySucceeds, Answered, Outer, history, Retries
    <2>2. ~Exhausted(g)'
      <3>1. CASE ValidationAnswered(g)
        BY <1>g, <2>1, <3>1 DEF ValidationAnswered, Answered, Outer, Exhausted, Retries
      <3>2. CASE RetrySucceeds(g)
        BY <3>2 DEF RetrySucceeds, Exhausted, Results
      <3> QED
        BY <1>6, <3>1, <3>2
    <2> QED
      BY <1>6, <1>s, <2>1, <2>2, MostShrink
  <1>7. ASSUME NEW g \in Goroutines, RetryGivesUp(g) PROVE MadeInv' /\ EveryAttemptMade'
    <2>1. /\ begun' = begun /\ pc[g] = "return" /\ pc' = pc /\ done' = done
          /\ \A k \in Goroutines : k # g => val'[k] = val[k]
          /\ at'[g] = at[g] - 1 /\ entry[g] <= at[g] - 1
          /\ done[g] \/ tries[g][at[g] - 1] >= Limit
      BY <1>7, <1>t, <1>n DEF RetryGivesUp, Answered, Outer, history
    <2>2. ASSUME Exhausted(g)' PROVE begun >= Limit + 1
      <3> DEFINE p == at[g] - 1
      <3>1. p \in Retries /\ ~done[g] /\ tries[g][p] >= Limit
        BY <1>g, <2>1, <2>2 DEF Exhausted
      <3>2. Inside(g, p)
        BY <1>n, <2>1 DEF Inside
      <3>3. begun > tries[g][p]
        BY <1>m, <2>1, <3>1, <3>2 DEF Made
      <3> QED
        BY <1>n, <3>1, <3>3
    <2> QED
      BY <1>7, <1>s, <2>1, <2>2, MostShrink
  <1>8. ASSUME NEW g \in Goroutines, RetryBacksOff(g) PROVE MadeInv' /\ EveryAttemptMade'
    <2>1. begun' = begun /\ pc[g] = "return" /\ UNCHANGED val /\ pc'[g] = "sleep"
      BY <1>8, <1>t DEF RetryBacksOff, Answered, history
    <2> QED
      BY <1>8, <1>s, <2>1, MostShrink DEF Exhausted
  <1>9. ASSUME NEW g \in Goroutines, RetryCalled(g) \/ RetryWakes(g)
        PROVE  MadeInv' /\ EveryAttemptMade'
    <2>1. /\ begun' = begun /\ at[g] \in Retries /\ UNCHANGED <<entry, val, done>>
          /\ \A k \in Goroutines : pc'[k] = IF k = g THEN "call" ELSE pc[k]
          /\ \A k \in Goroutines : at'[k] = IF k = g THEN at[g] + 1 ELSE at[k]
          /\ \A k \in Goroutines : k # g => tries'[k] = tries[k]
      <3>1. /\ begun' = begun /\ at[g] \in Retries /\ UNCHANGED <<entry, val, done>>
            /\ pc' = [pc EXCEPT ![g] = "call"] /\ at' = [at EXCEPT ![g] = at[g] + 1]
            /\ \/ tries' = [tries EXCEPT ![g][at[g]] = 0]
               \/ tries' = [tries EXCEPT ![g][at[g]] = @ + 1]
        BY <1>9 DEF RetryCalled, RetryWakes, Calling, CallsInner, InnerTo, TypeInv, SleepsInRetry,
           history, Retries
      <3> QED
        BY <1>t, <3>1
    <2>2. \A k \in Goroutines : k # g => Made(k)'
      BY <1>o, <2>1
    <2>3. Inwards(g)' /\ ~Exhausted(g)' /\ pc'[g] = "call"
      BY <2>1 DEF Inwards, Exhausted
    <2>4. ASSUME NEW p \in Retries, Inside(g, p)', ~done[g] PROVE begun >= tries'[g][p]
      <3>1. entry[g] <= p /\ p <= at[g]
        BY <1>n, <2>1, <2>4 DEF Inside
      <3>2. CASE p < at[g]
        <4>1. tries'[g][p] = tries[g][p]
          <5>1. p \in Positions /\ at[g] \in Positions /\ p # at[g]
            BY <1>n, <2>1, <3>2 DEF Retries
          <5>2. \/ tries' = [tries EXCEPT ![g][at[g]] = 0]
                \/ tries' = [tries EXCEPT ![g][at[g]] = @ + 1]
            BY <1>9 DEF RetryCalled, RetryWakes
          <5> QED
            BY <1>t, <5>1, <5>2
        <4>2. Inside(g, p)
          BY <3>1, <3>2 DEF Inside
        <4>3. Inwards(g) \/ pc[g] = "sleep"
          BY <1>9 DEF RetryCalled, RetryWakes, Calling, Inwards
        <4>4. begun >= tries[g][p]
          BY <1>m, <1>n, <2>4, <4>2, <4>3 DEF Made
        <4> QED
          BY <4>1, <4>4
      <3>3. CASE p = at[g] /\ RetryCalled(g)
        <4>1. tries' = [tries EXCEPT ![g][p] = 0] /\ p \in Positions
          BY <3>3 DEF RetryCalled, Retries
        <4> QED
          BY <1>n, <1>t, <4>1
      <3>4. CASE p = at[g] /\ RetryWakes(g)
        <4>1. tries' = [tries EXCEPT ![g][p] = @ + 1] /\ p \in Positions /\ pc[g] = "sleep"
          BY <3>4 DEF RetryWakes, Retries
        <4>2. begun > tries[g][p]
          BY <1>m, <2>4, <3>1, <3>4, <4>1 DEF Made, Inside
        <4> QED
          BY <1>n, <1>t, <4>1, <4>2
      <3> QED
        BY <1>9, <1>n, <3>1, <3>2, <3>3, <3>4
    <2>5. Made(g)'
      BY <1>g, <2>1, <2>3, <2>4 DEF Made
    <2> QED
      BY <1>q, <2>2, <2>5
  <1>10. ASSUME NEW g \in Goroutines, NEW c \in Goroutines, TimeoutCalled(g, c)
         PROVE  MadeInv' /\ EveryAttemptMade'
    <2>1. /\ pc[g] = "call" /\ g # c /\ UNCHANGED <<val, tries, begun>>
          /\ \A k \in Goroutines :
                /\ pc'[k] = IF k = g THEN "select" ELSE IF k = c THEN "call" ELSE pc[k]
                /\ at'[k] = IF k = c THEN at[g] + 1 ELSE at[k]
                /\ entry'[k] = IF k = c THEN at[g] + 1 ELSE entry[k]
                /\ k # c => done'[k] = done[k]
      BY <1>10, <1>t DEF TimeoutCalled, Calling, InnerTo, history
    <2>2. \A k \in Goroutines : k # g /\ k # c => Made(k)'
      BY <1>o, <2>1
    <2>3. Made(g)'
      BY <2>1 DEF Made, Inwards, Exhausted
    <2>4. Made(c)'
      <3>1. at'[c] = at[g] + 1 /\ entry'[c] = at[g] + 1 /\ pc'[c] = "call"
        BY <2>1
      <3>2. \A p \in Retries : ~Inside(c, p)'
        BY <1>n, <3>1 DEF Inside
      <3> QED
        BY <1>g, <3>1, <3>2 DEF Made, Exhausted
    <2> QED
      BY <1>q, <2>2, <2>3, <2>4
  <1>11. CASE ExecuteReturns \/ \E g \in Goroutines : ChildSends(g)
    <2>1. PICK g \in Goroutines : (g = Caller /\ ExecuteReturns) \/ ChildSends(g)
      BY <1>11
    <2>2. begun' = begun /\ pc'[g] = "exited" /\ UNCHANGED val
      BY <1>t, <2>1 DEF ExecuteReturns, ChildSends, history
    <2> QED
      BY <1>s, <2>1, <2>2, MostShrink DEF Exhausted
  <1>12. ASSUME NEW g \in Goroutines, SelectAnswer(g) \/ SelectDone(g)
         PROVE  MadeInv' /\ EveryAttemptMade'
    <2>1. /\ begun' = begun /\ pc[g] = "select" /\ UNCHANGED at
          /\ \A k \in Goroutines : k # g => val'[k] = val[k]
      BY <1>12, <1>t DEF SelectAnswer, SelectDone, Returns, history
    <2>2. at[g] \in Positions /\ chain[at[g]] = "timeout"
      BY <2>1 DEF TypeInv, SelectsInTimeout
    <2>3. \A p \in Retries : ~Inside(g, p)
      BY <2>1, <2>2 DEF TimeoutPerAttempt, Inside, Retries
    <2>4. ~Exhausted(g)'
      BY <1>g, <2>1, <2>2 DEF Exhausted, Retries
    <2> QED
      BY <1>12, <1>s, <2>1, <2>3, <2>4, MostShrink
  <1> QED
    BY <1>1, <1>2, <1>3, <1>4, <1>5, <1>6, <1>7, <1>8, <1>9, <1>10, <1>11, <1>12 DEF Next, Step

\* Unless a timeout makes goroutines of its attempts, RetryMiddleware reports failure on a live
\* context only when it has made all of them, whatever is around and inside it, other retries too.
THEOREM EveryAttemptMadeCorrect == Spec => []EveryAttemptMade
  <1>1. Init => TypeInv /\ PathsInv /\ MadeInv /\ EveryAttemptMade
    <2>1. Init => EveryAttemptMade
      BY DEF Init, EveryAttemptMade
    <2> QED
      BY <2>1, TypeInit, CallsInit
  <1>2. TypeInv /\ PathsInv /\ MadeInv /\ EveryAttemptMade /\ [Next]_vars
           => TypeInv' /\ PathsInv' /\ MadeInv' /\ EveryAttemptMade'
    BY TypeStep, PathsStep, MadeStep
  <1> QED
    BY <1>1, <1>2, PTL DEF Spec
-----------------------------------------------------------------------------
\* What is returned, sent or answered is the outcome of some Format call, or an error.
SeenInv ==
    /\ \A g \in Goroutines : pc[g] = "return" => val[g] \in seen \cup Errors
    /\ \A g \in Goroutines : slot[g] \in seen \cup Errors \cup {None}
    /\ pc[Caller] = "exited" => val[Caller] \in seen \cup Errors

\* Every step keeps it.
LEMMA SeenStep == TypeInv /\ SeenInv /\ [Next]_vars => SeenInv'
  <1> SUFFICES ASSUME TypeInv, SeenInv, [Next]_vars PROVE SeenInv'
    OBVIOUS
  <1>t. TypeOK
    BY DEF TypeInv
  <1> USE DEF SeenInv, given, history
  <1>1. CASE Resolve \/ ExecuteReturns
    BY <1>1, <1>t, ZenonT(40) DEF Resolve, ExecuteReturns, TypeOK, Errors
  <1>2. CASE CallerCancels \/ UNCHANGED vars \/ \E g \in Goroutines : DeadlineFires(g)
    BY <1>2 DEF CallerCancels, DeadlineFires, vars
  <1>3. ASSUME NEW g \in Goroutines, FormatBegins(g) \/ RetryCalled(g) \/ RetryWakes(g)
                                     \/ RetryBacksOff(g) \/ RetrySucceeds(g)
        PROVE  SeenInv'
    BY <1>3, <1>t DEF FormatBegins, RetryCalled, RetryWakes, RetryBacksOff, RetrySucceeds,
       CallsInner, TypeOK
  <1>4. ASSUME NEW g \in Goroutines, FormatReturns(g) PROVE SeenInv'
    BY <1>4, <1>t DEF FormatReturns, Returns, TypeOK
  <1>5. ASSUME NEW g \in Goroutines, ValidationCalled(g) PROVE SeenInv'
    BY <1>5, <1>t, ZenonT(40) DEF ValidationCalled, Returns, CallsInner, TypeOK, Errors
  <1>6. ASSUME NEW g \in Goroutines, ValidationAnswered(g) \/ RetryGivesUp(g) PROVE SeenInv'
    BY <1>6, <1>t, ZenonT(40) DEF ValidationAnswered, RetryGivesUp, Answered, TypeOK, Errors
  <1>7. ASSUME NEW g \in Goroutines, NEW c \in Goroutines, TimeoutCalled(g, c) PROVE SeenInv'
    BY <1>7, <1>t DEF TimeoutCalled, TypeOK
  <1>8. ASSUME NEW g \in Goroutines, ChildSends(g) PROVE SeenInv'
    BY <1>8, <1>t DEF ChildSends, TypeOK
  <1>9. ASSUME NEW g \in Goroutines, SelectAnswer(g) \/ SelectDone(g) PROVE SeenInv'
    <2>1. PICK v \in seen \cup Errors : Returns(g, v)
      BY <1>9, <1>t DEF SelectAnswer, SelectDone, TypeInv, SelectsInTimeout, Born, Errors
    <2>2. UNCHANGED <<slot, seen>>
      BY <1>9 DEF SelectAnswer, SelectDone
    <2>3. pc[g] = "select"
      BY <1>9 DEF SelectAnswer, SelectDone
    <2> QED
      BY <1>t, <2>1, <2>2, <2>3 DEF Returns, TypeOK
  <1> QED
    BY <1>1, <1>2, <1>3, <1>4, <1>5, <1>6, <1>7, <1>8, <1>9 DEF Next, Step

\* A call that is made begins with all that it may use up.
LEMMA PromiseInit == Init => Promise!Init
  <1> SUFFICES ASSUME Init PROVE Promise!Init
    OBVIOUS
  <1>1. begun = 0 /\ late = 0 /\ seen = {} /\ pc[Caller] = "resolve" /\ TypeOK
    BY TypeInit DEF Init, TypeInv
  <1>2. Attempts \in Nat
    BY <1>1, PathsFinite, FS_CardinalityType DEF Attempts, Paths
  <1>3. Attempts \in Nat /\ LateAttempts \in Nat
    BY <1>2 DEF LateAttempts
  <1>4. {g \in Goroutines : pc[g] = "format"} = {}
    BY DEF Init
  <1> QED
    <2>1. Cardinality({g \in Goroutines : pc[g] = "format"}) = 0
      BY <1>4, FS_EmptySet
    <2>2. Attempts - begun \in Nat /\ LateAttempts - late \in Nat
      BY <1>1, <1>3
    <2> QED
      BY <1>1, <2>1, <2>2 DEF Promise!Init

\* Every step begins, ends or answers as the abstract call may, or changes nothing of it.
LEMMA PromiseStep ==
    ASSUME TypeInv, LineageInv, PathsInv, LateInv, SeenInv, [Next]_vars
    PROVE  [Promise!Next]_Promise!vars
  <1> USE DEF Formatting
  <1>t. TypeOK /\ pc \in [Goroutines -> PCs]
    BY DEF TypeInv, TypeOK
  <1>g. Attempts' = Attempts /\ LateAttempts' = LateAttempts
    BY GivenStays DEF LateAttempts
  <1>c. IsFiniteSet(Formatting) /\ Cardinality(Formatting) \in Nat
    BY FS_CardinalityType DEF PathsInv
  <1> DEFINE Quiet == /\ UNCHANGED <<begun, late, seen>> /\ Formatting' = Formatting
                      /\ pc'[Caller] = "exited" <=> pc[Caller] = "exited"
                      /\ pc[Caller] = "exited" => val'[Caller] = val[Caller]
  <1>q. Quiet => UNCHANGED Promise!vars
    BY <1>g DEF Promise!vars
  <1>1. CASE CallerCancels \/ UNCHANGED vars \/ \E g \in Goroutines : DeadlineFires(g)
    <2>1. Quiet
      BY <1>1 DEF CallerCancels, DeadlineFires, vars, history
    <2> QED
      BY <1>q, <2>1
  <1>2. ASSUME NEW g \in Goroutines, NEW to \in PCs \ {"unborn", "format", "exited"},
               pc[g] \in PCs \ {"format", "exited"}, pc' = [pc EXCEPT ![g] = to],
               \A h \in Goroutines : h # g => val'[h] = val[h], UNCHANGED <<begun, late, seen>>
        PROVE  Quiet
    <2>1. \A h \in Goroutines : pc'[h] = IF h = g THEN to ELSE pc[h]
      BY <1>2, <1>t
    <2>2. Formatting' = Formatting
      BY <1>2, <2>1
    <2> QED
      BY <1>2, <2>1, <2>2
  <1>3. ASSUME NEW g \in Goroutines,
               \/ ValidationCalled(g) \/ ValidationAnswered(g) \/ RetryCalled(g) \/ RetryWakes(g)
               \/ RetrySucceeds(g) \/ RetryGivesUp(g) \/ RetryBacksOff(g)
        PROVE  UNCHANGED Promise!vars
    <2>1. /\ UNCHANGED <<begun, late, seen>> /\ \A h \in Goroutines : h # g => val'[h] = val[h]
          /\ pc[g] \in {"call", "return", "sleep"}
          /\ \E to \in {"call", "return", "sleep"} : pc' = [pc EXCEPT ![g] = to]
      BY <1>3, <1>t, SMTT(30) DEF ValidationCalled, ValidationAnswered, RetryCalled, RetryWakes, RetrySucceeds,
         RetryGivesUp, RetryBacksOff, Calling, Answered, CallsInner, Returns, history, TypeOK
    <2> QED
      BY <1>2, <1>q, <2>1 DEF PCs
  <1>4. ASSUME NEW g \in Goroutines, SelectAnswer(g) \/ SelectDone(g)
        PROVE  UNCHANGED Promise!vars
    <2>1. /\ UNCHANGED <<begun, late, seen>> /\ pc[g] = "select"
          /\ pc' = [pc EXCEPT ![g] = "return"] /\ \A h \in Goroutines : h # g => val'[h] = val[h]
      BY <1>4, <1>t DEF SelectAnswer, SelectDone, Returns, history, TypeOK
    <2> QED
      BY <1>2, <1>q, <2>1 DEF PCs
  <1>5. ASSUME NEW g \in Goroutines, NEW c \in Goroutines, TimeoutCalled(g, c)
        PROVE  UNCHANGED Promise!vars
    <2>1. /\ pc[g] = "call" /\ pc[c] = "unborn" /\ UNCHANGED <<begun, late, seen, val>>
          /\ pc' = [pc EXCEPT ![g] = "select", ![c] = "call"]
      BY <1>5 DEF TimeoutCalled, Calling, history
    <2>2. \A h \in Goroutines : pc'[h] = IF h = c THEN "call" ELSE IF h = g THEN "select" ELSE pc[h]
      BY <1>t, <2>1
    <2>3. \A h \in Goroutines : \A s \in {"format", "exited"} : pc'[h] = s <=> pc[h] = s
      <3> SUFFICES ASSUME NEW h \in Goroutines, NEW s \in {"format", "exited"}
                   PROVE  pc'[h] = s <=> pc[h] = s
        OBVIOUS
      <3>1. CASE h \in {g, c}
        <4>1. pc'[h] \in {"call", "select"} /\ pc[h] \in {"call", "unborn"}
          BY <2>1, <2>2, <3>1, Zenon
        <4>2. s # "call" /\ s # "select" /\ s # "unborn"
          OBVIOUS
        <4> QED
          BY <4>1, <4>2
      <3>2. CASE h \notin {g, c}
        BY <2>2, <3>2
      <3> QED
        BY <3>1, <3>2
    <2>4. Formatting' = Formatting
      BY <2>3
    <2> QED
      BY <1>q, <2>1, <2>3, <2>4
  <1>6. ASSUME NEW g \in Goroutines, ChildSends(g) PROVE UNCHANGED Promise!vars
    <2>1. /\ g # Caller /\ pc[g] = "return" /\ UNCHANGED <<begun, late, seen, val>>
          /\ pc' = [pc EXCEPT ![g] = "exited"]
      BY <1>6 DEF ChildSends, history
    <2>2. \A h \in Goroutines : pc'[h] = IF h = g THEN "exited" ELSE pc[h]
      BY <1>t, <2>1
    <2>3. Formatting' = Formatting
      BY <2>1, <2>2
    <2> QED
      BY <1>q, <2>1, <2>2, <2>3
  <1>7. CASE Resolve
    <2>1. CASE pc' = [pc EXCEPT ![Caller] = "call"] /\ UNCHANGED val
      BY <1>2, <1>7, <1>q, <2>1 DEF Resolve, PCs, history
    <2>2. CASE pc' = [pc EXCEPT ![Caller] = "exited"] /\ val' = [val EXCEPT ![Caller] = "unresolved"]
      <3>1. /\ UNCHANGED <<begun, late, seen>> /\ pc[Caller] = "resolve"
            /\ val'[Caller] = "unresolved"
            /\ \A h \in Goroutines : pc'[h] = IF h = Caller THEN "exited" ELSE pc[h]
        BY <1>7, <1>t, <2>2 DEF Resolve, history, TypeOK
      <3>2. Formatting' = Formatting
        BY <3>1
      <3>3. Promise!Answer("unresolved")
        BY <1>g, <3>1, <3>2 DEF Promise!Answer, Errors
      <3> QED
        BY <3>3 DEF Promise!Next, Errors
    <2> QED
      BY <1>7, <2>1, <2>2 DEF Resolve
  <1>8. CASE ExecuteReturns
    <2>1. /\ UNCHANGED <<begun, late, seen, val>> /\ pc[Caller] = "return"
          /\ \A h \in Goroutines : pc'[h] = IF h = Caller THEN "exited" ELSE pc[h]
      BY <1>8, <1>t DEF ExecuteReturns, history
    <2>2. Formatting' = Formatting
      BY <2>1
    <2>3. val[Caller] \in seen \cup Errors
      BY <2>1 DEF SeenInv
    <2>4. Promise!Answer(val[Caller])
      BY <1>g, <2>1, <2>2, <2>3 DEF Promise!Answer
    <2>5. seen \subseteq Outcomes
      BY <1>t DEF TypeOK
    <2> QED
      BY <2>3, <2>4, <2>5 DEF Promise!Next
  <1>9. ASSUME NEW g \in Goroutines, FormatReturns(g) PROVE Promise!Next
    <2>1. PICK v \in Outcomes : Returns(g, v) /\ seen' = seen \cup {v}
      BY <1>9 DEF FormatReturns
    <2>2. /\ UNCHANGED <<begun, late>> /\ pc[g] = "format"
          /\ \A h \in Goroutines : pc'[h] = IF h = g THEN "return" ELSE pc[h]
          /\ \A h \in Goroutines : h # g => val'[h] = val[h]
      BY <1>9, <1>t, <2>1 DEF FormatReturns, Returns, TypeOK
    <2>3. Formatting' = Formatting \ {g} /\ g \in Formatting
      BY <2>2
    <2>4. Cardinality(Formatting') = Cardinality(Formatting) - 1 /\ Cardinality(Formatting) > 0
      <3>1. Cardinality(Formatting') = Cardinality(Formatting) - 1 /\ Formatting # {}
        <4> HIDE DEF Formatting
        <4> QED
          BY <1>c, <2>3, FS_RemoveElement
      <3> QED
        BY <1>c, <3>1, FS_EmptySet
    <2>5. Promise!End(v)
      BY <1>g, <2>1, <2>2, <2>4 DEF Promise!End
    <2> QED
      BY <2>5 DEF Promise!Next
  <1>10. ASSUME NEW g \in Goroutines, FormatBegins(g) PROVE Promise!Next
    <2>1. /\ pc[g] = "call" /\ at[g] = Len(chain) + 1 /\ begun' = begun + 1
          /\ late' = (IF done[g] THEN late + 1 ELSE late) /\ UNCHANGED <<seen, val>>
          /\ \A h \in Goroutines : pc'[h] = IF h = g THEN "format" ELSE pc[h]
      BY <1>10, <1>t DEF FormatBegins
    <2>2. Formatting' = Formatting \cup {g} /\ g \notin Formatting
      BY <2>1
    <2>3. Cardinality(Formatting') = Cardinality(Formatting) + 1
      BY <1>c, <2>2, FS_AddElement
    <2>r. begun \in Nat /\ late \in Nat /\ Attempts \in Nat
      <3>1. IsFiniteSet(Paths)
        BY <1>t, PathsFinite
      <3> QED
        BY <1>t, <3>1, Ranges, FS_CardinalityType DEF Attempts, Paths
    <2>4. begun < Attempts
      BY <1>10, FormatPaths
    <2>5. late < LateAttempts
      <3>1. CASE TimeoutPerAttempt
        <4>1. late <= begun
          BY <1>t, Ranges
        <4> QED
          BY <2>4, <2>r, <3>1, <4>1 DEF LateAttempts
      <3>2. CASE ~TimeoutPerAttempt
        <4>1. Lively(g) /\ Inwards(g)
          BY <2>1 DEF Lively, Inwards
        <4>2. late <= 1 /\ late # 1
          BY <3>2, <4>1 DEF LateInv
        <4> QED
          BY <2>r, <3>2, <4>2 DEF LateAttempts
      <3> QED
        BY <3>1, <3>2
    <2>6. /\ pc[Caller] = "exited" => done[g]
          /\ pc'[Caller] = "exited" <=> pc[Caller] = "exited"
      BY <2>1 DEF LineageInv, Born, Unclosed
    <2>7. done[g] \in BOOLEAN
      BY <1>t DEF TypeOK
    <2>8. /\ Attempts - begun > 0 /\ Attempts' - begun' = (Attempts - begun) - 1
          /\ LateAttempts - late > 0
          /\ IF done[g] THEN LateAttempts' - late' = (LateAttempts - late) - 1
                        ELSE LateAttempts' - late' = LateAttempts - late
      <3>1. LateAttempts \in Int /\ Attempts \in Int
        BY <2>r DEF LateAttempts
      <3> QED
        BY <1>g, <2>1, <2>4, <2>5, <2>r, <3>1
    <2>9. Promise!Begin(done[g])
      BY <2>1, <2>3, <2>6, <2>8 DEF Promise!Begin
    <2> QED
      BY <2>7, <2>9 DEF Promise!Next
  <1> QED
    BY <1>1, <1>3, <1>4, <1>5, <1>6, <1>7, <1>8, <1>9, <1>10 DEF Next, Step

\* For every chain and every limit, however many goroutines there are and whatever Format does:
\* Execute makes no more Format calls than its retries have attempts, all of them multiplied, at most
\* one after a cancellation (unless a timeout makes a goroutine of every attempt), none on a live
\* context after its answer, and answers with nothing that Format has not returned.
THEOREM KeepsPromiseCorrect == Spec => KeepsPromise
  <1>1. Init => TypeInv /\ LineageInv /\ PathsInv /\ LateInv /\ SeenInv /\ Promise!Init
    <2>1. Init => SeenInv
      BY DEF Init, SeenInv
    <2> QED
      BY <2>1, TypeInit, LineageInit, CallsInit, PromiseInit
  <1>2. TypeInv /\ LineageInv /\ PathsInv /\ LateInv /\ SeenInv /\ [Next]_vars
        => /\ TypeInv' /\ LineageInv' /\ PathsInv' /\ LateInv' /\ SeenInv'
           /\ [Promise!Next]_Promise!vars
    BY TypeStep, LineageStep, PathsStep, LateStep, SeenStep, PromiseStep
  <1> QED
    BY <1>1, <1>2, PTL DEF Spec, KeepsPromise, Promise!Spec
=============================================================================
