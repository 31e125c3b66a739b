------------------------------ MODULE FormatCall ------------------------------
(***************************************************************************)
(* What one Executor.Execute call promises about the Format calls it makes *)
(* (pkg/executor/executor.go), whatever the middlewares around them: at    *)
(* most so many calls begin, at most so many of them begin on a context    *)
(* that is already done, the call is answered once, and a result it is     *)
(* answered with is one that a Format call has returned.  It does not      *)
(* promise that no Format call is running when the answer is given.        *)
(***************************************************************************)
EXTENDS Integers

CONSTANTS Outcomes,   \* what a Format call can return
          Failures    \* errors the chain itself can answer with

VARIABLES
    left,       \* Format calls that may still begin
    lateLeft,   \* of these, calls that may still begin on a context already done
    running,    \* Format calls begun and not returned
    seen,       \* outcomes returned so far
    reply       \* the answers given: none, or one

vars == <<left, lateLeft, running, seen, reply>>

Init == left \in Nat /\ lateLeft \in Nat /\ running = 0 /\ seen = {} /\ reply = {}

\* A Format call begins; once the caller has its answer, only on a context that is done.
Begin(isLate) ==
    /\ left > 0 /\ left' = left - 1
    /\ IF isLate THEN lateLeft > 0 /\ lateLeft' = lateLeft - 1
                 ELSE reply = {} /\ lateLeft' = lateLeft
    /\ running' = running + 1
    /\ UNCHANGED <<seen, reply>>

End(v) ==
    /\ running > 0 /\ running' = running - 1
    /\ seen' = seen \cup {v}
    /\ UNCHANGED <<left, lateLeft, reply>>

Answer(v) ==
    /\ reply = {}
    /\ v \in seen \cup Failures
    /\ reply' = {v}
    /\ UNCHANGED <<left, lateLeft, running, seen>>

Next == \/ \E isLate \in BOOLEAN : Begin(isLate)
        \/ \E v \in Outcomes : End(v)
        \/ \E v \in Outcomes \cup Failures : Answer(v)

Spec == Init /\ [][Next]_vars
=============================================================================
