--------------------------- MODULE MCChallengeRunner ---------------------------
(* Instances of ChallengeRunner for TLC. *)
EXTENDS ChallengeRunner, FiniteSetsExt

AllHooks == ToSet(Mutations)
AtMost(n, S) == UNION {kSubset(k, S) : k \in 0 .. n}
Case(f, h, g, r) == [faults |-> f, hooks |-> h, gate |-> g, run |-> r]

\* The gate on libraries with up to two faults, and with up to one where a mutation is stale;
\* and runs by hand in every locale, also an unknown one, with every mutation, also a misspelt
\* one.
ByHand == {Run(l, m) : l \in {"en", "sr", "all", "de"}, m \in AllHooks \cup {"typo", None}}
MCCases ==
    {Case(f, AllHooks, TRUE, Run("en", None)) : f \in AtMost(2, Faults)} \cup
    {Case(f, AllHooks \ {m}, TRUE, Run("en", None)) : f \in AtMost(1, Faults), m \in AllHooks} \cup
    {Case(f, AllHooks, FALSE, r) : f \in AtMost(1, Faults), r \in ByHand}
=============================================================================
