----------------------------- MODULE MCBatchFormat -----------------------------
(* Instances of BatchFormat for TLC. *)
EXTENDS BatchFormat

Case(a, n, hung) == [api |-> a, maxConcurrent |-> n, stuck |-> hung]

\* Both calls, with and without requests that hang; BatchFormat without a limit given, and
\* with fewer slots than requests.
MCCases == {Case("ExecuteBatch", 0, {}), Case("ExecuteBatch", 0, {1}),
            Case("BatchFormat", 0, {}), Case("BatchFormat", 2, {}),
            Case("BatchFormat", 2, {1}), Case("BatchFormat", -1, {2, 3})}
=============================================================================
