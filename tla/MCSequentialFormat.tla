-------------------------- MODULE MCSequentialFormat --------------------------
(* Instances of SequentialFormat for TLC. *)
EXTENDS SequentialFormat

CONSTANT a   \* a line that is not blank

\* A line, the same with a final newline or a second line, and nothing.
MCTexts == {<<a>>, <<a, Blank>>, <<a, a>>, <<Blank>>}

Plan(p, k, t) == [api |-> p, kinds |-> k, timeout |-> t]

\* Pipelines without a step, of one and of both kinds in either order, and the two batches;
\* services with a timeout of their own and with none given.
MCPlans == {Plan("Pipeline", <<>>, 0),
            Plan("Pipeline", <<"native", "service">>, 0),
            Plan("Pipeline", <<"service", "native">>, 0),
            Plan("NativeBatch", <<"native", "native">>, 0),
            Plan("ServiceBatch", <<"service", "service">>, 0),
            Plan("ServiceBatch", <<"service">>, 5)}
=============================================================================
