--------------------------- MODULE MCMiddlewareChain ---------------------------
(* Instances of MiddlewareChain for TLC. *)
EXTENDS MiddlewareChain

\* The documented order, both orders of timeout and retry, a timeout per attempt inside an
\* overall one, a retry inside a retry, with and without a goroutine between them, and chains
\* without a timeout or without a retry.
MCChains == {<<>>, <<"retry", "validation">>, <<"timeout", "retry", "validation">>,
             <<"retry", "timeout", "validation">>, <<"validation", "timeout", "retry">>,
             <<"timeout", "retry", "timeout">>, <<"retry", "validation", "retry">>,
             <<"retry", "timeout", "retry">>}
MCLimits == {-1, 1}

MCDocumented == {<<"timeout", "retry", "validation">>}
MCTwoRetries == {2}
=============================================================================
