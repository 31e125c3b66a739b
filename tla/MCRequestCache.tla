---------------------------- MODULE MCRequestCache ----------------------------
(* An instance of RequestCache for TLC. *)
EXTENDS RequestCache

\* One content under four pairs of language and file path: c with pp/x, cpp with /x, go and sql
\* without a path.  They have three keys, for a cache with room for two.
MCRequests == {
    [content |-> <<"t">>, language |-> <<"c">>, filePath |-> <<"p", "p", "/", "x">>],
    [content |-> <<"t">>, language |-> <<"c", "p", "p">>, filePath |-> <<"/", "x">>],
    [content |-> <<"t">>, language |-> <<"g", "o">>, filePath |-> <<>>],
    [content |-> <<"t">>, language |-> <<"s", "q", "l">>, filePath |-> <<>>]}
MCKeys == {cacheKey(q) : q \in MCRequests}
MCEntryLimits == {2}
=============================================================================
