---------------------------- MODULE MCInMemoryCache ----------------------------
(* Instances of InMemoryCache for TLC. *)
EXTENDS InMemoryCache

\* No room at all, and fewer entries than there are keys.
MCEntryLimits == {0, 2}
=============================================================================
