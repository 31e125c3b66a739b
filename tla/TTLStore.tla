------------------------------- MODULE TTLStore -------------------------------
(***************************************************************************)
(* What a user of pkg/cache may rely on: a map whose entries live for TTL  *)
(* clock units after they were put and are then gone for every reader, and *)
(* which loses nothing else, except that a put that finds capacity live    *)
(* entries may drop one that was put no later than any other, whether it   *)
(* was read since or not.                                                  *)
(***************************************************************************)
EXTENDS Integers, FiniteSets

CONSTANTS Keys, Results, TTL, None

VARIABLES
    capacity,   \* the configured number of entries
    live,       \* the result held for each key, or None
    age,        \* clock units since it was put; 0 where there is none
    answer      \* the last answer of a get: a key and a result or None

vars == <<capacity, live, age, answer>>

Held == {k \in Keys : live[k] # None}
Oldest == {k \in Held : \A j \in Held : age[j] <= age[k]}

Init == /\ capacity \in Int
        /\ live = [k \in Keys |-> None]
        /\ age = [k \in Keys |-> 0]
        /\ answer = None

Get(k) == answer' = <<k, live[k]>> /\ UNCHANGED <<capacity, live, age>>

\* The entries in Dropped are gone, and key k holds r from now on.
PutDropping(k, r, Dropped) ==
    /\ live' = [j \in Keys |-> IF j = k THEN r ELSE IF j \in Dropped THEN None ELSE live[j]]
    /\ age' = [j \in Keys |-> IF j \in Dropped \cup {k} THEN 0 ELSE age[j]]
    /\ UNCHANGED <<capacity, answer>>

Put(k, r) ==
    \/ PutDropping(k, r, {})
    \/ Cardinality(Held) >= capacity /\ \E old \in Oldest : PutDropping(k, r, {old})

Discard(Gone) ==
    /\ live' = [k \in Keys |-> IF k \in Gone THEN None ELSE live[k]]
    /\ age' = [k \in Keys |-> IF k \in Gone THEN 0 ELSE age[k]]
    /\ UNCHANGED <<capacity, answer>>

\* Time passes: every entry ages, and those past their time to live are gone.
Tick ==
    LET Expiring == {k \in Held : age[k] = TTL} IN
    /\ live' = [k \in Keys |-> IF k \in Expiring THEN None ELSE live[k]]
    /\ age' = [k \in Keys |-> IF k \in Held \ Expiring THEN age[k] + 1 ELSE 0]
    /\ UNCHANGED <<capacity, answer>>

Next == \/ \E k \in Keys : Get(k) \/ Discard({k}) \/ \E r \in Results : Put(k, r)
        \/ Discard(Keys) \/ Tick

Spec == Init /\ [][Next]_vars
=============================================================================
