----------------------------- MODULE RequestCache -----------------------------
(***************************************************************************)
(* The cache as its clients use it: with requests, whose key cacheKey      *)
(* (pkg/cache/cache.go) derives.  The three fields are written to one hash *)
(* one after the other, so the key is as good as their concatenation; the  *)
(* hash is taken to tell different byte strings apart.  A field is the     *)
(* sequence of its characters, since where one field ends is all that      *)
(* matters here.                                                           *)
(***************************************************************************)
EXTENDS InMemoryCache, Sequences

CONSTANT Requests     \* records of content, language and filePath

VARIABLES
    asked,   \* the request of the last Get
    idle     \* history: clock units since an entry was last set or hit; 0 where there is none

\* Keys is to hold the keys of all Requests, and Results the requests themselves.
cacheKey(req) == req.content \o req.language \o req.filePath

rvars == <<vars, asked, idle>>

RInit == Init /\ asked = None /\ idle = [k \in Keys |-> 0]

\* The entries of the keys in Used are used now.
Use(Used) == idle' = [k \in Keys |-> IF k \in Used \/ result'[k] = None THEN 0 ELSE idle[k]]

\* The result of a request is identified with the request it was computed for.
GetFor(q) ==
    /\ Get(cacheKey(q)) /\ asked' = q
    /\ Use(IF answer'[2] # None THEN {cacheKey(q)} ELSE {})
SetFor(q) == Set(cacheKey(q), q) /\ Use({cacheKey(q)}) /\ UNCHANGED asked
InvalidateFor(q) == Invalidate(cacheKey(q)) /\ Use({}) /\ UNCHANGED asked

\* The clock, for the use of an entry as for its age.
RTimePasses ==
    /\ TimePasses /\ UNCHANGED asked
    /\ idle' = [k \in Keys |-> IF k \in Stored /\ idle[k] <= TTL THEN idle[k] + 1 ELSE idle[k]]

RNext ==
    \/ \E q \in Requests : GetFor(q) \/ SetFor(q) \/ InvalidateFor(q)
    \/ RTimePasses
    \/ (Clear \/ TickerFires \/ LoopTakesTick \/ LoopExits \/ Cleanup \/ Stop)
       /\ Use({}) /\ UNCHANGED asked

RSpec == RInit /\ [][RNext]_rvars

\* The documents' words (docs/ARCHITECTURE.md:159): the key ensures that the same content
\* with different languages or file paths has different entries, so that a hit is always
\* the result of the request it is returned for.
HitIsForTheRequest ==
    (answer # None /\ answer[2] # None) => answer[2] = asked

\* The documents' words (README.md:37-38): "TTL + size-bounded LRU".  The entry that makes room
\* for another one is the least recently used: no entry that is still live has been left alone for longer.
EvictsLeastRecentlyUsed ==
    [][\A q \in Requests : SetFor(q) =>
          \A gone \in Stored \ Stored', j \in Stored \ Expired : idle[j] <= idle[gone]]_rvars
=============================================================================
