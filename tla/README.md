# Formatters: a TLA+ verification project

This directory models the Go module `digital.vasic.formatters` (`src/`), checks the models
with TLC and proves theorems about them with TLAPS.  The module is a library: it
wraps code formatters (child processes, HTTP services) behind one interface, registers them,
runs them through a chain of middlewares with timeouts and retries, in batches and pipelines,
and caches their results.

## 1. The system

| Component (code) | State it keeps | Operations | Talks to |
|---|---|---|---|
| Middleware chain (`pkg/executor`) | the list of middlewares; per call: goroutines, contexts, channels, attempt counters | `Execute`, `Use`, `buildChain`, `TimeoutMiddleware`, `RetryMiddleware`, `ValidationMiddleware` | registry (lookup), formatter (call) |
| Batches (`pkg/executor`) | per call: results, first error, semaphore, wait group, result channel | `ExecuteBatch`, `BatchFormat` | the chain, once per request |
| Pipeline (`pkg/executor`) | the list of formatters; per call: the current text and result | `Pipeline.Execute` | formatters, one after another |
| Result cache (`pkg/cache`) | a map of results with timestamps, a lock, a ticker, a stop channel | `Get`, `Set`, `Invalidate`, `Clear`, `Size`, `Stop`, the cleanup goroutine | its users, the clock |
| Formatter registry (`pkg/registry`) | maps name → formatter, language → slice of formatters, name → metadata; a reader-writer lock | `Register`, `RegisterWithMetadata`, `Remove`, `Get`, `GetByLanguage`, `DetectFormatter`, `HealthCheckAll`, listings | formatters (health checks) |
| Native formatter (`pkg/native`) | immutable configuration; per call: a child process | `Format`, `FormatBatch`, `HealthCheck` | `os/exec` |
| Service formatter (`pkg/service`) | immutable configuration, an HTTP client; per call: an exchange | `Format`, `FormatBatch`, `HealthCheck` | `net/http` |
| Parser registry (`pkg/textformat`) | maps format → parser and format → factory; no lock | `Register`, `RegisterLazy`, `GetParser`, `HasParser`, `Clear` | factories (callbacks) |
| Format registry (`pkg/textformat`) | a slice of formats, no lock | `Register`, `RegisterAll`, `Clear`, lookups by ID, extension, file name and content, some of which return pointers into the slice | the parser registry, through its users |
| Formatter types (`pkg/formatter`) | none | types and getters | none |
| Challenge runner (`challenges/runner`, `challenges/formatters_describe_challenge.sh`) | results and counters of a run; the gate's counters | eight checks, `record`, the exit codes; ten runs of the gate | all of the above |

What is hard in each, and what makes it correct:

- **Middleware chain.**  The deadline and the answer race in a select; a call that was given
  up goes on in a goroutine nobody waits for; a cancellation may fall into a back-off sleep;
  middlewares may be added in any order and more than once.  Correct means: the caller gets one
  answer and gets it in time, all attempts are made and no more, abandoned work is told to
  stop and does end, nothing unvalidated gets through.
- **Batches.**  Answers come in any order; requests hang; slots of the semaphore are held.
  Correct means: every answer is filed under its request, the right error is reported, the
  limit holds, and requests that hang do not stop the others.
- **Pipeline, native and service formatters.**  Each kind reports failure in its own way (a
  native one as a result without an error, a service as both).  Processes that a child
  leaves behind survive its kill and hold its pipe open; services do not answer.  Correct means: success is that
  of every step, each request of a batch has its own answer, and a call ends.
- **Cache.**  The sweeper runs between any two operations of the clients, and late.  Correct
  means: to its users it is a map with an exact time to live and an eviction that takes the
  entry stored first, and only when the map is full of live entries.
- **Formatter registry.**  Slices are shared with readers and shifted in place; two critical
  sections make one registration with metadata, and a formatter may be removed, and registered again,
  between them; one lock is held over all health checks.
  Correct means: the index is the order of registration, lookups see registered formatters, metadata is
  that of the registered formatter unless a removal came between, and nobody waits for ever while
  health checks answer.
- **Parser registry.**  A factory runs between the look at the maps and their change, and
  may use the registry itself; a format without a parser is given another's that accepts it.
  Correct means: one parser under each ID, and none lost.
- **Format registry.**  Lookups hand out pointers into a slice that grows and is cleared; formats
  claim the same extension in several spellings.  Correct means: a pointer goes on showing its
  format, and one kind of file keeps its format, and its parser from the moment that the format has one.
- **Challenge runner.**  A check that fails must not hide the others, a run under a mutation must
  fail for the mutation's sake, and three outcomes share one exit code each.  Correct means: the
  gate passes exactly a library without the faults its checks are for.

`PROJECT.json` lists these hazards line by line, with the properties aimed at each.

## 2. The modules

```
FormatCall  <== refines == MiddlewareChain --- MiddlewareChainProofs
     \.. (the view of Execute) .. BatchFormat --- BatchFormatProofs
TTLStore    <== refines == InMemoryCache   --- InMemoryCacheProofs
                               \-- RequestCache  (InMemoryCache with keys derived from requests)
FormatRegistry --\
                  TextFormats --- TextFormatsProofs  (detect a file's format, then get its parser)
ParserRegistry --/
FormatterRegistry --- FormatterRegistryProofs
HealthChecks      --- HealthChecksProofs
SequentialFormat  --- SequentialFormatProofs
ChallengeRunner   --- ChallengeRunnerProofs
```

Each of them but the abstract ones has an `MC...` module with the instances for TLC.

**`MiddlewareChain`** is one `Execute` call.  `chain` is the middleware slice.  A goroutine
runs a contiguous part of it, from `entry` inwards; `at` is the frame it is in, `pc` whether it
is being called or is returning `val`.  `TimeoutCalled` starts a child goroutine with a context
of its own, `lineage` says from which contexts it derives, and `Expired` propagates a
cancellation the way `context` does.  `SelectAnswer` and `SelectDone` are the two branches of
the select; where both are ready both are enabled.  `ChildSends` puts the answer into a channel
of capacity one.  `RetryBacksOff` and `RetryWakes` are the two ends of `time.Sleep`: the error
of the context is looked at in the first and not in the second.

**`FormatCall`** is what `Execute` promises of the Format calls it makes: at most
`1 + maxRetries` (the product over the retries of the chain, if it has several), at most one of
them on a context that was done (one per attempt if a timeout stands inside a retry), one answer,
and no result that some Format call has not returned.

**`BatchFormat`** has both batch calls.  A worker goes through `acquire`, `execute`, `report`,
`release` and `finish`, which are the acquisition of the semaphore, the Execute call, the
critical section (or the send) and the deferred calls in their order.  `Execute` is seen from
outside: it returns once, or never.

**`InMemoryCache`** is the cache with its cleanup goroutine.  Every method is one action as it
holds the lock throughout.  `TimePasses` ages every entry, `TickerFires` fills the ticker's
one-element channel, or drops the tick, and `LoopTakesTick`, `Cleanup` and `LoopExits` are the
steps of the goroutine.  An age stops at `TTL + 1`: all older entries are alike to the code but
for eviction, which in the model may pick any of them.
**`TTLStore`** is the abstract store.  The refinement maps an expired entry, still in the
map, to no entry: a sweep is then a stutter, and the passing of time that makes an entry expire
removes it.
**`RequestCache`** puts `cacheKey` in front: a key is the concatenation of what is hashed, and
the hash is taken to be injective.  `idle` records how long ago each entry was last used.

**`FormatterRegistry`** keeps Go slices as a length and the cells of a backing array; `append`
writes in place while there is room, `Remove` shifts in place.  A writer is two steps
(`RegisterBegins`/`RegisterEnds`, `RemoveBegins`/`RemoveEnds`): inside its critical section it
writes cells that a reader without the lock may be reading.  `GetByLanguage` hands the slice
out, `ReadFirst` is Execute's look at its first element.  `RegisterWithMetadata` is a writer and then
`StoreMetadata`, a critical section of its own: each of the `Callers` may have one of its calls
between the two (`pending`), while any other goroutine removes and registers, also the same
formatter.  `overtaken` and `filed` record which of them a removal of the name came before, and whose
metadata was stored last.  `kept` is the array a reader
is left with after an append has replaced it.

**`HealthChecks`** is `HealthCheckAll` on the registry's `sync.RWMutex`: a waiting writer keeps
new readers out (`outside`) and lets them in when it leaves.  One goroutine per formatter takes
a slot, checks, stores its result under a mutex and gives the slot back.

**`SequentialFormat`** has the loops that call formatters one after another, and below them the
two kinds of Format.  `child`, `output` and `held` are the child process, what it has written,
and whether some process it left behind holds the pipe; `cmd.Run` returns when the child has
ended and the pipe is closed.  A text is its sequence of lines, so that `computeLineChanges`
is the function of the code.  `ExchangeFails` is the doing of the service and the network,
`ExchangeIsEnded` that of the context and of the HTTP client's `Timeout`.

**`FormatRegistry`** keeps the slice as its elements and its capacity, and of the pointers that
lookups hand out the last one: where it points, what it shows, and whether the array it points into
is still the slice's.  Spellings of extensions are model values with a lower-case and a dotted
form.
**`ParserRegistry`** keeps for each caller the stack of factories that are running, each with
the formats it has still to look up.  `GetParserFallsBack` is the loop at the end of `GetParser`: any
of the parsers that accept the format, as the order of a Go map is.
**`TextFormats`** has both, and `Open`: `DetectByFilename`, then `GetParser` for what it gave.  `given`
records, for each extension, the format and the parser that its last file went to, substitutes included.

**`ChallengeRunner`** is the self-test and its gate.  The library under test is a set of faults,
a check the list of what it asks for, in the code's order; `Verdicts` turns that list into the
results that `record` stores.  `RunnerStarts`, `RunsCheck` and `RunnerExits` are a run,
`GateJudges` and `GateExits` the script around ten of them.  `Unseen` names the two faults that no
check looks for.

Abstractions that all of them share: durations are not measured (a timer that runs may fire at
any time), texts are model values or short sequences of lines, and wording, metrics, logging and
metadata are left out.  `context`, `os/exec`, `net/http`, `time` and user-supplied formatters
are external and modelled by what the code relies on; the map marks them.

## 3. The runs

| Run | Distinct states | What it shows |
|---|---|---|
| `chain` | 89 623 | Eight chains, both polarities of clamping, any outcome of Format at any time or never, a caller that cancels: nothing runs on a live context after the answer, every attempt is made, the deadline bounds the call, no goroutine leaks, and the call keeps `FormatCall`. |
| `chain_late_attempt` | (violation) | An attempt begins on a context that was cancelled during the back-off. |
| `batch` | 6 554 | Three requests, one or two of which may hang; no limit given, a negative one, or two slots: reports, errors, limit, termination, isolation. |
| `cache` | 14 600 | Three keys, two results, room for none or two: the cache implements `TTLStore`, sweeps, stops, and keeps its size. |
| `cache_key` | (violation) | Two requests share a key. |
| `cache_lru` | (violation) | The entry that is evicted was used after one that stays. |
| `registry` | 721 104 | Three formatters under two names and two languages in several spellings, one of them declared twice, beside one reader and two callers of `RegisterWithMetadata`: the index and the maps agree; lookups find what was registered; metadata is the registered formatter's but for what an overtaken call leaves. |
| `registry_race` | (violation) | An unlocked read of a cell being shifted. |
| `sequential` | 16 880 | Pipelines of zero and two steps, of both kinds and in both orders, and both batches, with a Timeout configured or not: success, Changed, the count of lines, and when calls end. |
| `health_checks` | 69 616 | Two monitors, a lookup and two writers on two formatters and one slot; a check may hang. |
| `parsers` | 374 070 | Three formats, two of which claim one extension, appended and cleared; three parsers, one built from the other two, four registrations and Clear; files detected and parsed in between, also by the parsers of other formats: pointers keep their format, extensions their format and its parser, IDs their only parser. |
| `challenge` | 41 418 | The gate on every library with up to two faults of eighteen, and with one fault and a stale mutation; every run by hand, with locales and mutations that exist or not. |

**Bounds, and why they are enough.**  Chains have at most three middlewares, which has every
order of two kinds, a timeout inside a retry inside a timeout, and a retry inside a retry, in its
goroutine and in another; four goroutines are all
that such chains can start with a limit of one.  A limit of one shows every transition of the loop
(first, last, failing, cancelled), and a negative limit the clamp; the upper clamp of 30 is covered by
the proofs only.  Three requests and two slots are the smallest batch with a
queue.  Three keys for two entries are the smallest cache that must choose; a TTL of one unit has
entries that are new, old but live, and expired.  The two `cache_` runs have four requests with three
keys between them, two of one key and two of their own.  Two spellings of a language in one formatter, and two
formatters of one language, are what `Remove`'s loop can go wrong on.  Two callers are the fewest of
which one can be overtaken by the other's registration of the name; they are interchangeable, which
the runs use as a symmetry (the properties of these runs are invariants).
One health-check slot for two formatters makes the limit bite; a second monitor and a second writer
make queues on the lock.  The second step of a pipeline is the first that has a
predecessor, and a text longer than another by a blank line and by another line are the
cases of `computeLineChanges`.  `MaxRegistrations` and `MaxFormats` are the only bounds that stop
anything: four registrations fill the parser registry with one to spare after a `Clear`; a slice of two
formats has an append in place, one that moves the slice, and two formats of one extension.
Two faults of the library at a time are the fewest that can hide each other from a check; every fault is
tried with every other.

**Deadlock** is not checked where a call or a program is modelled that ends (`chain`, `batch`,
`sequential`, `challenge`), nor in `health_checks`, where a hanging check and a waiting writer stop the registry for good:
`HealthCheckAll` holds the read lock, the writer waits for it, and every later reader waits for the
writer.  That is what the code does; the liveness properties there are about checks that answer.

**Fairness.**  A goroutine that can run is run (weak fairness on its own steps), a timer that has
been started fires, and `os/exec`'s kill is delivered.  A goroutine waiting for room in a channel
is served in its turn, as the runtime queues them (strong fairness, in `BatchFormat`).  In
`HealthChecks` a writer that waits keeps new readers out, as `sync.RWMutex` documents, so weak
fairness suffices.  Nothing is assumed of what is external: Format, child processes, those they
leave behind, services and callers may stop at any time.  `NoGoroutineLeak` states its
assumption that Format returns in the property, and the properties of `HealthChecks` theirs.

## 4. Where documents and code part

- `docs/USER_GUIDE.md:413` and `docs/API_REFERENCE.md:652` say that `RetryMiddleware` respects
  cancellation; the sleep is not interrupted, and one attempt may follow it (`chain_late_attempt`).
  `FormatCall` has the promise that is kept: at most one.
- `docs/ARCHITECTURE.md:159` says that language and path make different cache entries; without
  separators some pairs make the same one (`cache_key`).
- `docs/ARCHITECTURE.md:10` says that all shared state is protected by mutexes: the slice that
  `GetByLanguage` returns is not (`registry_race`).
- `README.md:37-38` calls the cache "TTL + size-bounded LRU": a hit does not make an entry younger, and
  the one evicted is the one stored first, though it be the one used last (`cache_lru`).
  `docs/ARCHITECTURE.md:163`, `docs/USER_GUIDE.md:537` and `docs/API_REFERENCE.md:683` describe what
  the code does, and `TTLStore` states it.

Beside these, met on the way and without a run of their own:

- `challenges/runner/main.go:17` runs the self-test with `-lang=all`, which is also the default
  (598); `record` finds no label for that locale (173) and exits with code 2 after the first check, on a
  library without a fault too.  The model has this, and `ExitTellsTheRun` states it of every such run.
- `docs/ARCHITECTURE.md:10` holds for `RegisterWithMetadata` only half by half (`registry.go:58-64`): a
  removal between its critical sections leaves metadata of a formatter that is not registered, or
  of another than the one registered since.  The model reaches both; `MetadataOwned` says that
  nothing else does this, and how long it lasts.
- While a format has no parser of its own, `GetParser` answers with any that accepts it, as the
  order of a map has it (`textformat.go:270-274`): two files of one kind may go to two
  parsers, and when the format's own parser is registered the next goes to a third.
  `OneParserPerExtension` says what stays the same.
- `Set` with `MaxEntries` of zero or less keeps one entry: `SizeBounded`'s bound is the greater of one and
  `MaxEntries`, where the documents speak of a maximum number of entries.
- `docs/API_REFERENCE.md:573-575` describe `DefaultTimeout`, `MaxRetries` and `MaxConcurrent` of the
  executor's `Config`; no code reads it, and `ExecuteBatch` starts every request at once.
- `README.md:117` says that `Format` is "invoked exactly once (check3)"; the check fails on zero calls
  only.  `README.md:119-120` says that the steps run in order (check4); the check counts them.
- The limit of `BatchFormat` is on `Execute`: `Format` calls that a timeout has abandoned
  run beside the next ones.
- Of registered extensions `GetByExtension` compares the spelling as it is: one registered without
  its dot is never found (`textformat.go:107`).
- `ParserRegistry` and `FormatRegistry` have no lock; with two callers `ParserRegistry` makes two
  parsers of one format.

## 5. The proofs

The theorems hold for every value of the constants, from the assumptions that the models name
(a value `None` apart from those it stands beside; limits that are integers; finite sets of
keys; declared languages and formats that exist; a positive number of health checks) and
nothing else, unless one is mentioned below.  Each proof is of an inductive invariant: it holds at first, every
action keeps it, and it implies the property.

- **`TypeCorrect` (chain).**  `TypeOK` is not inductive: that a goroutine at `select` waits for
  a goroutine, and that one at `sleep` is at a retry with attempts left, must be known
  to type the steps that leave these states.  `TypeInv` adds both.
- **`AnsweredMeansCancelledCorrect`.**  The property speaks of the end of the call and is
  established by the contexts' ancestry.  `LineageInv` says: derivation is
  transitive and stays among the goroutines born, a cancelled context has cancelled all that
  derive from it, and every goroutine but the caller derives from one, not the caller, that
  is cancelled or that the caller still waits for.  When the caller leaves its select it
  cancels that one, and so everything else.
- **`ValidatedCorrect`.**  `EmptyInv` traces an empty success from the formatter outwards: one
  that is being returned at a position, or lies in a channel, has no validation between it
  and the formatter.  `BlankInv`: a request without content has a validation
  ahead of it wherever it goes.
- **`EveryAttemptMadeCorrect`, `KeepsPromiseCorrect` (chain).**  For every chain, however many
  retries it has.  A *path* names an attempt of each retry, and there are `Attempts` of them.
  `PathsInv` gives each Format call begun a path of its own, and says that the paths still open to a
  goroutine (`MayTake`: those that agree with its counters as far as it has come, and are later where
  it may go round again) are none of these and none of another goroutine's.  The caller begins with all
  of them, and no step opens one to a goroutine that had it not, but `TimeoutCalled`, which hands the paths ahead
  from the parent to the child (`TimeoutPaths`).  Most steps only go on inwards past no retry, or outwards
  (`Shrinks`); `RetryCalled` and `RetryWakes` divide a loop's paths into those of this attempt and
  those of later ones (`RetryPaths`); `FormatBegins` uses one up (`FormatPaths`).
  So the calls are no more than the paths.  Where no timeout stands inside a retry, one goroutine at
  most is yet to come to Format (`LateInv`), so that after a late call, whose context stays done, the
  loops end.  `MadeInv` says that an attempt of a loop whose context is live has come to a Format
  call, or is at one.  `SeenInv` traces every result on its way out to a Format call that
  returned it.  That no call begins on a live context after the answer is the
  `LineageInv` above.
- **`TypeCorrect`, `SizeBoundedCorrect` (cache).**  The size argument is on the cardinality of
  the domain: `Set` on a full map removes an entry first, and with a `maxEntries` of zero or
  less the one it stores is the only one.
- **`IsTTLStoreCorrect`.**  A step-by-step refinement: `Get`, `Set`, `Invalidate`, `Clear` and
  `TimePasses` are the abstract operations, all that the sweeper does is a stutter.  The case
  that needs care is `Set` on a full map: if the evicted entry had expired the abstract put
  drops nothing, and otherwise all entries are live and the oldest of the map is the oldest of the
  store.

- **`ReportsEveryRequestCorrect`, `ExecutesWithinLimitCorrect`, `TypeCorrect` (batches).**  The counters of the
  semaphore, of the wait group and of the answers received are each the cardinality of
  the set of workers in certain states (`CountInv`), so an empty wait group means that
  no worker has a slot to fill.  The channel never holds a request twice, and the requests taken
  from it are the `Filed` ones, all of them when as many have been received as were sent.
- **`ReportIsExactCorrect`, `TypeCorrect` (health checks).**  A monitor is inside the lock from its snapshot to
  its last check (`LockInv`), so `registered` is when it reports what it was at the snapshot;
  `sem` counts the checks that hold a slot (`SlotsInv`).  `Formatters` may be infinite.
- **The five of `SequentialFormat`.**  `Input(i)` is what the i-th call is to be given: a text of the
  request, or the output of the call before.  `CallsInv` says that it was.  `ZeroMeansAlike` is a fact about
  `computeLineChanges` and needs no induction over texts: a count of zero leaves no index at which
  they differ.
- **`TypeCorrect`, `IndexInOrderCorrect` (formatter registry).**  What `Register` and `Remove` do to a slice is
  a loop, here a recursive function on the turns made.  What it computes is found by induction in the
  form of a set: were the turns for which the claim fails not empty, the least of them would follow a turn
  for which it holds.  `SlicesInv` keeps every slice within its array.  For the order, the index is
  cut into the block of entries of each formatter, in the order of registration: `Register` adds a block at the end
  (`BlockAdded`), and `Remove`, which removes one entry for each language that the formatter
  declares, a language declared twice twice, takes away exactly its block (`BlockRemoved`).
- **`LookupFindsRegisteredCorrect` (formatter registry).**  A reader may keep an array after the registry has moved on to
  another, and `Remove` shifts the cells of one under the reader's eyes.  `ViewsInv` says that the array a reader
  looks at, the registry's or one left behind, shows it (`Shows`) only formatters registered for the language since
  it asked, among them one that is being registered; an element beyond the slice's end counts when
  it is the first, as it is read after a removal.
- **`MetadataOwnedCorrect` (formatter registry).**  For any number of callers: the formatter whose metadata a
  caller has still to store is registered, or the call was overtaken by a removal (`PendingInv`); what a
  writer saw when it took the lock still holds when it changes the maps (`WriterInv`).  So a call that
  was not overtaken stores the metadata of the registered formatter, whatever calls of others on
  the same name lie between its two critical sections.
- **`PointerKeepsItsFormatCorrect` (format registry).**  A pointer into the slice's present array is within the slice's
  length, and `append` writes behind it only.
- **`OneParserPerExtensionCorrect`, `TextTypeCorrect` (both registries).**  Both assume one caller, without which the
  unlocked maps race.  `GivenInv`: the format that a file was given as is the first of the slice that claims its
  extension (`FirstIs`), and stays it, as an append comes behind it; and what the file was
  given to still serves it (`Serves`): a parser of the format itself, or one that accepts it.
  Entries stay until a `Clear` (`EntriesStay`), and with one caller the parsers too
  (`ParsersStay`, by the argument of `OneParserPerFormatCorrect`), so the next lookup finds no less
  (`OpenGives`).  `CountInv`: the parsers made and the factories that are still to run are no
  more than the registrations, which bounds the parsers' identities.
- **`SupportedStaysSupportedCorrect`, `OneParserPerFormatCorrect` (parser registry).**  The first
  holds for any number of callers.  The second assumes one.  `NeedsAssumption` says that factories do not need each other
  in a circle; so there is a `Rank` that falls from each to those it looks up.  It falls along the
  stack of running factories, none of which is therefore of one format with another.
- **`GateIsExactCorrect`, `ExitTellsTheRunCorrect`, `TypeCorrect` (challenge runner).**  The run tries two
  faults at a time; the theorems have every set of them.  `Check1Fails` to `Check8Fails` reduce each
  check to the faults and the mutation it answers to.  From these follow `BaselinePasses` and
  `MutatedFails`, which say when a run of the gate finds what it should.  `NoLabelsInv` has the runs
  in a locale without labels, which end before the second check.  That two requests have one
  key is seen by no baseline: `cache_miss` has no effect then, and the gate fails at that run.  `GateInv`
  says that the gate is content so far only if each run so far was right.
- **`MinOfInterval`** (in `BatchFormatProofs` and `TextFormatsProofs`).  A non-empty set of indices has a least element, which the library defines by
  `CHOOSE`; by well-foundedness of strict inclusion on finite sets.

Every invariant of the passing runs and every action property is stated by one of these theorems.  Model-checked only is
liveness, which is out of the provers' reach: `TimeoutBoundsTheCall`, `NoGoroutineLeak`, `BatchReturns`,
`StuckAreIsolated`, `ExpiredAreSwept`, `StopEndsTheLoop`, `WritersGetIn`, `LookupsAreServed`,
`ServicesAreTimed`, `CancelEndsTheCall`.

## 6. Not modelled

`pkg/formatter` (types and getters); the listings and getters that return copies
(`GetFormatsByExtension`, `ListByType`, ...); `EscapeHTML` and `ParseOptions`; the argument lists and constructors
of the ready-made native formatters, which are data; scripts that build and grep.
`DetectLanguageFromPath` is a table, of which only the result, a spelling of
a language, matters: `GetByLanguage` is called with any.

`Use` during an `Execute` is left out: the documents show it at set-up only.
An executor with a cache is not put together in `src/`: `docs/USER_GUIDE.md:487-496` shows `Get`, `Execute` and `Set`
one after another, each of which is modelled on its own.
What the code takes for granted is taken for granted here: middlewares, formatters and factories do not
panic, Format returns a result or an error, registered metadata is not nil,
`CleanupFreq` is positive, the `Timeout` of a service is not negative, and `Stop` is called once.
No factory clears the parser registry that it is called from (`NoFactoryRuns`): the code does not
forbid it, and a parser registered under the factory's own ID after such a `Clear` would be replaced when the
factory returns.

## 7. What is left

The cached executor of the user guide: `RequestCache` around `Execute`, with results that the callers, the
cache and `Execute` (which sets `Duration`) share.
