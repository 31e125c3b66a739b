--------------------------- MODULE FormatterRegistry ---------------------------
(***************************************************************************)
(* The formatter registry of pkg/registry/registry.go, with the lookup     *)
(* that Executor.Execute makes in it.                                      *)
(*                                                                         *)
(* byLanguage holds Go slices.  A slice is a length and a backing array;   *)
(* append writes in place while the array has room and copies to a larger  *)
(* one when it has not; Remove shifts the elements in place.               *)
(* GetByLanguage hands out the slice itself, and Execute looks at its      *)
(* length and its first element after the read lock is released.  A reader *)
(* so shares the array with the registry until an append replaces it; from *)
(* then on the array is the reader's alone.                                *)
(*                                                                         *)
(* Reading an element while the lock's holder writes it is a data race.  A *)
(* formatter is an interface value of two words, so the read may yield the *)
(* old one, the new one, or one word of each (Torn).                       *)
(***************************************************************************)
EXTENDS Integers, Sequences, FiniteSets

CONSTANTS
    Formatters, Names, Readers,
    Callers,      \* goroutines that call RegisterWithMetadata
    NameOf,       \* f.Name()
    Spellings,    \* ways to write a language
    Lower,        \* strings.ToLower, as a function on Spellings
    Declares,     \* f.Languages(): a sequence of spellings
    None, Torn, NotFound

Languages == {Lower[s] : s \in Spellings}

ASSUME NameAssumption     == NameOf \in [Formatters -> Names]
ASSUME LowerAssumption    == Lower \in [Spellings -> Spellings]
ASSUME DeclaresAssumption == Declares \in [Formatters -> Seq(Spellings)]
ASSUME NoneAssumption     ==
    /\ {None, Torn, NotFound} \cap Formatters = {} /\ None \notin Callers
    /\ None # Torn /\ None # NotFound /\ Torn # NotFound

VARIABLES
    formatters,   \* Registry.formatters: the formatter registered under each name, or None
    byLanguage,   \* Registry.byLanguage: a slice per language
    metadata,     \* Registry.metadata: the formatter each name's metadata was given with
    writer,       \* what the holder of the write lock is about to do, or None
    pending,      \* what a caller has registered and not yet stored the metadata of, or None
    view,         \* the slice a reader got from GetByLanguage, or None
    found,        \* what the reader made of it
    order,        \* history: the registered formatters, in the order of their registration
    window,       \* history: formatters registered for the reader's language since it asked
    overtaken,    \* history: callers with a name pending that was removed meanwhile
    filed         \* history: whose metadata was stored for a name since it was last removed

vars == <<formatters, byLanguage, metadata, writer, pending, view, found, order, window,
          overtaken, filed>>
readers == <<view, found, window>>
history == <<order, overtaken, filed>>

WithoutElement(seq, x) ==     \* one of the elements is x
    LET i == CHOOSE j \in DOMAIN seq : seq[j] = x IN
    SubSeq(seq, 1, i - 1) \o SubSeq(seq, i + 1, Len(seq))

EmptySlice == [cells |-> <<>>, len |-> 0]

Init ==
    /\ formatters = [n \in Names |-> None]
    /\ byLanguage = [l \in Languages |-> EmptySlice]
    /\ metadata = [n \in Names |-> None]
    /\ writer = None /\ pending = [c \in Callers |-> None]
    /\ view = [r \in Readers |-> None]
    /\ found = [r \in Readers |-> NotFound]
    /\ order = <<>>
    /\ window = [r \in Readers |-> {}]
    /\ overtaken = {}
    /\ filed = [n \in Names |-> "nothing"]
-----------------------------------------------------------------------------
\* append(slice, f).  left is the array the append leaves behind, if it leaves one.
AppendInPlace(slice, f) ==     \* mutant: the array never grows
    [slice EXCEPT !.cells = [i \in DOMAIN @ |-> IF i = slice.len + 1 THEN f ELSE @[i]],
                  !.len = @ + 1]

AppendTo(slice, f) ==
    IF slice.len < Len(slice.cells)
    THEN [slice EXCEPT !.cells[slice.len + 1] = f, !.len = @ + 1]
    ELSE LET room == IF slice.len = 0 THEN 1 ELSE 2 * slice.len IN
         [cells |-> [i \in 1 .. room |-> IF i <= slice.len THEN slice.cells[i]
                                         ELSE IF i = slice.len + 1 THEN f ELSE None],
          len   |-> slice.len + 1,
          left  |-> IF slice.left = None THEN slice.cells ELSE slice.left]

\* Where the loop of Remove finds name n in a slice, if it does.
FoundAt(slice, n) == {i \in 1 .. slice.len : NameOf[slice.cells[i]] = n}

CutOutZeroing(slice, i) ==     \* mutant: the vacated element is cleared
    [slice EXCEPT !.cells = [j \in DOMAIN @ |-> IF j \in i .. slice.len - 1 THEN @[j + 1]
                                                ELSE IF j = slice.len THEN None ELSE @[j]],
                  !.len = @ - 1]

\* append(slice[:i], slice[i+1:]...): the elements behind i move up, in the same array.
CutOut(slice, i) ==
    [slice EXCEPT !.cells = [j \in DOMAIN @ |-> IF j \in i .. slice.len - 1
                                                THEN @[j + 1] ELSE @[j]],
                  !.len = @ - 1]

RemoveFrom(slice, n) ==
    IF FoundAt(slice, n) = {} THEN slice
    ELSE CutOut(slice, CHOOSE x \in FoundAt(slice, n) : \A y \in FoundAt(slice, n) : x <= y)

\* How often the loop over the languages that f declares comes to l.
Turns(f, l) == Cardinality({i \in DOMAIN Declares[f] : Lower[Declares[f][i]] = l})

\* The loop of Register, as far as it is about l.
WithAppended(f, l) ==
    LET after[n \in 0 .. Turns(f, l)] ==
          IF n = 0 THEN [cells |-> byLanguage[l].cells, len |-> byLanguage[l].len, left |-> None]
          ELSE AppendTo(after[n - 1], f)
    IN  after[Turns(f, l)]

WithoutAsSpelled(f, l) ==      \* mutant: no ToLower, and one removal only
    IF \E i \in DOMAIN Declares[f] : Declares[f][i] = l
    THEN RemoveFrom(byLanguage[l], NameOf[f]) ELSE byLanguage[l]

\* The loop of Remove, as far as it is about l.
Without(f, l) ==
    LET after[n \in 0 .. Turns(f, l)] ==
          IF n = 0 THEN byLanguage[l] ELSE RemoveFrom(after[n - 1], NameOf[f])
    IN  after[Turns(f, l)]

\* A reader that still shares an array the registry leaves behind keeps it.
KeepArray(v, left) ==
    IF v.kept = None /\ left # None THEN [v EXCEPT !.kept = left] ELSE v
-----------------------------------------------------------------------------
\* Register, alone (c is None) or as the first critical section of c's RegisterWithMetadata:
\* under the write lock, refused if the name is taken.
RegisterBegins(f, c) ==
    /\ writer = None /\ formatters[NameOf[f]] = None
    /\ c # None => pending[c] = None
    /\ writer' = [op |-> "register", f |-> f, by |-> c]
    /\ window' = [r \in Readers |->
                    IF view[r] # None /\ Turns(f, view[r].lang) > 0
                    THEN window[r] \cup {f} ELSE window[r]]
    /\ UNCHANGED <<formatters, byLanguage, metadata, pending, view, found, history>>

RegisterEnds ==
    /\ writer # None /\ writer.op = "register"
    /\ LET f == writer.f IN
       /\ formatters' = [formatters EXCEPT ![NameOf[f]] = f]
       /\ byLanguage' = [l \in Languages |-> [cells |-> WithAppended(f, l).cells,
                                              len   |-> WithAppended(f, l).len]]
       /\ view' = [r \in Readers |->
                     IF view[r] = None THEN None
                     ELSE KeepArray(view[r], WithAppended(f, view[r].lang).left)]
       /\ pending' = [c \in Callers |-> IF c = writer.by THEN f ELSE pending[c]]
       /\ order' = Append(order, f)
    /\ writer' = None
    /\ UNCHANGED <<metadata, found, window, overtaken, filed>>

\* The second critical section of RegisterWithMetadata: it looks at nothing that may have
\* happened since the first.
StoreMetadata(c) ==
    /\ writer = None /\ pending[c] # None
    /\ LET n == NameOf[pending[c]] IN
       /\ metadata' = [metadata EXCEPT ![n] = pending[c]]
       /\ filed' = [filed EXCEPT ![n] = IF c \in overtaken THEN "stale" ELSE "own"]
    /\ pending' = [pending EXCEPT ![c] = None]
    /\ overtaken' = overtaken \ {c}
    /\ UNCHANGED <<formatters, byLanguage, writer, readers, order>>

\* Remove: under the write lock, refused if the name is unknown.
RemoveBegins(n) ==
    /\ writer = None /\ formatters[n] # None
    /\ writer' = [op |-> "remove", f |-> formatters[n], by |-> None]
    /\ UNCHANGED <<formatters, byLanguage, metadata, pending, readers, history>>

\* What a removal of name n makes of the registrations with metadata.
Overtakes(n) ==
    /\ overtaken' = overtaken \cup {c \in Callers : pending[c] # None /\ NameOf[pending[c]] = n}
    /\ filed' = [filed EXCEPT ![n] = "nothing"]

RemoveEndsKeepingMetadata ==   \* mutant: the metadata stays
    /\ writer # None /\ writer.op = "remove"
    /\ LET f == writer.f IN
       /\ byLanguage' = [l \in Languages |-> Without(f, l)]
       /\ formatters' = [formatters EXCEPT ![NameOf[f]] = None]
       /\ order' = WithoutElement(order, f)
       /\ Overtakes(NameOf[f])
    /\ writer' = None
    /\ UNCHANGED <<pending, readers, metadata>>

RemoveEnds ==
    /\ writer # None /\ writer.op = "remove"
    /\ LET f == writer.f IN
       /\ byLanguage' = [l \in Languages |-> Without(f, l)]
       /\ formatters' = [formatters EXCEPT ![NameOf[f]] = None]
       /\ metadata' = [metadata EXCEPT ![NameOf[f]] = None]
       /\ order' = WithoutElement(order, f)
       /\ Overtakes(NameOf[f])
    /\ writer' = None
    /\ UNCHANGED <<pending, readers>>
-----------------------------------------------------------------------------
\* Execute or DetectFormatter: GetByLanguage, which waits for the lock.
GetByLanguage(r, s) ==
    /\ writer = None /\ view[r] = None
    /\ view' = [view EXCEPT ![r] =
                  [lang |-> Lower[s], len |-> byLanguage[Lower[s]].len, kept |-> None]]
    /\ found' = [found EXCEPT ![r] = NotFound]
    /\ window' = [window EXCEPT ![r] =
                    {f \in Formatters : \E i \in 1 .. byLanguage[Lower[s]].len :
                                          byLanguage[Lower[s]].cells[i] = f}]
    /\ UNCHANGED <<formatters, byLanguage, metadata, writer, pending, history>>

\* The first element the lock's holder is about to put in the array of language l, in place.
FirstToBe(l) ==
    LET old == byLanguage[l] IN
    IF writer = None \/ old.cells = <<>> \/ Turns(writer.f, l) = 0 THEN {}
    ELSE IF writer.op = "remove" THEN {Without(writer.f, l).cells[1]}
    ELSE IF old.len = 0 THEN {writer.f} ELSE {}

\* What reading formatters[0] may yield, without the lock: the element, or what a writer
\* makes of it, or half of each.
FirstOf(v) ==
    IF v.len = 0 THEN {NotFound}
    ELSE IF v.kept # None THEN {v.kept[1]}
    ELSE LET first == byLanguage[v.lang].cells[1]
             overwritten == FirstToBe(v.lang) \ {first} IN
         {first} \cup overwritten \cup (IF overwritten # {} THEN {Torn} ELSE {})

ReadFirst(r) ==
    /\ view[r] # None
    /\ \E x \in FirstOf(view[r]) : found' = [found EXCEPT ![r] = x]
    /\ view' = [view EXCEPT ![r] = None]
    /\ UNCHANGED <<formatters, byLanguage, metadata, writer, pending, window, history>>
-----------------------------------------------------------------------------
Next ==
    \/ \E f \in Formatters, c \in Callers \cup {None} : RegisterBegins(f, c)
    \/ \E c \in Callers : StoreMetadata(c)
    \/ \E n \in Names : RemoveBegins(n)
    \/ RegisterEnds \/ RemoveEnds
    \/ \E r \in Readers : ReadFirst(r) \/ \E s \in Spellings : GetByLanguage(r, s)

Spec == Init /\ [][Next]_vars
-----------------------------------------------------------------------------
Slice == [cells : Seq(Formatters \cup {None}), len : Nat]

TypeOK ==
    /\ formatters \in [Names -> Formatters \cup {None}]
    /\ byLanguage \in [Languages -> Slice]
    /\ metadata \in [Names -> Formatters \cup {None}]
    /\ pending \in [Callers -> Formatters \cup {None}]
    /\ overtaken \subseteq {c \in Callers : pending[c] # None}
    /\ filed \in [Names -> {"nothing", "own", "stale"}]
    /\ writer = None \/ (/\ writer.op \in {"register", "remove"} /\ writer.f \in Formatters
                        /\ writer.by \in Callers \cup {None})
    /\ \A r \in Readers :
         view[r] = None \/ (/\ view[r].lang \in Languages /\ view[r].len \in Nat
                           /\ view[r].kept \in Seq(Formatters \cup {None}) \cup {None})
    /\ found \in [Readers -> Formatters \cup {None, Torn, NotFound}]
    /\ window \in [Readers -> SUBSET Formatters]
    /\ order \in Seq(Formatters)
    /\ \A l \in Languages : byLanguage[l].len <= Len(byLanguage[l].cells)

\* The index of a language lists its registered formatters in the order they were registered,
\* once per declared spelling (in the slots from end[i - 1] + 1 to end[i]), through any sequence
\* of Register and Remove, and the map of names has just these formatters; the first of them is
\* the one Execute uses.
ListsInOrder(slice, l) ==
    \E end \in [0 .. Len(order) -> 0 .. slice.len] :
        /\ end[0] = 0 /\ end[Len(order)] = slice.len
        /\ \A i \in 1 .. Len(order) :
              /\ end[i] = end[i - 1] + Turns(order[i], l)
              /\ \A p \in end[i - 1] + 1 .. end[i] : slice.cells[p] = order[i]

IndexInOrder ==
    /\ \A l \in Languages : ListsInOrder(byLanguage[l], l)
    /\ {formatters[n] : n \in Names} \ {None} = {order[i] : i \in 1 .. Len(order)}
    /\ \A i \in 1 .. Len(order) : formatters[NameOf[order[i]]] = order[i]

\* Short of a torn read, a lookup yields a formatter that was registered for the language at
\* some moment since it was asked for: in-place shifts and appends never show it a formatter
\* that is not, nor an empty element.
LookupFindsRegistered ==
    \A r \in Readers : found[r] \in window[r] \cup {Torn, NotFound}

\* RegisterWithMetadata gives up the lock between its halves (registry.go:58-64), and what
\* that can do is this and no more.  A name for which nothing was stored since it was last
\* removed has no metadata.  A name whose last store was that of a call which no removal of the
\* name overtook has the metadata of the very formatter registered under it, however often and by
\* whom it was removed and registered before.  Only a call overtaken by a removal can leave
\* metadata of a formatter that is not registered; it lasts until the next removal or store.
MetadataOwned ==
    \A n \in Names :
        /\ filed[n] = "nothing" => metadata[n] = None
        /\ filed[n] = "own" => metadata[n] = formatters[n] /\ metadata[n] # None

\* The documents' words (docs/ARCHITECTURE.md:10): all shared state is protected by mutexes
\* and concurrent access is safe, so a lookup never reads what another goroutine is writing.
NoTornLookup == \A r \in Readers : found[r] # Torn
=============================================================================
