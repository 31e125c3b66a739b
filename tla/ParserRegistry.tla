---------------------------- MODULE ParserRegistry ----------------------------
(***************************************************************************)
(* ParserRegistry (pkg/textformat/textformat.go): parsers by format ID,    *)
(* some of them made by a factory at the first GetParser.  The registry    *)
(* has no lock.  A factory runs in the middle of GetParser, between the    *)
(* look at the maps and the changes to them, and may itself look up the    *)
(* parsers that its own is built from, so that a caller has a stack of     *)
(* factories that are running.                                             *)
(*                                                                         *)
(* A parser is a number, each of them a new one.  With several callers the *)
(* steps between two factory calls are taken as atomic; the build gives no *)
(* more than that at best (unsynchronised maps may also abort it).         *)
(***************************************************************************)
EXTENDS Integers, Sequences, SequencesExt, FiniteSets, FiniteSetsExt

CONSTANTS
    Formats,          \* format IDs
    Callers,
    Needs,            \* the formats whose parsers the factory of a format looks up
    CanParse,         \* the formats that the parser of a format accepts
    MaxRegistrations, \* bound: registrations that are accepted
    None

\* A factory that comes back to its own format recurses for ever; none does.
ASSUME NeedsAssumption ==
    /\ Needs \in [Formats -> SUBSET Formats]
    /\ \E rank \in [Formats -> 0 .. Cardinality(Formats)] :
          \A f \in Formats : \A g \in Needs[f] : rank[g] < rank[f]
ASSUME CanParseAssumption == CanParse \in [Formats -> SUBSET Formats]
ASSUME BoundAssumption    == MaxRegistrations \in Nat /\ None \notin Nat \cup Formats

VARIABLES
    parsers,     \* format ID -> parser, or None
    factories,   \* the format IDs with a factory
    stack,       \* each caller: the factories that run, the innermost last, and what each
                 \* of them has still to look up
    made,        \* parsers made so far
    handed,      \* history: the parsers handed out since the last Clear, with the IDs they are
                 \* registered under
    count        \* registrations accepted so far

vars == <<parsers, factories, stack, made, handed, count>>

NoParsers == [f \in Formats |-> None]

Init ==
    /\ parsers = NoParsers /\ factories = {}
    /\ stack = [c \in Callers |-> <<>>]
    /\ made = 0 /\ handed = {} /\ count = 0

\* The checks for a DuplicateParserError, by both Register methods.
IsFree(f) == parsers[f] = None /\ f \notin factories

\* The formats whose parsers accept format f: only parsers that are there are asked.
Accepting(f) == {g \in Formats : parsers[g] # None /\ f \in CanParse[g]}

HasParser(f) == ~IsFree(f) \/ Accepting(f) # {}

\* Code of a caller: its own, or that of the factory on top of its stack.
Top(c) == Last(stack[c])
MayLookUp(c, f) == f \in IF stack[c] = <<>> THEN Formats ELSE Top(c).needs

\* A lookup is through: the factory that made it, if any, has one less to do.
LookedUp(s, f) == IF s = <<>> THEN s ELSE [s EXCEPT ![Len(s)].needs = @ \ {f}]
-----------------------------------------------------------------------------
\* The caller, or the factory it is in, registers a parser.
Register ==
    /\ count < MaxRegistrations /\ count' = count + 1
    /\ made' = made + 1
    /\ \E f \in Formats : IsFree(f) /\ parsers' = [parsers EXCEPT ![f] = made']
    /\ UNCHANGED <<factories, stack, handed>>

RegisterLazy ==
    /\ count < MaxRegistrations /\ count' = count + 1
    /\ \E f \in Formats : IsFree(f) /\ factories' = factories \cup {f}
    /\ UNCHANGED <<parsers, stack, made, handed>>

\* GetParser finds a parser by ID.
GetParserFinds(c, f) ==
    /\ MayLookUp(c, f) /\ parsers[f] # None
    /\ handed' = handed \cup {<<f, parsers[f]>>}
    /\ stack' = [stack EXCEPT ![c] = LookedUp(@, f)]
    /\ UNCHANGED <<parsers, factories, made, count>>

\* GetParser finds a factory and calls it.
FactoryTaken(c, f) ==            \* mutant: the factory is deleted before it is called
    /\ MayLookUp(c, f) /\ parsers[f] = None /\ f \in factories
    /\ stack' = [stack EXCEPT ![c] = Append(@, [format |-> f, needs |-> Needs[f]])]
    /\ factories' = factories \ {f}
    /\ UNCHANGED <<parsers, made, handed, count>>

FactoryCalled(c, f) ==
    /\ MayLookUp(c, f) /\ parsers[f] = None /\ f \in factories
    /\ stack' = [stack EXCEPT ![c] = Append(@, [format |-> f, needs |-> Needs[f]])]
    /\ UNCHANGED <<parsers, factories, made, handed, count>>

\* The factory has all it needs and returns: its parser is stored, over one that may be there
\* by now, the factory deleted, and the parser handed out.
FactoryReturnsForgotten(c) ==    \* mutant: the maps are left as they are
    /\ stack[c] # <<>> /\ Top(c).needs = {}
    /\ made' = made + 1
    /\ LET f == Top(c).format IN
          /\ handed' = handed \cup {<<f, made'>>}
          /\ stack' = [stack EXCEPT ![c] = LookedUp(Front(@), f)]
    /\ UNCHANGED <<parsers, factories, count>>

FactoryReturnsUncached(c) ==     \* mutant: the parser is not stored
    /\ stack[c] # <<>> /\ Top(c).needs = {}
    /\ made' = made + 1
    /\ LET f == Top(c).format IN
          /\ factories' = factories \ {f}
          /\ handed' = handed \cup {<<f, made'>>}
          /\ stack' = [stack EXCEPT ![c] = LookedUp(Front(@), f)]
    /\ UNCHANGED <<parsers, count>>

FactoryReturns(c) ==
    /\ stack[c] # <<>> /\ Top(c).needs = {}
    /\ made' = made + 1
    /\ LET f == Top(c).format IN
          /\ parsers' = [parsers EXCEPT ![f] = made']
          /\ factories' = factories \ {f}
          /\ handed' = handed \cup {<<f, made'>>}
          /\ stack' = [stack EXCEPT ![c] = LookedUp(Front(@), f)]
    /\ UNCHANGED count

\* No entry of that ID: any parser that accepts the format stands in, the first in the order
\* of Go's map, or nil.  g is the format it is registered under.
GetParserFallsBack(c, f, g) ==
    /\ MayLookUp(c, f) /\ IsFree(f)
    /\ g \in IF Accepting(f) = {} THEN {None} ELSE Accepting(f)
    /\ handed' = IF g = None THEN handed ELSE handed \cup {<<g, parsers[g]>>}
    /\ stack' = [stack EXCEPT ![c] = LookedUp(@, f)]
    /\ UNCHANGED <<parsers, factories, made, count>>

\* Clear starts both maps anew.
Clear ==
    /\ parsers' = NoParsers /\ factories' = {} /\ handed' = {}
    /\ UNCHANGED <<stack, made, count>>
-----------------------------------------------------------------------------
GetParser(c) == \/ \E f \in Formats : \/ GetParserFinds(c, f) \/ FactoryCalled(c, f)
                                      \/ \E g \in Formats \cup {None} : GetParserFallsBack(c, f, g)
                \/ FactoryReturns(c)

Use == Register \/ RegisterLazy \/ \E c \in Callers : GetParser(c)

\* Asked of the factories, as the code asks nobody: none clears the registry it is called from.
\* If one did, its parser would replace the one registered since under its ID.
NoFactoryRuns == \A c \in Callers : stack[c] = <<>>

Next == Use \/ (NoFactoryRuns /\ Clear)

Spec == Init /\ [][Next]_vars
-----------------------------------------------------------------------------
TypeOK ==
    /\ count \in 0 .. MaxRegistrations /\ made \in 0 .. count
    /\ parsers \in [Formats -> (1 .. made) \cup {None}] /\ factories \subseteq Formats
    /\ stack \in [Callers -> Seq([format : Formats, needs : SUBSET Formats])]
    /\ handed \subseteq Formats \X (1 .. made)

\* Until the next Clear there is one parser under an ID, whoever is given it, by its ID or in the
\* stead of another: a factory is run once (textformat.go:262-276).
OneParserPerFormat == \A h, k \in handed : h[1] = k[1] => h = k

\* A format that HasParser has reported is reported until the next Clear, also while the
\* factory that it rests on is running (textformat.go:265-268, 280-294).
SupportedStaysSupported ==
    [][\A f \in Formats : HasParser(f) => HasParser(f)' \/ Clear]_vars
=============================================================================
