--------------------------- MODULE TextFormatsProofs ---------------------------
(***************************************************************************)
(* Proofs about TextFormats: about its format registry for every set of    *)
(* formats and every capacity of the slice, about its parser registry for  *)
(* every set of formats and factories.                                     *)
(***************************************************************************)
EXTENDS TextFormats, FiniteSetTheorems, SequenceTheorems, WellFoundedInduction, TLAPS

USE BoundAssumption, MaxFormatsAssumption DEF registry, vars, all
-----------------------------------------------------------------------------
(* The format registry: a pointer that still points into the slice's array *)
(* points to a format, where append does not write.                        *)

FormatsInv ==
    /\ formats \in Seq(Known) /\ cap \in Nat
    /\ held # Nil =>
          /\ held.shows = held.first
          /\ held.shared => held.index \in 1 .. Len(formats)
    /\ held \in {Nil} \cup [index : Nat, shows : Known, shared : BOOLEAN, first : Known]

\* The least of some indices is one of them: of the sets of those up to a given one, some set
\* has no strict subset among them.
LEMMA MinOfInterval ==
    ASSUME NEW n \in Nat, NEW S \in SUBSET (1 .. n), S # {}
    PROVE  Min(S) \in S /\ \A x \in S : Min(S) <= x
  <1> DEFINE UpTo(x) == {y \in S : y <= x}
             Sets == {UpTo(x) : x \in S}
  <1>1. IsWellFoundedOn(StrictSubsetOrdering(1 .. n), FiniteSubsetsOf(1 .. n))
    BY FS_StrictSubsetOrderingWellFounded
  <1>2. Sets \subseteq FiniteSubsetsOf(1 .. n) /\ Sets # {}
    <2>1. \A x \in S : UpTo(x) \in SUBSET (1 .. n)
      OBVIOUS
    <2> HIDE DEF UpTo
    <2>2. \A x \in S : UpTo(x) \in FiniteSubsetsOf(1 .. n)
      <3>1. IsFiniteSet(1 .. n)
        BY FS_Interval
      <3>2. \A T \in SUBSET (1 .. n) : IsFiniteSet(T)
        BY <3>1, FS_Subset
      <3> QED
        BY <2>1, <3>2 DEF FiniteSubsetsOf
    <2> QED
      BY <2>2
  <1>3. \E T \in Sets : \A U \in Sets : <<U, T>> \notin StrictSubsetOrdering(1 .. n)
    <2> HIDE DEF Sets
    <2> QED
      BY <1>1, <1>2, WFMin
  <1>4. PICK x \in S : \A y \in S : <<UpTo(y), UpTo(x)>> \notin StrictSubsetOrdering(1 .. n)
    BY <1>3
  <1>5. ASSUME NEW y \in S, y < x PROVE FALSE
    <2>1. x \in Int /\ y \in Int /\ x <= x /\ ~(x <= y) /\ \A z \in S : z <= y => z <= x
      <3>1. x \in Int /\ y \in Int /\ \A z \in S : z \in Int
        OBVIOUS
      <3> QED
        BY <1>5, <3>1
    <2>2. UpTo(y) \subseteq UpTo(x) /\ x \in UpTo(x) /\ x \notin UpTo(y)
      BY <2>1, Zenon
    <2>3. UpTo(y) \in SUBSET (1 .. n) /\ UpTo(x) \in SUBSET (1 .. n)
      OBVIOUS
    <2>4. <<UpTo(y), UpTo(x)>> \in StrictSubsetOrdering(1 .. n)
      <3> HIDE DEF UpTo
      <3> QED
        BY <2>2, <2>3 DEF StrictSubsetOrdering
    <2> QED
      BY <1>4, <2>4
  <1>6. \A y \in S : x <= y
    <2>1. x \in Int /\ \A y \in S : y \in Int
      OBVIOUS
    <2> QED
      BY <1>5, <2>1
  <1> QED
    BY <1>6 DEF Min

\* A search for an element gives one of the indices, or zero.
LEMMA IndexInRange ==
    ASSUME formats \in Seq(Known), NEW P(_)
    PROVE  SelectInSeq(formats, P) \in 0 .. Len(formats)
  <1> DEFINE I == {i \in 1 .. Len(formats) : P(formats[i])}
  <1>1. Len(formats) \in Nat /\ I \in SUBSET (1 .. Len(formats))
    BY LenProperties
  <1> HIDE DEF I
  <1>2. ASSUME I # {} PROVE Min(I) \in I
    <2> DEFINE n == Len(formats)
    <2>1. n \in Nat /\ I \in SUBSET (1 .. n)
      BY <1>1
    <2> HIDE DEF n
    <2> QED
      BY <1>2, <2>1, MinOfInterval
  <1>3. (IF I # {} THEN Min(I) ELSE 0) \in 0 .. Len(formats)
    <2>1. CASE I # {}
      <3>1. Min(I) \in 1 .. Len(formats)
        BY <1>1, <1>2, <2>1
      <3> QED
        BY <1>1, <2>1, <3>1
    <2>2. CASE I = {}
      BY <1>1, <2>2
    <2> QED
      BY <2>1, <2>2
  <1> QED
    BY <1>3 DEF I, SelectInSeq

\* Every operation of the format registry keeps the invariant.
LEMMA FormatsStep == FormatsInv /\ (FormatsNext \/ UNCHANGED registry) => FormatsInv'
  <1> SUFFICES ASSUME FormatsInv, FormatsNext \/ UNCHANGED registry PROVE FormatsInv'
    OBVIOUS
  <1>0. /\ formats \in Seq(Known) /\ cap \in Nat /\ Len(formats) \in Nat
        /\ held # Nil =>
              /\ held.shows = held.first
              /\ held.shared => held.index \in 1 .. Len(formats)
        /\ held \in {Nil} \cup [index : Nat, shows : Known, shared : BOOLEAN, first : Known]
    BY LenProperties DEF FormatsInv
  <1>1. CASE UNCHANGED registry
    BY <1>0, <1>1 DEF FormatsInv
  <1>2. ASSUME NEW fs \in Seq(Known), AppendAll(fs) PROVE FormatsInv'
    <2>1. formats' \in Seq(Known) /\ Len(formats') = Len(formats) + Len(fs) /\ Len(fs) \in Nat
      BY <1>0, <1>2, ConcatProperties, LenProperties DEF AppendAll
    <2>2. cap' \in Nat
      BY <1>0, <1>2, <2>1 DEF AppendAll
    <2>3. \/ held' = held
          \/ held # Nil /\ held' = [held EXCEPT !.shared = FALSE]
      BY <1>0, <1>2, <2>1 DEF AppendAll
    <2>4. CASE held' = held
      BY <1>0, <2>1, <2>2, <2>4 DEF FormatsInv
    <2>5. CASE held # Nil /\ held' = [held EXCEPT !.shared = FALSE]
      <3>1. /\ held' \in [index : Nat, shows : Known, shared : BOOLEAN, first : Known]
            /\ held'.shows = held.shows /\ held'.first = held.first /\ held'.shared = FALSE
        <4>1. held \in [index : Nat, shows : Known, shared : BOOLEAN, first : Known]
          BY <1>0, <2>5
        <4>2. held' = [held EXCEPT !.shared = FALSE]
          BY <2>5
        <4> QED
          BY <4>1, <4>2
      <3> QED
        BY <1>0, <2>1, <2>2, <2>5, <3>1 DEF FormatsInv
    <2> QED
      BY <2>3, <2>4, <2>5
  <1>3. ASSUME NEW i \in 0 .. Len(formats), HandOut(i) PROVE FormatsInv'
    <2>1. /\ i \in 1 .. Len(formats) /\ UNCHANGED <<formats, cap>>
          /\ held' = [index |-> i, shows |-> formats[i], shared |-> TRUE, first |-> formats[i]]
      BY <1>3 DEF HandOut
    <2>2. formats[i] \in Known
      BY <1>0, <2>1, ElementOfSeq
    <2> QED
      BY <1>0, <2>1, <2>2 DEF FormatsInv
  <1>4. ASSUME NEW f \in Known, RegisterFormat(f) PROVE FormatsInv'
    <2>1. <<f>> \in Seq(Known) /\ AppendAll(<<f>>)
      BY <1>4 DEF RegisterFormat
    <2> QED
      BY <1>2, <2>1
  <1>5. ASSUME NEW f \in Known, NEW g \in Known, RegisterAll(f, g) PROVE FormatsInv'
    <2>1. <<f, g>> \in Seq(Known) /\ AppendAll(<<f, g>>)
      BY <1>5 DEF RegisterAll
    <2> QED
      BY <1>2, <2>1
  <1>6. ASSUME NEW f \in Known, GetByID(f.id) PROVE FormatsInv'
    <2>1. GetByIDIndex(f.id) \in 0 .. Len(formats)
      BY <1>0, IndexInRange DEF GetByIDIndex, FirstOf
    <2> QED
      BY <1>3, <1>6, <2>1 DEF GetByID
  <1>7. ASSUME NEW e \in Spellings, GetByExtension(e) PROVE FormatsInv'
    <2>1. GetByExtensionIndex(e) \in 0 .. Len(formats)
      BY <1>0, IndexInRange DEF GetByExtensionIndex, FirstOf
    <2> QED
      BY <1>3, <1>7, <2>1 DEF GetByExtension
  <1>8. ASSUME NEW c \in Contents, DetectByContent(c) PROVE FormatsInv'
    <2>1. DetectByContentIndex(c) \in 0 .. Len(formats)
      BY <1>0, IndexInRange DEF DetectByContentIndex, FirstOf
    <2> QED
      BY <1>3, <1>8, <2>1 DEF DetectByContent
  <1>9. CASE ClearFormats
    <2>1. /\ formats' = <<>> /\ cap' = 0
          /\ held' = IF held # Nil THEN [held EXCEPT !.shared = FALSE] ELSE held
      BY <1>9 DEF ClearFormats
    <2>2. formats' \in Seq(Known)
      BY <2>1, EmptySeq
    <2> QED
      BY <1>0, <2>1, <2>2 DEF FormatsInv
  <1> QED
    BY <1>1, <1>4, <1>5, <1>6, <1>7, <1>8, <1>9 DEF FormatsNext

\* At first the format registry is what its arguments make it.
LEMMA FormatsInit == TextInit => FormatsInv
  <1> SUFFICES ASSUME InitFormats PROVE FormatsInv
    BY DEF TextInit
  <1>1. formats \in Seq(Known) /\ held = Nil
    BY DEF InitFormats
  <1>2. Len(formats) \in Nat /\ cap \in Len(formats) .. MaxFormats
    BY <1>1, LenProperties DEF InitFormats
  <1> QED
    BY <1>1, <1>2 DEF FormatsInv

\* A step of both registries is a step of the format registry, or leaves it alone.
LEMMA FormatsActions == [TextNext]_all => FormatsNext \/ UNCHANGED registry
  BY DEF TextNext, FormatStep, ParserStep, ClearParsers, Open

\* For every capacity that append may choose, and every order of registrations, lookups and
\* clears: what a pointer shows is what it was handed out for.
THEOREM PointerKeepsItsFormatCorrect == TextSpec => []PointerKeepsItsFormat
  <1>1. FormatsInv /\ [TextNext]_all => FormatsInv'
    BY FormatsActions, FormatsStep
  <1>2. FormatsInv => PointerKeepsItsFormat
    BY DEF FormatsInv, PointerKeepsItsFormat
  <1> QED
    BY FormatsInit, <1>1, <1>2, PTL DEF TextSpec
-----------------------------------------------------------------------------
(* The parser registry. *)

Frame == [format : Formats, needs : SUBSET Formats]

ParsersInv ==
    /\ parsers \in [Formats -> Nat \cup {None}] /\ factories \subseteq Formats
    /\ made \in Nat
    /\ stack \in [Callers -> Seq(Frame)]

\* What a step of TextFormats does to the parser registry.
FallsBack(c, f) == \E g \in Formats \cup {None} : GetParserFallsBack(c, f, g)

Lookup(c) == \/ \E f \in Formats : GetParserFinds(c, f) \/ FallsBack(c, f)
             \/ \E f \in Formats : FactoryCalled(c, f)
             \/ FactoryReturns(c)

\* A parser that stands in is one that is registered, and nothing else changes but the stack.
LEMMA StandIn ==
    ASSUME NEW c, NEW f, FallsBack(c, f)
    PROVE  /\ f \in Formats => IsFree(f)
           /\ stack' = [stack EXCEPT ![c] = LookedUp(stack[c], f)]
           /\ UNCHANGED <<parsers, factories, made, count>>
           /\ \/ handed' = handed
              \/ \E g \in Formats : parsers[g] # None /\ handed' = handed \cup {<<g, parsers[g]>>}
  <1>1. PICK g \in Formats \cup {None} : GetParserFallsBack(c, f, g)
    BY DEF FallsBack
  <1>2. /\ IsFree(f) /\ g \in (IF Accepting(f) = {} THEN {None} ELSE Accepting(f))
        /\ stack' = [stack EXCEPT ![c] = LookedUp(stack[c], f)]
        /\ UNCHANGED <<parsers, factories, made, count>>
        /\ handed' = IF g = None THEN handed ELSE handed \cup {<<g, parsers[g]>>}
    BY <1>1 DEF GetParserFallsBack
  <1>3. CASE g = None
    BY <1>2, <1>3
  <1>4. CASE g # None
    <2>1. g \in Formats /\ parsers[g] # None
      BY <1>2, <1>4 DEF Accepting
    <2> QED
      BY <1>2, <1>4, <2>1
  <1> QED
    BY <1>2, <1>3, <1>4

Using == UNCHANGED vars \/ Register \/ RegisterLazy \/ \E c \in Callers : Lookup(c)

\* A step of both registries is an operation of the parser registry, or leaves it alone.
LEMMA ParserActions == ParsersInv /\ [TextNext]_all => Using \/ ClearParsers
  <1> SUFFICES ASSUME ParsersInv, [TextNext]_all PROVE Using \/ ClearParsers
    OBVIOUS
  <1> USE DEF Using
  <1> HIDE DEF vars
  <1>1. CASE UNCHANGED all \/ FormatStep
    BY <1>1 DEF FormatStep
  <1>2. CASE ParserStep \/ ClearParsers
    BY <1>2 DEF ParserStep, Use, GetParser, Lookup, FallsBack
  <1>3. ASSUME NEW c \in Callers, NEW e \in Spellings \cup {""}, Open(c, e)
        PROVE  Lookup(c)
    <2> DEFINE f == DetectByFilename(e)
    <2>1. stack[c] = <<>> /\ (GetParserFinds(c, f) \/ FactoryCalled(c, f) \/ FallsBack(c, f))
      BY <1>3 DEF Open, FallsBack
    <2> HIDE DEF f
    <2>2. f \in Formats
      BY <2>1 DEF GetParserFinds, FactoryCalled, FallsBack, GetParserFallsBack, MayLookUp
    <2> QED
      BY <2>1, <2>2 DEF Lookup
  <1> QED
    BY <1>1, <1>2, <1>3 DEF TextNext

\* The stack of a caller after a lookup, with a factory on top, and with its top taken off.
LEMMA LookedUpStack ==
    ASSUME NEW s \in Seq(Frame), NEW f \in Formats
    PROVE  /\ LookedUp(s, f) \in Seq(Frame) /\ Len(LookedUp(s, f)) = Len(s)
           /\ \A i \in 1 .. Len(s) : /\ LookedUp(s, f)[i].format = s[i].format
                                     /\ LookedUp(s, f)[i].needs \subseteq s[i].needs
  <1>1. CASE s = <<>>
    BY <1>1, EmptySeq DEF LookedUp
  <1>2. CASE s # <<>>
    <2> DEFINE n == Len(s)
               top == [s[n] EXCEPT !.needs = @ \ {f}]
    <2>1. n \in 1 .. Len(s) /\ n \in Nat
      BY <1>2, EmptySeq
    <2>2. s[n] \in Frame
      BY <2>1, ElementOfSeq
    <2>3. top \in Frame /\ top.format = s[n].format /\ top.needs \subseteq s[n].needs
      BY <2>2 DEF Frame
    <2>4. LookedUp(s, f) = [s EXCEPT ![n] = top]
      BY <1>2 DEF LookedUp
    <2> HIDE DEF n, top
    <2>5. /\ [s EXCEPT ![n] = top] \in Seq(Frame) /\ Len([s EXCEPT ![n] = top]) = Len(s)
          /\ \A i \in 1 .. Len(s) : [s EXCEPT ![n] = top][i] = IF i = n THEN top ELSE s[i]
      BY <2>1, <2>3, ExceptSeq
    <2>6. \A i \in 1 .. Len(s) : LookedUp(s, f)[i] = IF i = n THEN top ELSE s[i]
      BY <2>4, <2>5
    <2> QED
      BY <2>3, <2>4, <2>5, <2>6
  <1> QED
    BY <1>1, <1>2

\* The top of a stack that is not empty, and what is below it.
LEMMA TopOfStack ==
    ASSUME NEW s \in Seq(Frame), s # <<>>
    PROVE  /\ Len(s) \in 1 .. Len(s) /\ Last(s) = s[Len(s)] /\ Last(s) \in Frame
           /\ Front(s) \in Seq(Frame) /\ Len(Front(s)) = Len(s) - 1
           /\ \A i \in 1 .. Len(s) - 1 : Front(s)[i] = s[i]
  <1>1. Len(s) \in 1 .. Len(s) /\ Len(s) \in Nat
    BY EmptySeq
  <1>2. Last(s) = s[Len(s)] /\ Last(s) \in Frame
    BY <1>1, ElementOfSeq DEF Last
  <1>3. \A i \in 1 .. Len(s) - 1 : s[i] \in Frame
    BY <1>1, ElementOfSeq
  <1>4. /\ Front(s) \in Seq(Frame) /\ Len(Front(s)) = Len(s) - 1
        /\ \A i \in 1 .. Len(s) - 1 : Front(s)[i] = s[i]
    <2> DEFINE n == Len(s) - 1
    <2>1. n \in Int /\ n >= 0 /\ \A i \in 1 .. n : s[i] \in Frame
      BY <1>1, <1>3
    <2> HIDE DEF n
    <2>2. /\ SubSeq(s, 1, n) \in Seq(Frame)
          /\ Len(SubSeq(s, 1, n)) = IF 1 <= n THEN n - 1 + 1 ELSE 0
          /\ \A i \in 1 .. n - 1 + 1 : SubSeq(s, 1, n)[i] = s[1 + i - 1]
      BY <2>1, SubSeqProperties
    <2>3. Len(SubSeq(s, 1, n)) = n /\ \A i \in 1 .. n : SubSeq(s, 1, n)[i] = s[i]
      BY <2>1, <2>2
    <2> QED
      BY <2>2, <2>3 DEF n, Front
  <1> QED
    BY <1>1, <1>2, <1>4

\* The invariant of the types holds of the empty registry.
LEMMA ParsersInit == TextInit => ParsersInv
  BY EmptySeq DEF TextInit, Init, ParsersInv, NoParsers

\* Every step of either registry keeps the types of the parser registry.
LEMMA ParsersStep == ParsersInv /\ [TextNext]_all => ParsersInv'
  <1> SUFFICES ASSUME ParsersInv, [TextNext]_all PROVE ParsersInv'
    OBVIOUS
  <1>0. /\ parsers \in [Formats -> Nat \cup {None}] /\ factories \subseteq Formats /\ made \in Nat
        /\ stack \in [Callers -> Seq(Frame)]
    BY DEF ParsersInv
  <1>1. CASE UNCHANGED vars \/ Register \/ RegisterLazy \/ Clear
    BY <1>0, <1>1 DEF Register, RegisterLazy, Clear, NoParsers, ParsersInv
  <1>2. ASSUME NEW c \in Callers, NEW f \in Formats, GetParserFinds(c, f) \/ FallsBack(c, f)
        PROVE  ParsersInv'
    <2>1. LookedUp(stack[c], f) \in Seq(Frame)
      BY <1>0, LookedUpStack
    <2> HIDE DEF Frame
    <2>2. /\ UNCHANGED <<parsers, factories, made>>
          /\ stack' = [stack EXCEPT ![c] = LookedUp(stack[c], f)]
      BY <1>2, StandIn DEF GetParserFinds
    <2> QED
      BY <1>0, <2>1, <2>2 DEF ParsersInv
  <1>3. ASSUME NEW c \in Callers, NEW f \in Formats, FactoryCalled(c, f) PROVE ParsersInv'
    <2>1. [format |-> f, needs |-> Needs[f]] \in Frame
      BY NeedsAssumption DEF Frame
    <2>2. Append(stack[c], [format |-> f, needs |-> Needs[f]]) \in Seq(Frame)
      BY <1>0, <2>1, AppendProperties
    <2> QED
      BY <1>0, <1>3, <2>2 DEF FactoryCalled, ParsersInv
  <1>4. ASSUME NEW c \in Callers, FactoryReturns(c) PROVE ParsersInv'
    <2> DEFINE f == Top(c).format
    <2>1. /\ stack[c] # <<>> /\ made' = made + 1 /\ parsers' = [parsers EXCEPT ![f] = made']
          /\ factories' = factories \ {f}
          /\ stack' = [stack EXCEPT ![c] = LookedUp(Front(stack[c]), f)]
      BY <1>4 DEF FactoryReturns
    <2>2. f \in Formats /\ Front(stack[c]) \in Seq(Frame)
      BY <1>0, <2>1, TopOfStack DEF Top, Frame
    <2> HIDE DEF f
    <2>3. LookedUp(Front(stack[c]), f) \in Seq(Frame)
      BY <2>2, LookedUpStack
    <2> QED
      BY <1>0, <2>1, <2>2, <2>3 DEF ParsersInv
  <1> QED
    BY <1>1, <1>2, <1>3, <1>4, ParserActions DEF Using, Lookup, ClearParsers

\* An entry that is there stays, as a parser or as a factory, until the registry is cleared.
LEMMA EntriesStay ==
    ASSUME ParsersInv, Using
    PROVE  \A g \in Formats : /\ parsers[g] # None => parsers'[g] # None
                              /\ g \in factories => g \in factories' \/ parsers'[g] # None
  <1> HIDE DEF vars
  <1>0. parsers \in [Formats -> Nat \cup {None}] /\ made \in Nat
    BY DEF ParsersInv
  <1>1. CASE UNCHANGED <<parsers, factories>>
    BY <1>1
  <1>2. CASE Register
    <2>1. PICK g \in Formats : /\ parsers' = [parsers EXCEPT ![g] = made'] /\ made' = made + 1
                               /\ UNCHANGED factories
      BY <1>2 DEF Register
    <2> QED
      BY <1>0, <2>1
  <1>3. CASE RegisterLazy
    BY <1>3 DEF RegisterLazy
  <1>4. ASSUME NEW c \in Callers, NEW f \in Formats,
               GetParserFinds(c, f) \/ FallsBack(c, f) \/ FactoryCalled(c, f)
        PROVE  UNCHANGED <<parsers, factories>>
    BY <1>4, StandIn DEF GetParserFinds, FactoryCalled
  <1>5. ASSUME NEW c \in Callers, FactoryReturns(c)
        PROVE  \A g \in Formats : /\ parsers[g] # None => parsers'[g] # None
                                  /\ g \in factories => g \in factories' \/ parsers'[g] # None
    <2> DEFINE g == Top(c).format
    <2>1. /\ made' = made + 1 /\ parsers' = [parsers EXCEPT ![g] = made']
          /\ factories' = factories \ {g}
      BY <1>5 DEF FactoryReturns
    <2> HIDE DEF g
    <2> QED
      BY <1>0, <2>1
  <1>6. CASE UNCHANGED vars
    BY <1>1, <1>6 DEF vars
  <1> QED
    BY <1>1, <1>2, <1>3, <1>4, <1>5, <1>6 DEF Using, Lookup

\* For every set of formats, every nesting of factories and every number of callers: what
\* HasParser has reported it goes on to report until the next Clear.
THEOREM SupportedStaysSupportedCorrect == TextSpec => SupportedStaysSupported
  <1>1. ParsersInv /\ [TextNext]_all
           => [\A f \in Formats : HasParser(f) => HasParser(f)' \/ Clear]_vars
    <2> SUFFICES ASSUME ParsersInv, [TextNext]_all, ~ Clear
                 PROVE  \A f \in Formats : HasParser(f) => HasParser(f)'
      OBVIOUS
    <2>1. Using
      BY ParserActions DEF ClearParsers
    <2> QED
      BY <2>1, EntriesStay DEF HasParser, IsFree, Accepting
  <1> QED
    BY ParsersInit, ParsersStep, <1>1, PTL DEF TextSpec, SupportedStaysSupported
-----------------------------------------------------------------------------
(* With one caller, no two factories of a format are ever running: those  *)
(* on its stack have falling ranks, and none of their parsers is there.   *)

Rank == CHOOSE rank \in [Formats -> 0 .. Cardinality(Formats)] :
           \A f \in Formats : \A g \in Needs[f] : rank[g] < rank[f]

\* A rank is a number, and what a factory needs has a lower one.
LEMMA RankFalls ==
    /\ \A f \in Formats : Rank[f] \in Int
    /\ \A f \in Formats : Needs[f] \subseteq Formats /\ \A g \in Needs[f] : Rank[g] < Rank[f]
  <1>1. /\ Rank \in [Formats -> 0 .. Cardinality(Formats)]
        /\ \A f \in Formats : \A g \in Needs[f] : Rank[g] < Rank[f]
    BY NeedsAssumption DEF Rank
  <1> QED
    BY <1>1, NeedsAssumption

\* The stack s holds running factories only, each called for by the one below it.
Running(s) ==
    /\ \A i \in 1 .. Len(s) : /\ s[i].format \in factories /\ parsers[s[i].format] = None
                              /\ s[i].needs \subseteq Needs[s[i].format]
    /\ \A i, j \in 1 .. Len(s) : i < j => Rank[s[j].format] < Rank[s[i].format]

HandedInv ==
    /\ handed \subseteq Formats \X Nat /\ \A h \in handed : parsers[h[1]] = h[2]
    /\ \A c \in Callers : Running(stack[c])

\* Nothing has been handed out at first.
LEMMA HandedInit == TextInit => HandedInv
  <1> SUFFICES ASSUME TextInit PROVE HandedInv
    OBVIOUS
  <1>1. handed = {} /\ \A c \in Callers : stack[c] = <<>>
    BY DEF TextInit, Init
  <1>2. Len(<<>>) = 0
    BY EmptySeq
  <1>3. \A c \in Callers : Running(stack[c])
    BY <1>1, <1>2 DEF Running
  <1> QED
    BY <1>1, <1>3 DEF HandedInv

\* With one caller, every step keeps what has been handed out the one parser of its format.
LEMMA HandedStep ==
    ASSUME \A c, d \in Callers : c = d
    PROVE  ParsersInv /\ HandedInv /\ [TextNext]_all => HandedInv'
  <1> SUFFICES ASSUME ParsersInv, HandedInv, [TextNext]_all PROVE HandedInv'
    OBVIOUS
  <1>0. /\ parsers \in [Formats -> Nat \cup {None}] /\ factories \subseteq Formats /\ made \in Nat
        /\ stack \in [Callers -> Seq(Frame)]
        /\ handed \subseteq Formats \X Nat /\ \A h \in handed : parsers[h[1]] = h[2]
        /\ \A c \in Callers : Running(stack[c])
    BY DEF ParsersInv, HandedInv
  <1>1. \A c \in Callers : /\ Len(stack[c]) \in Nat
                           /\ \A i \in 1 .. Len(stack[c]) : stack[c][i] \in Frame
    BY <1>0, LenProperties, ElementOfSeq
  <1>2. CASE UNCHANGED vars
    BY <1>0, <1>2 DEF HandedInv, Running
  <1>3. CASE Register
    <2>1. PICK f \in Formats : /\ parsers[f] = None /\ f \notin factories
                               /\ parsers' = [parsers EXCEPT ![f] = made']
                               /\ UNCHANGED <<factories, stack, handed>>
      BY <1>3 DEF Register, IsFree
    <2>2. \A h \in handed : h[1] \in Formats /\ h[1] # f
      BY <1>0, <2>1
    <2>3. \A h \in handed : parsers'[h[1]] = h[2]
      BY <1>0, <2>1, <2>2
    <2>4. \A c \in Callers : Running(stack[c])'
      BY <1>0, <1>1, <2>1 DEF Running
    <2> QED
      BY <1>0, <2>1, <2>3, <2>4 DEF HandedInv
  <1>4. CASE RegisterLazy
    <2>1. factories \subseteq factories' /\ UNCHANGED <<parsers, stack, handed>>
      BY <1>4 DEF RegisterLazy
    <2> QED
      BY <1>0, <2>1 DEF HandedInv, Running
  <1>5. CASE ClearParsers
    <2>1. handed' = {} /\ \A c \in Callers : stack'[c] = <<>>
      BY <1>5 DEF ClearParsers, NoFactoryRuns, Clear
    <2>2. \A c \in Callers : Running(stack[c])'
      BY <2>1, EmptySeq DEF Running
    <2> QED
      BY <2>1, <2>2 DEF HandedInv
  <1>6. ASSUME NEW c \in Callers, NEW f \in Formats, GetParserFinds(c, f) \/ FallsBack(c, f)
        PROVE  HandedInv'
    <2> DEFINE s == LookedUp(stack[c], f)
    <2>1. /\ UNCHANGED <<parsers, factories>> /\ stack' = [stack EXCEPT ![c] = s]
          /\ \/ handed' = handed
             \/ \E g \in Formats : parsers[g] # None /\ handed' = handed \cup {<<g, parsers[g]>>}
      BY <1>6, StandIn DEF GetParserFinds
    <2>2. /\ Len(s) = Len(stack[c])
          /\ \A i \in 1 .. Len(s) : /\ s[i].format = stack[c][i].format
                                    /\ s[i].needs \subseteq stack[c][i].needs
      BY <1>0, LookedUpStack
    <2> HIDE DEF s
    <2>3. Running(s)
      BY <1>0, <2>2, SMTT(60) DEF Running
    <2>4. \A d \in Callers : Running(stack[d])'
      <3>1. \A d \in Callers : stack'[d] = s
        BY <1>0, <2>1
      <3> QED
        BY <2>1, <2>3, <3>1 DEF Running
    <2>5. handed' \subseteq Formats \X Nat /\ \A h \in handed' : parsers'[h[1]] = h[2]
      BY <1>0, <2>1
    <2> QED
      BY <2>4, <2>5 DEF HandedInv
  <1>7. ASSUME NEW c \in Callers, NEW f \in Formats, FactoryCalled(c, f) PROVE HandedInv'
    <2> DEFINE s == stack[c]
               frame == [format |-> f, needs |-> Needs[f]]
               t == Append(s, frame)
    <2>1. /\ parsers[f] = None /\ f \in factories /\ MayLookUp(c, f)
          /\ stack' = [stack EXCEPT ![c] = t] /\ UNCHANGED <<parsers, factories, handed>>
      BY <1>7 DEF FactoryCalled
    <2>2. frame \in Frame /\ frame.format = f /\ frame.needs = Needs[f]
      BY RankFalls DEF Frame
    <2>3. s \in Seq(Frame) /\ Running(s) /\ Len(s) \in Nat /\ \A i \in 1 .. Len(s) : s[i] \in Frame
      BY <1>0, <1>1
    <2>4. s # <<>> => /\ Len(s) \in 1 .. Len(s) /\ f \in s[Len(s)].needs
      BY <2>1, <2>3, TopOfStack DEF MayLookUp, Top
    <2> HIDE DEF frame, s
    <2>5. /\ Len(t) = Len(s) + 1 /\ \A i \in 1 .. Len(s) : t[i] = s[i]
          /\ t[Len(s) + 1] = frame
      BY <2>2, <2>3, AppendProperties
    <2> HIDE DEF t
    <2>6. \A i \in 1 .. Len(s) : Rank[f] < Rank[s[i].format]
      <3>1. ASSUME NEW i \in 1 .. Len(s) PROVE Rank[f] < Rank[s[i].format]
        <4>1. s # <<>>
          BY <2>3, EmptySeq
        <4>2. Len(s) \in 1 .. Len(s) /\ s[Len(s)] \in Frame
          BY <2>3, <2>4, <4>1
        <4>3. Rank[f] < Rank[s[Len(s)].format]
          BY <2>3, <2>4, <4>1, <4>2, RankFalls DEF Running, Frame
        <4>4. i = Len(s) \/ (i < Len(s) /\ Rank[s[Len(s)].format] < Rank[s[i].format])
          BY <2>3, <4>2 DEF Running
        <4>5. s[i].format \in Formats /\ s[Len(s)].format \in Formats
          BY <2>3, <4>2 DEF Frame
        <4> QED
          BY <4>3, <4>4, <4>5, RankFalls
      <3> QED
        BY <3>1
    <2>7. Running(t)
      <3>1. \A i \in 1 .. Len(t) : i = Len(s) + 1 \/ i \in 1 .. Len(s)
        BY <2>3, <2>5
      <3>2. \A i \in 1 .. Len(t) : /\ t[i].format \in factories /\ parsers[t[i].format] = None
                                   /\ t[i].needs \subseteq Needs[t[i].format]
        BY <2>1, <2>2, <2>3, <2>5, <3>1 DEF Running
      <3>3. ASSUME NEW i \in 1 .. Len(t), NEW j \in 1 .. Len(t), i < j
            PROVE  Rank[t[j].format] < Rank[t[i].format]
        <4>1. i \in 1 .. Len(s)
          BY <2>3, <2>5, <3>3
        <4>2. CASE j = Len(s) + 1
          BY <2>2, <2>5, <2>6, <4>1, <4>2
        <4>3. CASE j \in 1 .. Len(s)
          BY <2>3, <2>5, <3>3, <4>1, <4>3 DEF Running
        <4> QED
          BY <3>1, <4>2, <4>3
      <3> QED
        BY <3>2, <3>3 DEF Running
    <2>8. \A d \in Callers : Running(stack[d])'
      <3>1. \A d \in Callers : stack'[d] = t
        BY <1>0, <2>1
      <3> QED
        BY <2>1, <2>7, <3>1 DEF Running
    <2> QED
      BY <1>0, <2>1, <2>8 DEF HandedInv
  <1>8. ASSUME NEW c \in Callers, FactoryReturns(c) PROVE HandedInv'
    <2> DEFINE s == stack[c]
               f == Top(c).format
               t == LookedUp(Front(s), f)
    <2>1. /\ s # <<>> /\ made' = made + 1 /\ parsers' = [parsers EXCEPT ![f] = made']
          /\ factories' = factories \ {f} /\ handed' = handed \cup {<<f, made'>>}
          /\ stack' = [stack EXCEPT ![c] = t]
      BY <1>8 DEF FactoryReturns
    <2>2. s \in Seq(Frame) /\ Running(s) /\ Len(s) \in Nat
      BY <1>0, <1>1
    <2>3. /\ Len(s) \in 1 .. Len(s) /\ f = s[Len(s)].format /\ f \in Formats
          /\ Front(s) \in Seq(Frame) /\ Len(Front(s)) = Len(s) - 1
          /\ \A i \in 1 .. Len(s) - 1 : Front(s)[i] = s[i]
      BY <2>1, <2>2, TopOfStack DEF Top, Frame
    <2> HIDE DEF f, s
    <2>4. parsers[f] = None
      BY <2>2, <2>3 DEF Running
    <2>5. /\ Len(t) = Len(s) - 1
          /\ \A i \in 1 .. Len(s) - 1 : t[i].format = s[i].format /\ t[i].needs \subseteq s[i].needs
      BY <2>3, LookedUpStack
    <2> HIDE DEF t
    <2>6. \A i \in 1 .. Len(s) - 1 : i \in 1 .. Len(s) /\ s[i].format # f /\ s[i].format \in Formats
      <3>1. ASSUME NEW i \in 1 .. Len(s) - 1
            PROVE  i \in 1 .. Len(s) /\ s[i].format # f /\ s[i].format \in Formats
        <4>1. i \in 1 .. Len(s) /\ i < Len(s)
          BY <2>2
        <4>2. s[i] \in Frame
          BY <2>2, <4>1, ElementOfSeq
        <4>3. Rank[f] < Rank[s[i].format] /\ Rank[f] \in Int
          BY <2>2, <2>3, <4>1, RankFalls DEF Running
        <4> QED
          BY <4>1, <4>2, <4>3 DEF Frame
      <3> QED
        BY <3>1
    <2>7. \A d \in Callers : Running(stack[d])'
      <3>1. \A d \in Callers : stack'[d] = t
        BY <1>0, <2>1
      <3>2. \A i \in 1 .. Len(t) : /\ t[i].format \in factories' /\ parsers'[t[i].format] = None
                                   /\ t[i].needs \subseteq Needs[t[i].format]
        BY <1>0, <2>1, <2>2, <2>3, <2>5, <2>6, ZenonT(40) DEF Running
      <3>3. \A i, j \in 1 .. Len(t) : i < j => Rank[t[j].format] < Rank[t[i].format]
        BY <2>2, <2>5, <2>6 DEF Running
      <3> QED
        BY <3>1, <3>2, <3>3 DEF Running
    <2>8. handed' \subseteq Formats \X Nat /\ \A h \in handed' : parsers'[h[1]] = h[2]
      <3>1. \A h \in handed : h[1] \in Formats /\ h[1] # f
        BY <1>0, <2>4
      <3> QED
        BY <1>0, <2>1, <2>3, <3>1
    <2> QED
      BY <2>7, <2>8 DEF HandedInv
  <1> QED
    BY <1>2, <1>3, <1>4, <1>5, <1>6, <1>7, <1>8, ParserActions DEF Using, Lookup, ClearParsers

\* With one caller, a parser that is registered is replaced by Clear only.
LEMMA ParsersStay ==
    ASSUME ParsersInv, HandedInv, Using
    PROVE  \A f \in Formats : parsers[f] # None => parsers'[f] = parsers[f]
  <1>0. /\ parsers \in [Formats -> Nat \cup {None}] /\ stack \in [Callers -> Seq(Frame)]
        /\ \A c \in Callers : Running(stack[c])
    BY DEF ParsersInv, HandedInv
  <1>1. CASE UNCHANGED parsers
    BY <1>1
  <1>2. ASSUME NEW g \in Formats, NEW p, parsers[g] = None, parsers' = [parsers EXCEPT ![g] = p]
        PROVE  \A f \in Formats : parsers[f] # None => parsers'[f] = parsers[f]
    BY <1>0, <1>2
  <1>3. CASE Register
    <2>1. PICK g \in Formats : parsers[g] = None /\ parsers' = [parsers EXCEPT ![g] = made']
      BY <1>3 DEF Register, IsFree
    <2> QED
      BY <1>2, <2>1
  <1>4. CASE RegisterLazy
    BY <1>1, <1>4 DEF RegisterLazy
  <1>5. ASSUME NEW c \in Callers, NEW f \in Formats,
               GetParserFinds(c, f) \/ FallsBack(c, f) \/ FactoryCalled(c, f)
        PROVE  UNCHANGED parsers
    BY <1>5, StandIn DEF GetParserFinds, FactoryCalled
  <1>6. ASSUME NEW c \in Callers, FactoryReturns(c)
        PROVE  \A f \in Formats : parsers[f] # None => parsers'[f] = parsers[f]
    <2> DEFINE s == stack[c]
               g == Top(c).format
    <2>1. s # <<>> /\ parsers' = [parsers EXCEPT ![g] = made']
      BY <1>6 DEF FactoryReturns
    <2>2. s \in Seq(Frame) /\ Running(s)
      BY <1>0
    <2>3. Len(s) \in 1 .. Len(s) /\ g = s[Len(s)].format /\ g \in Formats
      BY <2>1, <2>2, TopOfStack DEF Top, Frame
    <2>4. parsers[g] = None
      BY <2>2, <2>3 DEF Running
    <2> HIDE DEF g
    <2> QED
      BY <1>2, <2>1, <2>3, <2>4
  <1> QED
    BY <1>1, <1>3, <1>4, <1>5, <1>6 DEF Using, Lookup

\* For every set of formats, every nesting of factories and every order of calls of one caller:
\* under an ID there is one parser until the next Clear, for those too who are given it in the stead
\* of another.
THEOREM OneParserPerFormatCorrect ==
    ASSUME \A c, d \in Callers : c = d PROVE TextSpec => []OneParserPerFormat
  <1>1. ParsersInv /\ HandedInv /\ [TextNext]_all => HandedInv'
    BY HandedStep
  <1>2. HandedInv => OneParserPerFormat
    BY DEF HandedInv, OneParserPerFormat
  <1> QED
    BY ParsersInit, ParsersStep, HandedInit, <1>1, <1>2, PTL DEF TextSpec
-----------------------------------------------------------------------------
(* The types: the slice lies in its array, and every parser that was made  *)
(* was registered, as one or as a factory that is gone.                    *)

CapInv ==
    /\ cap \in Len(formats) .. MaxFormats
    /\ held # Nil => held.index \in 1 .. MaxFormats

\* Every operation of the format registry keeps the slice in its array.
LEMMA CapStep == FormatsInv /\ CapInv /\ (FormatsNext \/ UNCHANGED registry) => CapInv'
  <1> SUFFICES ASSUME FormatsInv, CapInv, FormatsNext \/ UNCHANGED registry PROVE CapInv'
    OBVIOUS
  <1> DEFINE n == Len(formats)
  <1>0. /\ formats \in Seq(Known) /\ n \in Nat /\ cap \in n .. MaxFormats
        /\ held # Nil => held.index \in 1 .. MaxFormats
        /\ held \in {Nil} \cup [index : Nat, shows : Known, shared : BOOLEAN, first : Known]
    BY LenProperties DEF FormatsInv, CapInv
  <1>1. CASE UNCHANGED registry
    BY <1>0, <1>1 DEF CapInv
  <1>2. ASSUME NEW fs \in Seq(Known), AppendAll(fs) PROVE CapInv'
    <2> DEFINE m == Len(formats')
    <2>1. m = n + Len(fs) /\ Len(fs) \in Nat
      BY <1>0, <1>2, ConcatProperties, LenProperties DEF AppendAll
    <2>2. /\ n + Len(fs) <= MaxFormats
          /\ \/ cap' = cap /\ n + Len(fs) <= cap
             \/ cap' \in n + Len(fs) .. MaxFormats
      BY <1>2 DEF AppendAll
    <2>3. held' # Nil => held # Nil /\ held'.index = held.index
      <3>1. \/ held' = held
            \/ held # Nil /\ held' = [held EXCEPT !.shared = FALSE]
            \/ held # Nil /\ held' = [held EXCEPT !.shows = formats'[held.index]]
        BY <1>2 DEF AppendAll
      <3> QED
        BY <1>0, <3>1
    <2> HIDE DEF n, m
    <2>4. cap' \in m .. MaxFormats
      BY <1>0, <2>1, <2>2
    <2> QED
      BY <1>0, <2>3, <2>4 DEF CapInv, m
  <1>3. ASSUME NEW i \in 0 .. n, HandOut(i) PROVE CapInv'
    <2>1. /\ i \in 1 .. n /\ UNCHANGED <<formats, cap>> /\ held'.index = i
      BY <1>3 DEF HandOut
    <2>2. i \in 1 .. MaxFormats
      <3> HIDE DEF n
      <3> QED
        BY <1>0, <2>1
    <2> QED
      BY <1>0, <2>1, <2>2 DEF CapInv
  <1>4. ASSUME NEW f \in Known, RegisterFormat(f) PROVE CapInv'
    <2>1. <<f>> \in Seq(Known) /\ AppendAll(<<f>>)
      BY <1>4 DEF RegisterFormat
    <2> QED
      BY <1>2, <2>1
  <1>5. ASSUME NEW f \in Known, NEW g \in Known, RegisterAll(f, g) PROVE CapInv'
    <2>1. <<f, g>> \in Seq(Known) /\ AppendAll(<<f, g>>)
      BY <1>5 DEF RegisterAll
    <2> QED
      BY <1>2, <2>1
  <1>6. ASSUME NEW f \in Known, GetByID(f.id) PROVE CapInv'
    <2>1. GetByIDIndex(f.id) \in 0 .. n
      BY <1>0, IndexInRange DEF GetByIDIndex, FirstOf
    <2> QED
      BY <1>3, <1>6, <2>1 DEF GetByID
  <1>7. ASSUME NEW e \in Spellings, GetByExtension(e) PROVE CapInv'
    <2>1. GetByExtensionIndex(e) \in 0 .. n
      BY <1>0, IndexInRange DEF GetByExtensionIndex, FirstOf
    <2> QED
      BY <1>3, <1>7, <2>1 DEF GetByExtension
  <1>8. ASSUME NEW c \in Contents, DetectByContent(c) PROVE CapInv'
    <2>1. DetectByContentIndex(c) \in 0 .. n
      BY <1>0, IndexInRange DEF DetectByContentIndex, FirstOf
    <2> QED
      BY <1>3, <1>8, <2>1 DEF DetectByContent
  <1>9. CASE ClearFormats
    <2>1. /\ formats' = <<>> /\ cap' = 0
          /\ held' = IF held # Nil THEN [held EXCEPT !.shared = FALSE] ELSE held
      BY <1>9 DEF ClearFormats
    <2>2. Len(formats') = 0
      BY <2>1, EmptySeq
    <2>3. held' # Nil => held # Nil /\ held'.index = held.index
      BY <1>0, <2>1
    <2> QED
      BY <1>0, <2>1, <2>2, <2>3 DEF CapInv
  <1> QED
    BY <1>1, <1>4, <1>5, <1>6, <1>7, <1>8, <1>9 DEF FormatsNext

CountInv ==
    /\ count \in 0 .. MaxRegistrations
    /\ IsFiniteSet(factories) /\ made + Cardinality(factories) <= count
    /\ \A f \in Formats : parsers[f] # None => parsers[f] \in 1 .. made
    /\ \A h \in handed : h[2] \in 1 .. made

\* With no two factories of a format running, every step makes at most the parsers that were
\* registered.
LEMMA CountStep == ParsersInv /\ HandedInv /\ CountInv /\ [TextNext]_all => CountInv'
  <1> SUFFICES ASSUME ParsersInv, HandedInv, CountInv, [TextNext]_all PROVE CountInv'
    OBVIOUS
  <1> DEFINE k == Cardinality(factories)
  <1>0. /\ parsers \in [Formats -> Nat \cup {None}] /\ made \in Nat
        /\ stack \in [Callers -> Seq(Frame)] /\ \A c \in Callers : Running(stack[c])
        /\ count \in 0 .. MaxRegistrations
        /\ IsFiniteSet(factories) /\ k \in Nat /\ made + k <= count
        /\ \A f \in Formats : parsers[f] # None => parsers[f] \in 1 .. made
        /\ \A h \in handed : h[2] \in 1 .. made
    BY FS_CardinalityType DEF ParsersInv, HandedInv, CountInv
  <1> HIDE DEF k
  <1>1. CASE UNCHANGED vars
    BY <1>0, <1>1 DEF CountInv, k
  <1>2. CASE Register
    <2>1. PICK f \in Formats : parsers' = [parsers EXCEPT ![f] = made']
      BY <1>2 DEF Register
    <2>2. /\ count < MaxRegistrations /\ count' = count + 1 /\ made' = made + 1
          /\ UNCHANGED <<factories, handed>>
      BY <1>2 DEF Register
    <2>3. count' \in 0 .. MaxRegistrations /\ made' + k <= count'
      BY <1>0, <2>2
    <2>4. \A g \in Formats : parsers'[g] # None => parsers'[g] \in 1 .. made'
      BY <1>0, <2>1, <2>2
    <2>5. \A h \in handed' : h[2] \in 1 .. made'
      BY <1>0, <2>2
    <2> QED
      BY <1>0, <2>2, <2>3, <2>4, <2>5 DEF CountInv, k
  <1>3. CASE RegisterLazy
    <2>1. PICK f \in Formats : f \notin factories /\ factories' = factories \cup {f}
      BY <1>3 DEF RegisterLazy, IsFree
    <2>2. /\ count < MaxRegistrations /\ count' = count + 1
          /\ UNCHANGED <<parsers, made, handed>>
      BY <1>3 DEF RegisterLazy
    <2>3. IsFiniteSet(factories') /\ Cardinality(factories') = k + 1
      BY <1>0, <2>1, FS_AddElement DEF k
    <2>4. count' \in 0 .. MaxRegistrations /\ made' + Cardinality(factories') <= count'
      BY <1>0, <2>2, <2>3
    <2> QED
      BY <1>0, <2>2, <2>3, <2>4 DEF CountInv
  <1>4. CASE Clear
    <2>1. /\ parsers' = NoParsers /\ factories' = {} /\ handed' = {} /\ UNCHANGED <<made, count>>
      BY <1>4 DEF Clear
    <2>2. IsFiniteSet(factories') /\ Cardinality(factories') = 0
      BY <2>1, FS_EmptySet
    <2>3. made' + Cardinality(factories') <= count'
      BY <1>0, <2>1, <2>2
    <2> QED
      BY <1>0, <2>1, <2>2, <2>3 DEF CountInv, NoParsers
  <1>5. ASSUME NEW c \in Callers, NEW f \in Formats,
               GetParserFinds(c, f) \/ FallsBack(c, f) \/ FactoryCalled(c, f)
        PROVE  CountInv'
    <2>1. /\ UNCHANGED <<parsers, factories, made, count>>
          /\ \/ handed' = handed
             \/ \E g \in Formats : parsers[g] # None /\ handed' = handed \cup {<<g, parsers[g]>>}
      BY <1>5, StandIn DEF GetParserFinds, FactoryCalled
    <2>2. \A h \in handed' : h[2] \in 1 .. made'
      BY <1>0, <2>1
    <2> QED
      BY <1>0, <2>1, <2>2 DEF CountInv, k
  <1>6. ASSUME NEW c \in Callers, FactoryReturns(c) PROVE CountInv'
    <2> DEFINE s == stack[c]
               f == Top(c).format
    <2>1. /\ s # <<>> /\ made' = made + 1 /\ parsers' = [parsers EXCEPT ![f] = made']
          /\ factories' = factories \ {f} /\ handed' = handed \cup {<<f, made'>>}
          /\ UNCHANGED count
      BY <1>6 DEF FactoryReturns
    <2>2. s \in Seq(Frame) /\ Running(s)
      BY <1>0
    <2>3. Len(s) \in 1 .. Len(s) /\ f = s[Len(s)].format /\ f \in Formats
      BY <2>1, <2>2, TopOfStack DEF Top, Frame
    <2>4. f \in factories
      BY <2>2, <2>3 DEF Running
    <2> HIDE DEF f, s
    <2>5. IsFiniteSet(factories') /\ Cardinality(factories') = k - 1
      BY <1>0, <2>1, <2>4, FS_RemoveElement DEF k
    <2>6. made' + Cardinality(factories') <= count'
      BY <1>0, <2>1, <2>5
    <2>7. \A g \in Formats : parsers'[g] # None => parsers'[g] \in 1 .. made'
      BY <1>0, <2>1, <2>3
    <2>8. \A h \in handed' : h[2] \in 1 .. made'
      BY <1>0, <2>1
    <2> QED
      BY <1>0, <2>1, <2>5, <2>6, <2>7, <2>8 DEF CountInv
  <1> QED
    BY <1>1, <1>2, <1>3, <1>4, <1>5, <1>6, ParserActions DEF Using, Lookup, ClearParsers
-----------------------------------------------------------------------------
(* The format that the files of an extension are given is the first that  *)
(* claims it, and the parser is its own from the moment that there is one.  *)

\* The format at i claims the clean extension x.
Claims(i, x) == \E y \in formats[i].exts : Lower[y] = x

\* The first format that claims x has the ID f.
FirstIs(x, f) ==
    \E i \in 1 .. Len(formats) :
        Claims(i, x) /\ (\A j \in 1 .. i - 1 : ~ Claims(j, x)) /\ formats[i].id = f

\* The parser registered under g is one for format f, or stands in for it.
Serves(f, g) == IF g = f THEN ~ IsFree(f) ELSE g \in Accepting(f)

GivenInv ==
    /\ given \in [Spellings -> {None} \cup Assignment]
    /\ \A x \in Spellings : given[x] # None =>
          /\ FirstIs(x, given[x].format)
          /\ given[x].from # None => Serves(given[x].format, given[x].from)

\* A lookup by extension finds the first format that claims it.
LEMMA FirstClaims ==
    ASSUME formats \in Seq(Known), NEW e, IsExtensionSupported(e)
    PROVE  LET i == GetByExtensionIndex(e) IN
           /\ i \in 1 .. Len(formats) /\ Claims(i, cleanExtension(e))
           /\ \A j \in 1 .. i - 1 : ~ Claims(j, cleanExtension(e))
  <1> DEFINE n == Len(formats)
             x == cleanExtension(e)
             I == {i \in 1 .. n : HasExtension(formats[i], e)}
  <1>1. GetByExtensionIndex(e) = IF I # {} THEN Min(I) ELSE 0
    BY DEF GetByExtensionIndex, FirstOf, SelectInSeq
  <1>2. I = {i \in 1 .. n : Claims(i, x)}
    BY DEF HasExtension, Claims
  <1>3. n \in Nat
    BY LenProperties
  <1> HIDE DEF n, I, x
  <1>4. I # {} /\ GetByExtensionIndex(e) = Min(I)
    BY <1>1 DEF IsExtensionSupported
  <1>5. Min(I) \in I /\ \A i \in I : Min(I) <= i
    <2>1. I \in SUBSET (1 .. n)
      BY <1>2
    <2> QED
      BY <1>3, <1>4, <2>1, MinOfInterval
  <1>6. Min(I) \in 1 .. n /\ Claims(Min(I), x)
    BY <1>2, <1>5
  <1>7. ASSUME NEW j \in 1 .. Min(I) - 1, Claims(j, x) PROVE FALSE
    <2>1. j \in 1 .. n /\ ~ (Min(I) <= j)
      BY <1>3, <1>6
    <2>2. j \in I
      BY <1>2, <1>7, <2>1
    <2> QED
      BY <1>5, <2>1, <2>2
  <1> QED
    BY <1>4, <1>6, <1>7 DEF n, x

\* An operation of the format registry adds formats at the end, or none, or clears it.
LEMMA FormatsGrow ==
    FormatsNext => \/ \E fs \in Seq(Known) : formats' = formats \o fs
                   \/ UNCHANGED formats
                   \/ formats' = <<>>
  <1> SUFFICES ASSUME FormatsNext
               PROVE  \/ \E fs \in Seq(Known) : formats' = formats \o fs
                      \/ UNCHANGED formats
                      \/ formats' = <<>>
    OBVIOUS
  <1>1. ASSUME NEW f \in Known, RegisterFormat(f)
        PROVE  \E fs \in Seq(Known) : formats' = formats \o fs
    <2>1. <<f>> \in Seq(Known) /\ formats' = formats \o <<f>>
      BY <1>1 DEF RegisterFormat, AppendAll
    <2> QED
      BY <2>1
  <1>2. ASSUME NEW f \in Known, NEW g \in Known, RegisterAll(f, g)
        PROVE  \E fs \in Seq(Known) : formats' = formats \o fs
    <2>1. <<f, g>> \in Seq(Known) /\ formats' = formats \o <<f, g>>
      BY <1>2 DEF RegisterAll, AppendAll
    <2> QED
      BY <2>1
  <1>3. ASSUME NEW i, HandOut(i) PROVE UNCHANGED formats
    BY <1>3 DEF HandOut
  <1> QED
    BY <1>1, <1>2, <1>3
    DEF FormatsNext, GetByID, GetByExtension, DetectByContent, ClearFormats

\* No two formats are the first.
LEMMA FirstIsOne == ASSUME NEW x, NEW f, NEW g, FirstIs(x, f), FirstIs(x, g) PROVE f = g
  <1>1. PICK i \in 1 .. Len(formats) :
           Claims(i, x) /\ (\A j \in 1 .. i - 1 : ~ Claims(j, x)) /\ formats[i].id = f
    BY DEF FirstIs
  <1>2. PICK m \in 1 .. Len(formats) :
           Claims(m, x) /\ (\A j \in 1 .. m - 1 : ~ Claims(j, x)) /\ formats[m].id = g
    BY DEF FirstIs
  <1>3. i \in Nat /\ m \in Nat /\ i >= 1 /\ m >= 1
    OBVIOUS
  <1>4. ASSUME i < m PROVE FALSE
    <2>1. i \in 1 .. m - 1
      BY <1>3, <1>4
    <2> QED
      BY <1>1, <1>2, <2>1
  <1>5. ASSUME m < i PROVE FALSE
    <2>1. m \in 1 .. i - 1
      BY <1>3, <1>5
    <2> QED
      BY <1>1, <1>2, <2>1
  <1>6. i = m
    BY <1>3, <1>4, <1>5
  <1> QED
    BY <1>1, <1>2, <1>6

\* A format that is added behind the others is not the first where one was before.
LEMMA FirstStays ==
    ASSUME formats \in Seq(Known),
           UNCHANGED formats \/ \E fs \in Seq(Known) : formats' = formats \o fs,
           NEW x, NEW f, FirstIs(x, f)
    PROVE  FirstIs(x, f)'
  <1>1. PICK i \in 1 .. Len(formats) :
           Claims(i, x) /\ (\A j \in 1 .. i - 1 : ~ Claims(j, x)) /\ formats[i].id = f
    BY DEF FirstIs
  <1>2. CASE UNCHANGED formats
    BY <1>1, <1>2 DEF FirstIs, Claims
  <1>3. ASSUME NEW fs \in Seq(Known), formats' = formats \o fs PROVE FirstIs(x, f)'
    <2> DEFINE n == Len(formats)
               m == Len(formats')
    <2>1. n \in Nat /\ m \in Nat /\ n <= m /\ \A j \in 1 .. n : formats'[j] = formats[j]
      <3>1. /\ m = n + Len(fs) /\ Len(fs) \in Nat /\ n \in Nat
            /\ \A j \in 1 .. n + Len(fs) : formats'[j] = IF j <= n THEN formats[j] ELSE fs[j - n]
        BY <1>3, ConcatProperties, LenProperties
      <3> HIDE DEF n, m
      <3>2. \A j \in 1 .. n : j \in 1 .. n + Len(fs) /\ j <= n
        BY <3>1
      <3> QED
        BY <3>1, <3>2
    <2>2. i \in 1 .. n
      OBVIOUS
    <2> HIDE DEF n, m
    <2>3. i \in 1 .. m /\ \A j \in 1 .. i - 1 : j \in 1 .. n
      BY <2>1, <2>2
    <2>4. \A j \in 1 .. n : \A y : Claims(j, y)' <=> Claims(j, y)
      BY <2>1 DEF Claims
    <2>5. Claims(i, x)' /\ (\A j \in 1 .. i - 1 : ~ Claims(j, x)') /\ formats'[i].id = f
      BY <1>1, <2>1, <2>2, <2>3, <2>4
    <2> QED
      BY <2>3, <2>5 DEF FirstIs, m
  <1> QED
    BY <1>2, <1>3

\* GetParser's choice for f: the parser of f itself just if it has one, and none only if no other
\* accepts f either.
Chosen(f, g) ==
    /\ g = f <=> ~ IsFree(f)
    /\ IF g = None THEN Accepting(f) = {} ELSE Serves(f, g)

\* What Open gives a file to: the format that claims its extension first, and a parser chosen for
\* that format.
LEMMA OpenGives ==
    ASSUME FormatsInv, ParsersInv, NEW c \in Callers, NEW e \in Spellings \cup {""}, Open(c, e)
    PROVE  /\ UNCHANGED <<formats, parsers, factories>>
           /\ \/ given' = given
              \/ \E x \in Spellings, f \in Formats, g \in Formats \cup {None} :
                    /\ given' = [given EXCEPT ![x] = [format |-> f, from |-> g]]
                    /\ FirstIs(x, f) /\ Chosen(f, g)
  <1> DEFINE f == DetectByFilename(e)
             x == cleanExtension(e)
             i == GetByExtensionIndex(e)
             GivenTo(g) == given' = IF e # "" /\ IsExtensionSupported(e)
                                    THEN [given EXCEPT ![x] = [format |-> f, from |-> g]]
                                    ELSE given
  <1>0. formats \in Seq(Known)
    BY DEF FormatsInv
  <1>1. UNCHANGED formats
    BY DEF Open
  <1>2. \/ (GetParserFinds(c, f) \/ FactoryCalled(c, f)) /\ GivenTo(f)
        \/ \E g \in Formats \cup {None} : GetParserFallsBack(c, f, g) /\ GivenTo(g)
    BY DEF Open
  <1>3. f \in Formats
    BY DEF Open, GetParserFinds, FactoryCalled, GetParserFallsBack, MayLookUp
  <1>4. ASSUME e # "", IsExtensionSupported(e) PROVE x \in Spellings /\ FirstIs(x, f)
    <2>1. x \in Spellings
      BY <1>4, SpellingsAssumption DEF cleanExtension
    <2>2. i \in 1 .. Len(formats) /\ Claims(i, x) /\ \A j \in 1 .. i - 1 : ~ Claims(j, x)
      BY <1>0, <1>4, FirstClaims
    <2>3. f = formats[i].id
      BY <1>4 DEF DetectByFilename, DetectByExtension
    <2> HIDE DEF f, x, i
    <2> QED
      BY <2>1, <2>2, <2>3 DEF FirstIs
  <1> HIDE DEF f, x, i
  <1>5. ASSUME NEW g \in Formats \cup {None}, GivenTo(g), Chosen(f, g)
        PROVE  \/ given' = given
               \/ \E y \in Spellings, h \in Formats, k \in Formats \cup {None} :
                     /\ given' = [given EXCEPT ![y] = [format |-> h, from |-> k]]
                     /\ FirstIs(y, h) /\ Chosen(h, k)
    <2>1. CASE e # "" /\ IsExtensionSupported(e)
      BY <1>3, <1>4, <1>5, <2>1
    <2>2. CASE ~ (e # "" /\ IsExtensionSupported(e))
      BY <1>5, <2>2
    <2> QED
      BY <2>1, <2>2
  <1>6. CASE (GetParserFinds(c, f) \/ FactoryCalled(c, f)) /\ GivenTo(f)
    <2>0. ~ IsFree(f) /\ UNCHANGED <<parsers, factories>>
      BY <1>6 DEF GetParserFinds, FactoryCalled, IsFree
    <2>1. Chosen(f, f) /\ UNCHANGED <<parsers, factories>>
      BY <1>3, <2>0, BoundAssumption DEF Chosen, Serves
    <2>2. GivenTo(f)
      BY <1>6
    <2> HIDE DEF GivenTo
    <2> QED
      BY <1>1, <1>3, <1>5, <2>1, <2>2
  <1>7. ASSUME NEW g \in Formats \cup {None}, GetParserFallsBack(c, f, g), GivenTo(g)
        PROVE  /\ UNCHANGED <<formats, parsers, factories>>
               /\ \/ given' = given
                  \/ \E y \in Spellings, h \in Formats, k \in Formats \cup {None} :
                        /\ given' = [given EXCEPT ![y] = [format |-> h, from |-> k]]
                        /\ FirstIs(y, h) /\ Chosen(h, k)
    <2>1. IsFree(f) /\ UNCHANGED <<parsers, factories>>
      BY <1>7 DEF GetParserFallsBack
    <2>2. g # f
      <3>1. g = None \/ parsers[g] # None
        BY <1>7 DEF GetParserFallsBack, Accepting
      <3> QED
        BY <1>3, <2>1, <3>1 DEF IsFree
    <2>3. Chosen(f, g)
      <3>1. IF g = None THEN Accepting(f) = {} ELSE g \in Accepting(f)
        BY <1>7 DEF GetParserFallsBack, Accepting
      <3> QED
        BY <2>1, <2>2, <3>1 DEF Chosen, Serves
    <2>4. GivenTo(g)
      BY <1>7
    <2> HIDE DEF GivenTo
    <2> QED
      BY <1>1, <1>5, <2>1, <2>3, <2>4
  <1> QED
    BY <1>2, <1>6, <1>7

\* Every step keeps it: formats are only added behind the first claims, and an entry of the
\* parser registry stays.
LEMMA GivenStep == FormatsInv /\ ParsersInv /\ GivenInv /\ [TextNext]_all => GivenInv'
  <1> SUFFICES ASSUME FormatsInv, ParsersInv, GivenInv, [TextNext]_all PROVE GivenInv'
    OBVIOUS
  <1>0. /\ formats \in Seq(Known) /\ given \in [Spellings -> {None} \cup Assignment]
        /\ \A x \in Spellings : given[x] # None =>
              /\ given[x] \in Assignment /\ FirstIs(x, given[x].format)
              /\ given[x].from # None => Serves(given[x].format, given[x].from)
    BY DEF FormatsInv, GivenInv
  <1>1. ASSUME UNCHANGED formats \/ \E fs \in Seq(Known) : formats' = formats \o fs,
               \A f, g \in Formats : Serves(f, g) => Serves(f, g)',
               NEW x \in Spellings, given[x] # None, given'[x] = given[x]
        PROVE  /\ FirstIs(x, given[x].format)'
               /\ given'[x].from # None => Serves(given[x].format, given[x].from)'
    <2>1. PICK f \in Formats, g \in Formats \cup {None} : given[x].format = f /\ given[x].from = g
      BY <1>0, <1>1 DEF Assignment
    <2>2. FirstIs(x, f)'
      BY <1>0, <1>1, <2>1, FirstStays
    <2>3. g # None => Serves(f, g)'
      BY <1>0, <1>1, <2>1
    <2>4. given'[x].format = f /\ given'[x].from = g
      BY <1>1, <2>1
    <2> QED
      BY <2>2, <2>3, <2>4
  <1>2. ASSUME UNCHANGED formats \/ \E fs \in Seq(Known) : formats' = formats \o fs,
               \A f, g \in Formats : Serves(f, g) => Serves(f, g)', given' = given
        PROVE  GivenInv'
    BY <1>0, <1>1, <1>2 DEF GivenInv
  <1>3. CASE FormatStep
    <2>1. FormatsNext /\ UNCHANGED vars /\ given' = IF formats' = <<>> THEN NothingGiven ELSE given
      BY <1>3 DEF FormatStep
    <2>2. CASE formats' = <<>>
      BY <2>1, <2>2 DEF GivenInv, NothingGiven
    <2>3. CASE formats' # <<>>
      <3>1. UNCHANGED formats \/ \E fs \in Seq(Known) : formats' = formats \o fs
        BY <2>1, <2>3, FormatsGrow
      <3> QED
        BY <1>2, <2>1, <2>3, <3>1 DEF Serves, IsFree, Accepting, vars
    <2> QED
      BY <2>2, <2>3
  <1>4. CASE ParserStep \/ UNCHANGED all
    <2>1. Using /\ given' = given /\ UNCHANGED formats
      BY <1>4 DEF ParserStep, Using, Use, GetParser, Lookup, FallsBack
    <2>2. \A f, g \in Formats : Serves(f, g) => Serves(f, g)'
      BY <2>1, EntriesStay DEF Serves, IsFree, Accepting
    <2> QED
      BY <1>2, <2>1, <2>2
  <1>5. CASE ClearParsers
    <2>1. /\ UNCHANGED formats
          /\ given' = [x \in Spellings |-> IF given[x] = None THEN None
                                           ELSE [format |-> given[x].format, from |-> None]]
      BY <1>5 DEF ClearParsers
    <2>2. given' \in [Spellings -> {None} \cup Assignment]
      BY <1>0, <2>1 DEF Assignment
    <2>3. ASSUME NEW x \in Spellings, given'[x] # None
          PROVE  FirstIs(x, given[x].format)' /\ given'[x].from = None
      <3>1. /\ given[x] # None /\ given'[x] = [format |-> given[x].format, from |-> None]
        BY <2>1, <2>3
      <3>2. PICK f \in Formats : given[x].format = f
        BY <1>0, <3>1 DEF Assignment
      <3>3. FirstIs(x, f)'
        BY <1>0, <2>1, <3>1, <3>2, FirstStays
      <3>4. given'[x].format = f /\ given'[x].from = None
        BY <3>1, <3>2
      <3> QED
        BY <3>3, <3>4
    <2> QED
      BY <2>2, <2>3 DEF GivenInv
  <1>6. ASSUME NEW c \in Callers, NEW e \in Spellings \cup {""}, Open(c, e) PROVE GivenInv'
    <2>1. UNCHANGED <<formats, parsers, factories>>
      BY <1>6, OpenGives
    <2>2. \A f, g \in Formats : Serves(f, g)' <=> Serves(f, g)
      BY <2>1 DEF Serves, IsFree, Accepting
    <2>3. CASE given' = given
      BY <1>2, <2>1, <2>2, <2>3
    <2>4. ASSUME NEW y \in Spellings, NEW f \in Formats, NEW g \in Formats \cup {None},
                 given' = [given EXCEPT ![y] = [format |-> f, from |-> g]],
                 FirstIs(y, f), Chosen(f, g)
          PROVE  GivenInv'
      <3>1. [format |-> f, from |-> g] \in Assignment
        BY DEF Assignment
      <3>2. given' \in [Spellings -> {None} \cup Assignment]
        BY <1>0, <2>4, <3>1
      <3>3. ASSUME NEW x \in Spellings, given'[x] # None
            PROVE  /\ FirstIs(x, given[x].format)'
                   /\ given'[x].from # None => Serves(given[x].format, given[x].from)'
        <4>1. CASE x # y
          BY <1>0, <1>1, <2>1, <2>2, <2>4, <3>3, <4>1
        <4>2. CASE x = y
          <5>1. given'[x].format = f /\ given'[x].from = g
            BY <1>0, <2>4, <4>2
          <5>2. FirstIs(x, f)'
            BY <1>0, <2>1, <2>4, <4>2, FirstStays
          <5>3. g # None => Serves(f, g)'
            BY <2>2, <2>4 DEF Chosen
          <5> QED
            BY <5>1, <5>2, <5>3
        <4> QED
          BY <4>1, <4>2
      <3> QED
        BY <3>2, <3>3 DEF GivenInv
    <2> QED
      BY <1>6, <2>3, <2>4, OpenGives
  <1> QED
    BY <1>3, <1>4, <1>5, <1>6 DEF TextNext

\* All three hold at first.
LEMMA TextInvInit == TextInit => CapInv /\ CountInv /\ GivenInv
  <1> SUFFICES ASSUME TextInit PROVE CapInv /\ CountInv /\ GivenInv
    OBVIOUS
  <1>1. CapInv
    BY DEF TextInit, InitFormats, CapInv
  <1>2. CountInv
    BY FS_EmptySet DEF TextInit, Init, NoParsers, CountInv
  <1>3. GivenInv
    BY DEF TextInit, GivenInv, NothingGiven
  <1> QED
    BY <1>1, <1>2, <1>3

\* For every set of formats, every nesting of factories and every order of calls of one caller:
\* the slice lies in its array, and never are more parsers made than were registered.
THEOREM TextTypeCorrect == ASSUME \A c, d \in Callers : c = d PROVE TextSpec => []TextTypeOK
  <1>1. FormatsInv /\ CapInv /\ ParsersInv /\ HandedInv /\ CountInv /\ GivenInv => TextTypeOK
    <2> SUFFICES ASSUME FormatsInv, CapInv, ParsersInv, HandedInv, CountInv, GivenInv
                 PROVE  TextTypeOK
      OBVIOUS
    <2>1. FormatsTypeOK
      BY LenProperties DEF FormatsInv, CapInv, FormatsTypeOK
    <2>2. count \in 0 .. MaxRegistrations /\ made \in 0 .. count
      BY FS_CardinalityType DEF ParsersInv, CountInv
    <2>3. /\ parsers \in [Formats -> (1 .. made) \cup {None}] /\ handed \subseteq Formats \X (1 .. made)
      BY DEF ParsersInv, HandedInv, CountInv
    <2> QED
      BY <2>1, <2>2, <2>3 DEF ParsersInv, GivenInv, TextTypeOK, TypeOK, Frame
  <1>2. ParsersInv /\ HandedInv /\ [TextNext]_all => HandedInv'
    BY HandedStep
  <1>3. FormatsInv /\ CapInv /\ [TextNext]_all => FormatsInv' /\ CapInv'
    BY FormatsActions, FormatsStep, CapStep
  <1> QED
    BY FormatsInit, TextInvInit, ParsersInit, HandedInit, ParsersStep, CountStep, GivenStep,
       <1>1, <1>2, <1>3, PTL DEF TextSpec

\* For every set of formats, whatever extensions they claim in whatever spellings, every set of parsers,
\* whatever formats they accept, and every order of calls of one caller: an extension keeps its
\* format, and the parser of that format from the moment that it is given one of its files; until
\* then its files, once one of them was given to a parser, are given to parsers that accept them.
THEOREM OneParserPerExtensionCorrect ==
    ASSUME \A c, d \in Callers : c = d PROVE TextSpec => OneParserPerExtension
  <1>1. ASSUME FormatsInv, ParsersInv, HandedInv, GivenInv, [TextNext]_all, formats' # <<>>,
               NEW x \in Spellings, given[x] # None
        PROVE  /\ given'[x].format = given[x].format
               /\ ~ Clear /\ given[x].from # None =>
                     /\ given[x].from = given[x].format => given'[x].from = given[x].format
                     /\ given'[x].from # given[x].format =>
                           given'[x].from # None /\ given[x].format \in CanParse[given'[x].from]
                     /\ parsers[given[x].from] \in {None, parsers'[given[x].from]}
    <2>0. /\ given \in [Spellings -> {None} \cup Assignment] /\ given[x] \in Assignment
          /\ FirstIs(x, given[x].format)
          /\ given[x].from # None => Serves(given[x].format, given[x].from)
      BY <1>1 DEF GivenInv
    <2>1. ~ Clear /\ given[x].from # None => parsers[given[x].from] \in {None, parsers'[given[x].from]}
      <3>1. ~ Clear => Using
        BY <1>1, ParserActions DEF ClearParsers
      <3>2. given[x].from # None => given[x].from \in Formats
        BY <2>0 DEF Assignment
      <3> QED
        BY <1>1, <3>1, <3>2, ParsersStay
    <2>2. CASE given' = given
      BY <2>0, <2>1, <2>2 DEF Serves, Accepting
    <2>3. CASE FormatStep \/ ParserStep \/ UNCHANGED all
      BY <1>1, <2>2, <2>3 DEF FormatStep, ParserStep
    <2>4. CASE ClearParsers
      <3>1. Clear /\ given'[x] = [format |-> given[x].format, from |-> None]
        BY <1>1, <2>4 DEF ClearParsers
      <3> QED
        BY <3>1
    <2>5. ASSUME NEW c \in Callers, NEW e \in Spellings \cup {""}, Open(c, e)
          PROVE  /\ given'[x].format = given[x].format
                 /\ given[x].from = given[x].format => given'[x].from = given[x].format
                 /\ given[x].from # None /\ given'[x].from # given[x].format =>
                       given'[x].from # None /\ given[x].format \in CanParse[given'[x].from]
      <3>1. ASSUME NEW y \in Spellings, NEW f \in Formats, NEW g \in Formats \cup {None},
                   given' = [given EXCEPT ![y] = [format |-> f, from |-> g]],
                   FirstIs(y, f), Chosen(f, g)
            PROVE  /\ given'[x].format = given[x].format
                   /\ given[x].from = given[x].format => given'[x].from = given[x].format
                   /\ given[x].from # None /\ given'[x].from # given[x].format =>
                         given'[x].from # None /\ given[x].format \in CanParse[given'[x].from]
        <4>1. CASE x # y
          BY <2>0, <3>1, <4>1 DEF Serves, Accepting
        <4>2. CASE x = y
          <5>1. given'[x].format = f /\ given'[x].from = g
            BY <2>0, <3>1, <4>2
          <5>2. given[x].format = f
            BY <2>0, <3>1, <4>2, FirstIsOne
          <5>3. f # None
            BY BoundAssumption
          <5>4. given[x].from = f => g = f
            BY <2>0, <3>1, <5>2, <5>3 DEF Serves, Chosen
          <5>5. given[x].from # None => g # None
            <6>1. CASE IsFree(f)
              BY <2>0, <3>1, <5>2, <6>1 DEF Serves, Chosen
            <6>2. CASE ~ IsFree(f)
              BY <3>1, <5>3, <6>2 DEF Chosen
            <6> QED
              BY <6>1, <6>2
          <5>6. g # f /\ g # None => f \in CanParse[g]
            BY <3>1 DEF Serves, Chosen, Accepting
          <5> QED
            BY <5>1, <5>2, <5>4, <5>5, <5>6
        <4> QED
          BY <4>1, <4>2
      <3>2. CASE given' = given
        BY <2>0, <3>2 DEF Serves, Accepting
      <3> QED
        BY <1>1, <2>5, <3>1, <3>2, OpenGives
    <2> QED
      BY <1>1, <2>1, <2>3, <2>4, <2>5 DEF TextNext
  <1>2. FormatsInv /\ ParsersInv /\ HandedInv /\ GivenInv /\ [TextNext]_all =>
          [\A x \in Spellings : given[x] # None =>
              \/ formats' = <<>>
              \/ /\ given'[x].format = given[x].format
                 /\ \/ given[x].from = None \/ Clear
                    \/ LET f == given[x].format
                           g == given[x].from
                           h == given'[x].from IN
                       /\ g = f => h = f
                       /\ h # f => h # None /\ f \in CanParse[h]
                       /\ parsers[g] \in {None, parsers'[g]}]_all
    BY <1>1
  <1>3. ParsersInv /\ HandedInv /\ [TextNext]_all => HandedInv'
    BY HandedStep
  <1>4. FormatsInv /\ [TextNext]_all => FormatsInv'
    BY FormatsActions, FormatsStep
  <1> QED
    BY FormatsInit, TextInvInit, ParsersInit, HandedInit, ParsersStep, GivenStep,
       <1>2, <1>3, <1>4, PTL DEF TextSpec, OneParserPerExtension
=============================================================================
