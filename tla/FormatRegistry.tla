---------------------------- MODULE FormatRegistry ----------------------------
(***************************************************************************)
(* FormatRegistry (pkg/textformat/textformat.go): a slice of text formats, *)
(* searched from the front.  GetByID, GetByExtension and DetectByContent   *)
(* hand out a pointer into the slice, the other lookups copies.            *)
(*                                                                         *)
(* The slice is its elements and its capacity: append writes into the      *)
(* backing array while there is room, and otherwise takes a larger array   *)
(* and leaves the old one to those who hold a pointer into it.             *)
(*                                                                         *)
(* An extension is spelled in some way.  What is registered is compared as *)
(* it stands but for case, what is asked for is trimmed and given a dot.   *)
(***************************************************************************)
EXTENDS Integers, Sequences, SequencesExt, FiniteSets

CONSTANTS
    Known,       \* the formats that are registered: [id, exts, matches], with the
                 \* spellings of their extensions and the contents their patterns match
    Spellings,   \* spellings of extensions
    Lower,       \* spelling -> the spelling in lower case
    Dotted,      \* spelling in lower case -> the spelling with a dot, trimmed
    Contents,    \* contents of documents
    Plaintext,   \* IDPlaintext
    MaxFormats,  \* bound: length and capacity of the slice
    Nil

ASSUME SpellingsAssumption ==
    /\ Lower \in [Spellings -> Spellings] /\ Dotted \in [Spellings -> Spellings]
    /\ \A e \in Spellings : Lower[Lower[e]] = Lower[e] /\ Dotted[Dotted[e]] = Dotted[e]
    /\ \A e \in Spellings : Lower[Dotted[Lower[e]]] = Dotted[Lower[e]]
ASSUME KnownAssumption ==
    \A f \in Known : f.exts \subseteq Spellings /\ f.matches \subseteq Contents
ASSUME MaxFormatsAssumption == MaxFormats \in Nat

VARIABLES
    formats,     \* r.formats
    cap,         \* its capacity
    held         \* the pointer a client got last, or Nil: the index it points to, what is
                 \* there, whether that is still the slice's array, and what was there first

registry == <<formats, cap, held>>

\* NewFormatRegistry copies its arguments.
InitFormats ==
    /\ \E n \in 0 .. 1 : \E fs \in [1 .. n -> Known] : formats = fs
    /\ cap \in Len(formats) .. MaxFormats /\ held = Nil

cleanExtension(e) == Dotted[Lower[e]]

HasExtension(f, e) == \E x \in f.exts : Lower[x] = cleanExtension(e)

\* The index of the first format for which the loop returns, or 0.
FirstOf(P(_)) == SelectInSeq(formats, P)

GetByIDIndex(id)      == FirstOf(LAMBDA f : f.id = id)
GetByExtensionLast(e) == SelectLastInSeq(formats, LAMBDA f : HasExtension(f, e))
                                        \* mutant: the last registration wins
GetByExtensionIndex(e) == FirstOf(LAMBDA f : HasExtension(f, e))
DetectByContentIndex(c) == FirstOf(LAMBDA f : c \in f.matches)

IsExtensionSupported(e) == GetByExtensionIndex(e) # 0

\* The ID of the format for an extension, and of its stand-in: plain text, registered or not.
DetectByExtension(e) ==
    IF IsExtensionSupported(e) THEN formats[GetByExtensionIndex(e)].id ELSE Plaintext

\* path.Ext of the file's name, or "" without one.
DetectByFilename(ext) == IF ext = "" THEN Plaintext ELSE DetectByExtension(ext)
-----------------------------------------------------------------------------
\* append: in place while there is room, which the pointer sees if it points there; else into
\* a new array of some greater capacity.
AppendAll(fs) ==
    LET n == Len(formats) + Len(fs) IN
    /\ n <= MaxFormats
    /\ formats' = formats \o fs
    /\ IF n <= cap
       THEN /\ cap' = cap
            /\ held' = IF held # Nil /\ held.shared /\ held.index \in Len(formats) + 1 .. n
                       THEN [held EXCEPT !.shows = formats'[held.index]] ELSE held
       ELSE /\ cap' \in n .. MaxFormats
            /\ held' = IF held # Nil THEN [held EXCEPT !.shared = FALSE] ELSE held

RegisterFormat(f) == AppendAll(<<f>>)
RegisterAll(f, g) == AppendAll(<<f, g>>)

\* A lookup that hands out a pointer.
HandOut(i) ==
    /\ i # 0
    /\ held' = [index |-> i, shows |-> formats[i], shared |-> TRUE, first |-> formats[i]]
    /\ UNCHANGED <<formats, cap>>
GetByID(id)         == HandOut(GetByIDIndex(id))
GetByExtension(e)   == HandOut(GetByExtensionIndex(e))
DetectByContent(c)  == HandOut(DetectByContentIndex(c))

ClearInPlace ==           \* mutant: the array is kept for the next registrations
    /\ formats' = <<>>
    /\ UNCHANGED <<cap, held>>
ClearFormats ==
    /\ formats' = <<>> /\ cap' = 0
    /\ held' = IF held # Nil THEN [held EXCEPT !.shared = FALSE] ELSE held

FormatsNext == \/ \E f \in Known : RegisterFormat(f) \/ \E g \in Known : RegisterAll(f, g)
               \/ \E f \in Known : GetByID(f.id)
               \/ \E e \in Spellings : GetByExtension(e)
               \/ \E c \in Contents : DetectByContent(c)
               \/ ClearFormats
-----------------------------------------------------------------------------
FormatsTypeOK ==
    /\ formats \in Seq(Known) /\ cap \in Len(formats) .. MaxFormats
    /\ held # Nil => /\ held.index \in 1 .. MaxFormats
                      /\ held.shows \in Known /\ held.first \in Known
                      /\ held.shared => held.index <= cap

\* A pointer that was handed out goes on showing the format it was handed out for, whatever is
\* registered or cleared later: no cell of an array is written twice
\* (textformat.go:75-82, 92-111, 215-217).
PointerKeepsItsFormat == held # Nil => held.shows = held.first
=============================================================================
