----------------------------- MODULE TextFormats -----------------------------
(***************************************************************************)
(* The two registries of pkg/textformat at work: a caller detects the      *)
(* format of a file by its name and asks for the parser of that format.    *)
(***************************************************************************)
EXTENDS FormatRegistry, ParserRegistry

ASSUME IDsAssumption == Plaintext \in Formats /\ \A f \in Known : f.id \in Formats

VARIABLE given       \* history: each clean extension that is supported, what the last file of it was
                     \* given to: its format, and the format ID from which its parser came (None for
                     \* nil); None where no file was, since the format registry was cleared

all == <<registry, vars, given>>

NothingGiven == [x \in Spellings |-> None]

TextInit == InitFormats /\ Init /\ given = NothingGiven

\* DetectByFilename, then GetParser for the format that it returned.
Open(c, ext) ==
    /\ stack[c] = <<>>
    /\ LET f == DetectByFilename(ext)
           GivenTo(g) == given' = IF ext # "" /\ IsExtensionSupported(ext)
                                  THEN [given EXCEPT ![cleanExtension(ext)] =
                                                        [format |-> f, from |-> g]]
                                  ELSE given IN
       \/ (GetParserFinds(c, f) \/ FactoryCalled(c, f)) /\ GivenTo(f)
       \/ \E g \in Formats \cup {None} : GetParserFallsBack(c, f, g) /\ GivenTo(g)
    /\ UNCHANGED registry

FormatStep ==
    /\ FormatsNext /\ UNCHANGED vars
    /\ given' = IF formats' = <<>> THEN NothingGiven ELSE given

ParserStep == Use /\ UNCHANGED <<registry, given>>

\* The formats that files were given stay, the parsers are gone.
ClearParsers ==
    /\ NoFactoryRuns /\ Clear /\ UNCHANGED registry
    /\ given' = [x \in Spellings |-> IF given[x] = None THEN None
                                     ELSE [format |-> given[x].format, from |-> None]]

TextNext == \/ FormatStep \/ ParserStep \/ ClearParsers
            \/ \E c \in Callers : \E e \in Spellings \cup {""} : Open(c, e)

TextSpec == TextInit /\ [][TextNext]_all
-----------------------------------------------------------------------------
Assignment == [format : Formats, from : Formats \cup {None}]

TextTypeOK == FormatsTypeOK /\ TypeOK /\ given \in [Spellings -> {None} \cup Assignment]

\* One kind of file has one format and one parser (textformat.go:75-82, 102-117, 259-276).  Until
\* the format registry is cleared, files of a supported extension keep their format, however
\* the extension is spelled and whatever is registered.  Until the parser registry is, the parser
\* registered for a format, once a file was given to it, is given all later ones.
\* Before there is one, any parser that accepts the format may be given a file and the next file
\* another; but once one was, no file is left without, none is given to a parser that does not
\* accept its format, and the parser registered under an ID is never replaced.
OneParserPerExtension ==
    [][\A x \in Spellings : given[x] # None =>
          \/ formats' = <<>>
          \/ /\ given'[x].format = given[x].format
             /\ \/ given[x].from = None \/ Clear
                \/ LET f == given[x].format
                       g == given[x].from
                       h == given'[x].from IN
                   /\ g = f => h = f
                   /\ h # f => h # None /\ f \in CanParse[h]
                   /\ parsers[g] \in {None, parsers'[g]}]_all
=============================================================================
