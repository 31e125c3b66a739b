-------------------------- MODULE MCFormatterRegistry --------------------------
(* Instances of FormatterRegistry for TLC. *)
EXTENDS FormatterRegistry, TLC

CONSTANTS gofmt, gofumpt, rival, n1, n2

MCSymmetry == Permutations(Callers)

\* gofmt declares one language in two spellings; rival is another formatter of gofmt's name.
MCNameOf == gofmt :> n1 @@ gofumpt :> n2 @@ rival :> n1
MCDeclares == gofmt :> <<"Go", "go">> @@ gofumpt :> <<"go", "C">> @@ rival :> <<"GO">>
MCSpellings == {"Go", "go", "GO", "C", "c"}
MCLower == [s \in MCSpellings |-> IF s \in {"C", "c"} THEN "c" ELSE "go"]
=============================================================================
