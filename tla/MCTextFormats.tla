----------------------------- MODULE MCTextFormats -----------------------------
(* Instances of TextFormats for TLC. *)
EXTENDS TextFormats

CONSTANTS markdown, html, text, heading, prose

\* The parser for markdown is built from the other two, and both others accept text too.
MCNeeds == (markdown :> {html, text}) @@ (html :> {text}) @@ (text :> {})
MCCanParse == (markdown :> {text}) @@ (html :> {text}) @@ (text :> {})

MCLower == (".md" :> ".md") @@ (".MD" :> ".md") @@ ("md" :> "md")
MCDotted == (".md" :> ".md") @@ (".MD" :> ".MD") @@ ("md" :> ".md")

\* Two formats that claim one extension, in two spellings, and one whose extension is
\* registered without its dot and so never found.
MCKnown == {[id |-> markdown, exts |-> {".md"}, matches |-> {heading}],
            [id |-> text, exts |-> {".MD"}, matches |-> {heading, prose}],
            [id |-> html, exts |-> {"md"}, matches |-> {}]}
=============================================================================
