SPECIFICATION TextSpec
CONSTANTS
    markdown = markdown
    html = html
    text = text
    heading = heading
    prose = prose
    Formats = {markdown, html, text}
    Callers = {c1}
    Needs <- MCNeeds
    CanParse <- MCCanParse
    MaxRegistrations = 4
    None = None
    Known <- MCKnown
    Spellings = {".md", ".MD", "md"}
    Lower <- MCLower
    Dotted <- MCDotted
    Contents = {heading, prose}
    Plaintext = text
    MaxFormats = 2
    Nil = Nil
INVARIANTS TextTypeOK OneParserPerFormat PointerKeepsItsFormat
PROPERTIES OneParserPerExtension SupportedStaysSupported
