SPECIFICATION Spec
CONSTANTS
    gofmt = gofmt
    gofumpt = gofumpt
    rival = rival
    n1 = n1
    n2 = n2
    Formatters = {gofmt, gofumpt, rival}
    Names = {n1, n2}
    Readers = {x}
    Callers = {c1, c2}
    NameOf <- MCNameOf
    Declares <- MCDeclares
    Spellings <- MCSpellings
    Lower <- MCLower
    None = None
    Torn = Torn
    NotFound = NotFound
SYMMETRY MCSymmetry
INVARIANT NoTornLookup
