SPECIFICATION FairSpec
CONSTANTS
    Formatters = {f1, f2}
    Monitors = {m1, m2}
    Lookups = {r1}
    Writers = {w1, w2}
    maxConcurrentHealthChecks = 1
    HangingSets <- MCHangingSets
    None = None
INVARIANTS TypeOK ReportIsExact
PROPERTIES WritersGetIn LookupsAreServed
CHECK_DEADLOCK FALSE
