SPECIFICATION FairSpec
CONSTANTS
    NumRequests = 3
    Cases <- MCCases
    None = None
INVARIANTS TypeOK ReportsEveryRequest ExecutesWithinLimit
PROPERTIES BatchReturns StuckAreIsolated
CHECK_DEADLOCK FALSE
