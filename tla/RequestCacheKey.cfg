SPECIFICATION RSpec
CONSTANTS
    Requests <- MCRequests
    Keys <- MCKeys
    Results <- MCRequests
    EntryLimits <- MCEntryLimits
    TTL = 1
    None = None
INVARIANT HitIsForTheRequest
