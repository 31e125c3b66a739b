SPECIFICATION RSpec
CONSTANTS
    Requests <- MCRequests
    Keys <- MCKeys
    Results <- MCRequests
    EntryLimits <- MCEntryLimits
    TTL = 2
    None = None
PROPERTY EvictsLeastRecentlyUsed
