SPECIFICATION FairSpec
CONSTANTS
    Keys = {k1, k2, k3}
    Results = {r1, r2}
    EntryLimits <- MCEntryLimits
    TTL = 1
    None = None
INVARIANTS TypeOK SizeBounded
PROPERTIES ExpiredAreSwept StopEndsTheLoop IsTTLStore
