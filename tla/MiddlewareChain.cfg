SPECIFICATION FairSpec
CONSTANTS
    Chains <- MCChains
    RetryLimits <- MCLimits
    Caller = g0
    Goroutines = {g0, g1, g2, g3}
    None = None
INVARIANTS TypeOK AnsweredMeansCancelled Validated EveryAttemptMade
PROPERTIES TimeoutBoundsTheCall NoGoroutineLeak KeepsPromise
CHECK_DEADLOCK FALSE
