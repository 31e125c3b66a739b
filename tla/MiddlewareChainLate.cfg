SPECIFICATION Spec
CONSTANTS
    Chains <- MCDocumented
    RetryLimits <- MCTwoRetries
    Caller = g0
    Goroutines = {g0, g1}
    None = None
PROPERTY RetryRespectsCancellation
CHECK_DEADLOCK FALSE
