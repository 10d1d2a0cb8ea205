\* Two requests with both hooks: four deliveries race on the counter, and answers
\* arrive around an open breaker.
CONSTANTS
    Requests = {r1, r2}
    Configured = {"exchange", "usage"}
    Sizes = {1}
    MaxPendingBytes = 2
    FailureThreshold = 1
    Cooldown = 1
    MaxClock = 1
SPECIFICATION FairSpec
CHECK_DEADLOCK FALSE
INVARIANTS OpenNeedsOwnFailures
PROPERTIES ImplementsBudget OpenBreakerHolds EveryEmissionSettles
