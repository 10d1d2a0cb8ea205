\* Two requests, one upstream and room for one recent request, under fairness.
CONSTANTS
    Requests = {r1, r2}
    Upstreams = {u1}
    NoUpstream = NoUpstream
    All = All
    MaxRecent = 1
    UnreadBodies = FALSE
SPECIFICATION FairSpec
CHECK_DEADLOCK FALSE
INVARIANTS CountersExact CancelledOnlyIfGone ObserversAgree CapturedIsAnswered
PROPERTY EveryRequestFinishes
