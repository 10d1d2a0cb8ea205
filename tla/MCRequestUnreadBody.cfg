\* A client that sends a body to an operation that takes none.
CONSTANTS
    Requests = {r1}
    Upstreams = {u1}
    NoUpstream = NoUpstream
    All = All
    MaxRecent = 1
    UnreadBodies = TRUE
SPECIFICATION Spec
CHECK_DEADLOCK FALSE
INVARIANT CancelledOnlyIfGone
