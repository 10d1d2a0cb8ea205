\* Upstreams whose deltas may repeat the text before them.
CONSTANTS
    None = None
    Pairs <- AllPairs
    MaxEvents <- Events
    MaxCalls = 0
    Names = {"f"}
    BridgedNames = {}
    CustomClients = {}
    Repeating = TRUE
SPECIFICATION Spec
CHECK_DEADLOCK FALSE
INVARIANT TextArrives
