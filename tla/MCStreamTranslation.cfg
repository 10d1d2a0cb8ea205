\* Every pair of formats, streams bounded by their format.
CONSTANTS
    None = None
    Pairs <- AllPairs
    MaxEvents <- Events
    MaxCalls = 2
    Names = {"f", "wrapped", "reserved"}
    BridgedNames = {"wrapped"}
    CustomClients = {"chat"}
    Repeating = FALSE
SPECIFICATION Spec
CHECK_DEADLOCK FALSE
INVARIANTS TextArrives CallsArrive PartsArePaired EndsOnce
