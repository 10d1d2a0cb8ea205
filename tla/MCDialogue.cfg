\* Conversations of whole answers, and shorter ones with cut answers or a change of the upstream.
SPECIFICATION Spec
CONSTANTS
    Pairs <- AllPairs
    Toolboxes <- Boxes
    MaxTurns = 3
    MaxCalls = 2
    MaxSteers = 2
    MaxCutLength = 5
    MaxLength = 6
    MaxRestarts = 1
    MaxChanges = 1
    Truncating = {"chat", "responses"}
    ServerTools <- OwnTools
    Sealers <- Agents
    Edits <- SomeEdits
INVARIANTS WordsComeBack CallsComeBack ResultsFollowCalls NothingIsRefused
PROPERTY RequestsExtend
