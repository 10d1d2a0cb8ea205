\* The three chains, on the kinds of frame each tells apart; every stream ends although its upstream may stall.
CONSTANTS
    Pipelines = {"translated", "guarded", "raw"}
    FrameKinds <- FramesByChain
    MaxFrames = 3
    MaxEvents = 2
    MaxState = 2
    IdleTimeout = 1
    MaxDuration = 2
    MaxClock = 2
SPECIFICATION FairSpec
CHECK_DEADLOCK FALSE
INVARIANTS FailedIsFinal CompletedIsReplayable ObserversAgree CleanEndIsComplete
PROPERTY EveryStreamEnds
