\* Three racing turns, with text under a clock, a configuration and a rotation of the
\* data authentication, or with tool calls of both kinds.
CONSTANTS
    Turns = {t1, t2, t3}
    NoTurn = NoTurn
    Namespaces = {n1}
    Credentials = {k1}
    Models = {m1}
    c1 = c1
    c2 = c2
    CallIds = {c1, c2}
    Inputs <- SomeInputs
    Answers <- SomeAnswers
    Limits = {3}
    LargestLimit = 3
    Ttl = 1
    MaxClock = 1
    MaxRevision = 1
    MaxGeneration = 1
SYMMETRY TurnSymmetry
SPECIFICATION Spec
CONSTRAINT OneTroubleAtATime
CHECK_DEADLOCK FALSE
INVARIANTS BytesExact ReplayStaysInContext ForwardedCallsAreAnswered ValidationIsExact
PROPERTY OnlyExpiredAreForgotten
