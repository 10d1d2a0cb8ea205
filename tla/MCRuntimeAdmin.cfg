\* Two writes of any target race with a request, under fairness.
CONSTANTS
    Namespaces = {n1, n2}
    DataAuth = DataAuth
    Writes = {w1, w2}
    Initial = Initial
    NoRevision = NoRevision
    NoWrite = NoWrite
    Readers = {r1}
SPECIFICATION FairAdminSpec
CHECK_DEADLOCK FALSE
INVARIANTS ContextIsOneConfiguration
PROPERTIES ImplementsCas EveryWriteAnswered
