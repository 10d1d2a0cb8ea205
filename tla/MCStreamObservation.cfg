\* A stream of three events whose trace entry meets those of two other requests;
\* both queues have room for one.
CONSTANTS
    Entries = {e1, e2, e3}
    StreamEntry = e1
    QueueCapacity = 1
    MaxEvents = 3
    Sizes = {1}
    Budget = 2
    ChannelCapacity = 1
SPECIFICATION FairSpec
CHECK_DEADLOCK FALSE
INVARIANTS TraceIsExact CaptureIsFaithful
PROPERTY ObserversSettle
