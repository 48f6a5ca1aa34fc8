CONSTANTS
    p1 = p1
    p2 = p2
    c1 = c1
    c2 = c2
    Producers = {p1, p2}
    Consumers = {c1, c2}
    MaxAcquired = 2
    MaxDequeued = 1
    FrameIds = 2
SPECIFICATION FairSpec
INVARIANTS TypeOK SlotsAccounted SleepersJustified
PROPERTIES FrameStable LoanSpec ProducerWoken QueuedIsAcquired
