SPECIFICATION FairSpec
CONSTANTS
    Messages = {m1, m2}
    Missing = Missing
    Torn = Torn
    MaxAttempts = 3
    MaxFaults = 2
INVARIANTS RetriesBounded DuplicateNeedsFault QueuedNeedsFault
PROPERTIES LedgerSpec OutboxDrains
CHECK_DEADLOCK FALSE
