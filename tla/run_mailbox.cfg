SPECIFICATION FairSpec
CONSTANTS
    f1 = f1
    f2 = f2
    f3 = f3
    m1 = m1
    m2 = m2
    Tasks = {f1, f2, f3}
    Kind <- MCKind
    MessageId <- MCMessageId
    Invalid = {f3}
    NoRow = NoRow
    NoTask = NoTask
    NoAnswer = NoAnswer
    Handlers = {h1}
    MaxFaults = 1
    MaxApprovals = 1
    MaxCrashes = 1
INVARIANTS TypeOK OneTaskPerMessage LossNeedsFault LaunchesAreEarned StuckNeedsMissedEvent
PROPERTIES LedgerSpec BootDrainsInbox TaskIsAnswered
CHECK_DEADLOCK FALSE
