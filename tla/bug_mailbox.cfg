SPECIFICATION Spec
CONSTANTS
    f1 = f1
    f2 = f2
    f3 = f3
    m1 = m1
    m2 = m2
    Tasks = {f1}
    Kind <- MCKind
    MessageId <- MCMessageId
    Invalid = {}
    NoRow = NoRow
    NoTask = NoTask
    NoAnswer = NoAnswer
    Handlers = {h1}
    MaxFaults = 0
    MaxApprovals = 1
    MaxCrashes = 0
INVARIANT CompletedAnswerIsTrue
CHECK_DEADLOCK FALSE
