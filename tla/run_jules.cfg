CONSTANTS
    t1 = t1
    Tasks = {t1}
    Kind <- AllJules
    Handlers = {h1, h2}
    NoRow = NoRow
    NoTask = NoTask
    MaxApprovals = 2
    MaxFaults = 1
    MaxCrashes = 1
SPECIFICATION Spec
INVARIANTS
    ApprovalMatchesStatus
    JulesDeliveryIsTracked
PROPERTIES
    TerminalNeverReopened
    SessionKeptWhileOpen
    LedgerSpec
CHECK_DEADLOCK FALSE
