CONSTANTS
    t1 = t1
    Tasks = {t1}
    Kind <- AllJules
    Handlers = {h1, h2}
    NoRow = NoRow
    NoTask = NoTask
    MaxApprovals = 2
    MaxFaults = 0
    MaxCrashes = 0
SPECIFICATION Spec
PROPERTIES
    RejectedIsNotContinued
CHECK_DEADLOCK FALSE
