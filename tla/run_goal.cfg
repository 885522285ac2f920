SPECIFICATION FairSpec
CONSTANTS
    d = d
    c = c
    host = host
    cli = cli
    Daemons = {d}
    Commands = {c}
    Holder <- MCHolder
    Nobody = Nobody
    MaxTasks = 2
    NoTask = NoTask
    MaxTurns = 3
    MaxAttempts = 2
    MaxItems <- MCMaxItems
    MaxOperator = 2
    MaxCrashes = 1
INVARIANTS TypeOK OverlapNeedsCause  BudgetKept
PROPERTIES  ContinuationSettles
