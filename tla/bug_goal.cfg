SPECIFICATION Spec
CONSTANTS
    d = d
    c = c
    host = host
    cli = cli
    Daemons = {d}
    Commands = {c}
    Holder <- MCHolder
    Nobody = Nobody
    MaxTasks = 2
    NoTask = NoTask
    MaxTurns = 3
    MaxAttempts = 2
    MaxItems <- MCMaxItems
    MaxOperator = 1
    MaxCrashes = 0
PROPERTY StoppedGoalIsNotContinued
