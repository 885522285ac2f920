CONSTANTS
    t1 = t1
    Tasks = {t1, t2}
    Kind <- RunAndResearch
    Handlers = {h1, h2, h3}
    NoRow = NoRow
    NoTask = NoTask
    MaxApprovals = 2
    MaxFaults = 2
    MaxCrashes = 2
SPECIFICATION FairSpec
INVARIANTS TypeOK LaunchesAreEarned RejectedRunNeverLaunched RunningIsAlive CompletedResearchWasSent DuplicateNeedsFault
PROPERTIES RunningEnds ResearchSettles ChatIsTold
CHECK_DEADLOCK FALSE
