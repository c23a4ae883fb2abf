SPECIFICATION SideSpec
CONSTANTS
    Tops = {u1}
    MaxDepth = 1
    None = None
    Files <- MCFiles
    Requests = {r1}
    Checks = {c1}
    Levels = 2
    MaxRetries = 1
    MaxRuns = 2
    DefibCommands = {"CHECK_RUNTIME"}
    MaxFaults = 1
    NoOne = NoOne
    Summaries <- MCSummaries
INVARIANTS
    RunnerSound
    EscalationsSound
PROPERTIES
    RunnerImplements
    RunsEnd
    DegradedReachesDefib
CHECK_DEADLOCK FALSE
