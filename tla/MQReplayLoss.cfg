SPECIFICATION Spec
CONSTANTS
    Procs = {p1, p2}
    NoProc = NoProc
    Topics = {"jobs"}
    Files = {"jobs"}
    FileOf <- OneTopic
    Keys = {}
    NoKey = NoKey
    Calls = {"replay", "fatal"}
    MaxRetries = 2
    MaxDepth = 2
    MaxStamp = 2
    MaxSlow = 1
    MaxCrashes = 0
    SeedJobs = {11}
SYMMETRY Symmetry
INVARIANTS
    NoLoss
CHECK_DEADLOCK FALSE
