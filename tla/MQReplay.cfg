SPECIFICATION Spec
CONSTANTS
    Procs = {p1, p2}
    NoProc = NoProc
    Topics = {"jobs"}
    Files = {"jobs"}
    FileOf <- OneTopic
    Keys = {k1}
    NoKey = NoKey
    Calls = {"replay", "purge"}
    MaxRetries = 2
    MaxDepth = 1
    MaxStamp = 2
    MaxSlow = 1
    MaxCrashes = 1
    SeedJobs = {11, 12}
SYMMETRY Symmetry
INVARIANTS
    NoLoss
CHECK_DEADLOCK FALSE
