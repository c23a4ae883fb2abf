SPECIFICATION Spec
CONSTANTS
    Procs = {p1, p2}
    NoProc = NoProc
    Topics = {"jobs"}
    Files = {"jobs"}
    FileOf <- OneTopic
    Keys = {k1}
    NoKey = NoKey
    Calls = {"nack", "ttl", "storage_error", "requeue"}
    MaxRetries = 2
    MaxDepth = 2
    MaxStamp = 3
    MaxSlow = 1
    MaxCrashes = 1
    SeedJobs = {}
SYMMETRY Symmetry
INVARIANTS
    SettledOnce
    UndeliveredKept
    RetriesBounded
CHECK_DEADLOCK FALSE
