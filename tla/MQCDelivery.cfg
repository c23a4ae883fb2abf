SPECIFICATION ConsumerSpec
CONSTANTS
    Procs = {p1, p2, producer}
    NoProc = NoProc
    Topics = {"jobs"}
    Files = {"jobs"}
    FileOf <- OneTopic
    Keys = {}
    NoKey = NoKey
    Calls = {"nack", "gc", "storage_error"}
    MaxRetries = 2
    MaxDepth = 2
    MaxStamp = 2
    MaxSlow = 1
    MaxCrashes = 1
    SeedJobs = {}
    Consumers = {p1, p2}
    Steady = {p1, p2}
    Ids = {"loop"}
    IdOf <- SameId
    Work = "jobs"
    MaxMessages = 2
    MaxSignals = 1
SYMMETRY SameRole
INVARIANTS
    ConsumerSound
PROPERTIES
    Implements
CHECK_DEADLOCK FALSE
