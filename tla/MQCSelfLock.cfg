SPECIFICATION ConsumerFairSpec
CONSTANTS
    Procs = {p1, p2, producer}
    NoProc = NoProc
    Topics = {"jobs"}
    Files = {"jobs"}
    FileOf <- OneTopic
    Keys = {}
    NoKey = NoKey
    Calls = {"nack", "gc"}
    MaxRetries = 2
    MaxDepth = 2
    MaxStamp = 1
    MaxSlow = 1
    MaxCrashes = 0
    SeedJobs = {}
    Consumers = {p1, p2}
    Steady = {p1, p2}
    Ids = {p1, p2}
    IdOf <- OwnIds
    Work = "jobs"
    MaxMessages = 1
    MaxSignals = 1
PROPERTIES
    SigtermEnds
CHECK_DEADLOCK FALSE
