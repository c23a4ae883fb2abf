SPECIFICATION ConsumerFairSpec
CONSTANTS
    Procs = {p1, p2, producer}
    NoProc = NoProc
    Topics = {"jobs"}
    Files = {"jobs"}
    FileOf <- OneTopic
    Keys = {}
    NoKey = NoKey
    Calls = {"nack", "gc"}
    MaxRetries = 2
    MaxDepth = 2
    MaxStamp = 2
    MaxSlow = 1
    MaxCrashes = 1
    SeedJobs = {}
    Consumers = {p1, p2}
    Steady = {p1, p2}
    Ids = {p1, p2}
    IdOf <- OwnIds
    Work = "jobs"
    MaxMessages = 1
    MaxSignals = 0
PROPERTIES
    JobsSettle
CHECK_DEADLOCK FALSE
