SPECIFICATION Spec
CONSTANTS
    Procs = {p1, p2}
    NoProc = NoProc
    Topics = {"jobs"}
    Files = {"jobs"}
    FileOf <- OneTopic
    Keys = {k1}
    NoKey = NoKey
    Calls = {"nack", "fatal", "gc"}
    MaxRetries = 2
    MaxDepth = 2
    MaxStamp = 3
    MaxSlow = 1
    MaxCrashes = 1
    SeedJobs = {}
SYMMETRY Symmetry
INVARIANTS
    TypeOK
    NoLoss
    KeyUnique
    DeliveredInOrder
    SharedOnlyAfterRecovery
PROPERTIES
    Implements
CHECK_DEADLOCK FALSE
