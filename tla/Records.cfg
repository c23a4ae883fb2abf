SPECIFICATION SideSpec
CONSTANTS
    Callers = {c1, c2}
    MaxCalls = 4
    None = None
    InitLedgers <- MCLedgers
    Trackers = {t1, t2}
    Instants = {i1, i2}
    Root = Root
    MaxEntries = 3
    MaxShown = 2
    Jobs = {j1, j2}
    Days = 2
    MaxLines = 1
    KeepRecent = 1
    MaxTasks = 3
    MaxRuns = 2
    BatchSize = 2
    PoolJobs = {"a1", "a2", "b"}
    JobId <- MCId
    MaxWorkers = 2
    Backpressure = 1
    NoTask = NoTask
    Agents = {a1, a2}
    DirectiveIds = {d1, d2}
    Patches = {"p1", "p2", "p3", "p4"}
    Brings <- MCBrings
    MaxOccurs = 2
    Incomplete = {"p4"}
    GateModes = {"block", "warn"}
    MaxApplied = 2
    Modelled = {"project.yaml", "rules.yaml", ".goosehints", "dashboards", ".mas-mode", "changes.json", "sub_agents"}
    ComponentArgs = {"minimal", "rules", "state"}
    MaxInits = 3
    MaxKills = 1
    MaxChanges = 2
    Checkers = {k1, k2}
    Types = {"system_config", "temp_files"}
    Plans = {"system_config", "temp_files", "import", "existing"}
    Domains = TRUE
    Large = TRUE
    FirstTallies <- MCTallies
    NoTally = NoTally
    MaxPlans = 2
    MaxDeaths = 1
    MaxAnswers = 2
    Gates = {g1, g2}
    Requests <- MCRequests
    MaxDelegations = 2
    MaxRequests = 3
    MaxOutside = 1
    Askers = {k1, k2}
    Acts <- MCActs
    Registered = {"known"}
    Special = {}
    Registry = {}
    ActiveDomain = NotGiven
    NotGiven = NotGiven
    TopN = 1
    DoneTarget = 2
    MaxAsked = 2
    MaxTurns = 1
    Recipes = {"m", "s"}
    YamlFiles = {"m"}
    References = {"own", "other"}
    Candidates <- MCCandidates
    Documents <- MCDocuments
    Practices <- MCPractices
    AutoApply = {"b2"}
    HasYaml = TRUE
    MaxChecked = 2
    MaxRewritten = 1
SYMMETRY MCSymmetry
CONSTRAINT FewLosses
INVARIANTS
    LedgerSound
    TrackerSound
    ArchiveSound
    PoolSound
    DirectivesSound
    InitSound
    GenericSound
    GateSound
    RulesSound
    ChecksSound
CHECK_DEADLOCK FALSE
