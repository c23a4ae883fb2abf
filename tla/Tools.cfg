SPECIFICATION SideSpec
CONSTANTS
    Defects <- MCDefects
    StageOf <- MCStageOf
    SeverityOf <- MCSeverityOf
    IdentOf <- MCIdentOf
    SeverityFilter = {"medium", "high", "blocker"}
    MaxTop = 1
    RequestIds = {q1}
    MaxEdits = 1
    RecipeFiles = {"f1", "f2"}
    Given <- MCGiven
    Twice = {"f1"}
    FixTypes = {{"K3", "F3", "C2"}}
    MaxFixes = 1
    Editors = {e1, e2}
    Paths = {pa, pb}
    BaseName <- MCBaseName
    HasGit = TRUE
    MaxVersion = 3
    MaxSecond = 1
    MaxCalls = 4
    None = None
    NoRecipe = NoRecipe
    ProjectNames = {"dev-team", "a", "b"}
    OtherDirs = {"recipes"}
    MaxContents = 2
    Recipes = {"r1"}
    Subs = {}
    Offered = {"r1"}
    MaxEditions = 2
    MaxCommits = 2
    Shared <- MCShared
    AgentNames = {"recovery-defib"}
    RecoveryAgents = {"recovery-defib"}
    Template = {"mas_result", "Retry", "Edge Cases", "Tool-Inventar"}
    Sources = {"SOT", "AUTONOMIEMODUS"}
    RecoveryText = {"mas_result", "Edge Cases", "(v1.0.0)", "SUB-MAS", "short"}
    MaxVersions = 4
    MaxSeconds = 2
    Procs = {s1, s2, s3}
    NoProc = NoProc
    Locked = {s1}
    Reloading = {s2}
    Hashes = {h1}
    MaxCount = 1
    MaxNotes = 0
    MaxCrashes = 0
SYMMETRY Symmetry
INVARIANTS
    ScannerSound
    EditorSound
    RepairSound
    ProjectsSound
    NeverNeither
    AgentsSound
    EmptyIsBeingWritten
PROPERTIES
    WorkKept
CHECK_DEADLOCK FALSE
