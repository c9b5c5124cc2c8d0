SPECIFICATION Spec
CONSTANTS
    LoopFiles = {"a", "m"}
    LoopManifests = {"m"}
    MaxExplore = 2
    MaxVerify = 2
    Slack = 2
    MaxPatchRetries = 2
    PatchTrees <- MCPatchTrees
    PatchSet <- MCPatchSet
    MaxPatchOps = 2
    Python = {"p.py"}
    Scope = {"p.py", "r.md", "n.md", "../up", "key.pem"}
    Forbidden = {"key.pem"}
    Escaping = {"../up"}
    MaxPlanCalls = 3
    MaxPlanRetries = 2
    MaxMalformed = 1
    MaxRounds = 4
    EditNames = {"a", "b"}
    MaxEdits = 3
    Sizes = {1, 3}
    Trigger = 2
    HotBudget = 2
    HotTurns = 2
    MaxMessages = 2
    MaxMemories = 2
    MaxConsolidations = 2
    MaxLineage = 3
    MaxSteps = 1
    MaxSnapshots = 1
    MaxTurns = 2
    MaxChatCalls = 1
    MaxChatTasks = 2
    MaxPlans = 2
    Window = 3
    ValProjects <- MCValProjects
    ValTrees <- MCTrees
    Candidates <- MCCandidates
    MaxProposed = 2
    MaxAttempts = 2
    MaxOps = 1
    EnvTasks = {"t1", "t2"}
    EnvProjects <- MCEnvProjects
    MaxEvents = 2
    Sources <- MCSources
    Implementations <- MCImplementations
    MaxGraphWrites = 3
    Paths = {"a", "b"}
    MaxClock = 2
    MaxGen = 2
CHECK_DEADLOCK FALSE
INVARIANTS
    VerifiedIsChecked
    LandsAsChecked
    RoundDelivers
    EditsLandAsDecided
    MemoryIsGrounded
    ResumeContinues
    InlineAsShown
    ValidatedIsNoWorse
    EnvironmentIsReal
    CodeIndexIsTrue
    ChunksAreCurrent
