SPECIFICATION StudioSpec
CONSTANTS
    Editors = {e1, e2, e3}
    Edits = {d1, d2, d3}
    None = None
    MaxRevision = 3
    Services = {"speech"}
    Ids = {"u1", "u2", "u3", "u4"}
    Texts = {"a", "b"}
    Speakers = {"s"}
    Characters = {"c"}
    Emotions = {}
    Ticks = {0, 1, 2, 3, 4}
    Cuts = {1, 3}
    LockSets <- MCLockSets
    Proposals <- MCProposals
    InitialLines <- MCInitialLines
    ProfileIds = {"v", "w"}
    ConsentIds = {"c"}
    ProfileOffers <- MCProfileOffers
    ConsentOffers <- MCConsentOffers
    Requests <- MCRequests
    AnyArea = "*"
    MaxLedger = 4
    MaxClock = 1
    Callers = {"x", "y"}
    Adapters <- MCAdapters
    Threshold = 2
    MaxRetries = 1
    MaxFailures <- MCFailures
    TakeLengths <- MCLengths
    SlotLengths <- MCLengths
    Silences = {0, 100, 300}
    Tolerances = {0, 50}
    TrimMax = 200
    StretchMax = 8
    ReviewThreshold = 15
    RateMin = 85
    RateMax = 120
    TakeIds = {"a", "b", "c"}
    MaxTakes = 2
    Models <- MCModels
    ModelSize <- MCSize
    Priority <- MCPriority
    Budget = 7
    NumJobs = 4
    MaxDependencies = 2
    Keys = {1, 2, 3, 4}
    ArtifactKinds <- MCKinds
    RootKinds <- MCRootKinds
    Creators = {"x", "y", "z"}
    QueueSize = 2
    MaxPrinted = 1
    Policies <- MCPolicies
    MaxSamples = 8
    MaxChunks = 2
    MaxWords = 3
    MaxLength = 2
    Confidences = {0, 1}
    Apps = {"old", "new", "fork"}
    Migrations <- MCMigrations
    Statements = 2
    Projects = {"p", "q", "r"}
    Paths = {"x", "y"}
    AnalysisPlans <- MCAnalysisPlans
    MaxShown = 2
    Blocks <- MCBlocks
    MaxCues = 3
    Clocks <- MCClocks
    SubtitleRoundings = {"exact", "floor", "ceil", "nearest_even"}
    Durations = {5, 6}
    Lengths = {1, 2, 3}
    NumLines = 3
    ChunkSize = 2
    Passes = 2
    RenderPlans <- MCRenderPlans
    TimelineStates = {"a", "b"}
    MaxLevels = 3
    MaxFrame = 4
    MaxFaces = 2
    Rates <- MCRates
    MaxTicks = 3
    Grid = 12
    MaxSlack = 8
    ClockRoundings = {"exact", "floor", "ceil", "nearest_even"}
    Tracks <- MCTracks
    MaxClips = 4
    Shifts <- MCShifts
    GpuJobs = {"x"}
    MaxSubmits = 2
    MaxCancels = 1
    MaxResults = 2
    MaxAttempts = 2
INVARIANTS
    DropsNameRetained
CHECK_DEADLOCK FALSE
