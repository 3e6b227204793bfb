CONSTANTS
    SecretWords = {"sk.1"}
    ReadWords = {"read"}
    HighWords = {"delete"}
    NetworkWords = {"http"}
    EffectCapabilities = {}
    NetworkCapabilities = {}
    BlockedTerms <- MCBlockedTerms
    AllowedTenants = {}
    BlockedUsers = {}
    MaxGoal = 5
    MaxRequests = 1
    PathWords = {"a.md", "b.md", "sk.1"}
    Drafts <- MCDrafts
    ProfileEdits <- MCProfileEdits
    Modules <- MCModules
    Skills <- MCSkills
    Packages <- MCPackages
    Gateways <- MCGateways
    Providers <- MCProviders
    RouteRequests <- MCRouteRequests
    Answers <- MCAnswers
    MaxSkills = 2
    MemoryManifests <- MCMemoryManifests
    MemoryDrafts <- MCMemoryDrafts
    TaintedWords = {"ignore"}
    Queries <- MCQueries
    MaxProposals = 2
    MaxMemories = 2
    Subagents <- MCSubagents
    TaskLists <- MCTaskLists
    MessageBodies <- MCMessageBodies
    FaultyContents = {"skip review"}
    Reviewers = {"owner"}
    MaxMessages = 1
    MaxSidechains = 2
    MaxGates = 2
    MaxEvidence = 2
    RuntimeGraphs <- MCRuntimeGraphs
    DeltaKinds = {"PromptVariant", "PolicyPack"}
    DeltaRiskLevels = {0, 2}
    ScoreDeltas <- MCScores
    MaxReports = 1
    MaxDeltas = 2
    MaxEvolution = 1
    HotBudgets <- MCHotBudgets
    HotRequests <- MCHotRequests
    CacheEntries <- MCCacheEntries
    Latencies = {3, 8}
    MaxSamples = 3
SPECIFICATION Spec
CHECK_DEADLOCK FALSE
INVARIANTS
    PlanKeepsToTheRequest
    SessionKeepsToItsProfile
    MemoryIsAccountable
    MergeRestsOnApprovals
    ApprovedIsEarned
    HotPathIsBounded
