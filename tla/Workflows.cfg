SPECIFICATION WorkSpec
CONSTANTS
    Sessions = {"ts", "go"}
    Reference = "ts"
    ParseCapable = {"ts"}
    Answers <- MCAnswers
    Allowlist <- MCAllowlist
    Budgets <- MCBudgets
    AnyField = {"any"}
    Suites <- MCSuites
    Workers = {1, 2}
    Replies <- MCReplies
    Cases <- MCCases
    CaseOrder <- MCCaseOrder
    GoldenOrders <- MCGoldenOrders
    Adapters <- MCAdapters
    GoldenAdapter <- MCGoldenAdapter
    MaxDeviations = 1
    PairAdapters <- MCPairAdapters
    PairReference = "ts"
    Asked = {"go", "rust", "none"}
    Jobs = {1, 2}
    ScenarioFiles <- MCScenarioFiles
    Fields = {"status", "receipt"}
    PoolSize = 2
    AllowXpass = FALSE
    MaxOdd = 1
    TempoAdapters <- MCTempoAdapters
    TempoSuites <- MCTempoSuites
    TempoReplies = {"right", "wrong", "error", "crash"}
    NodeProblems = {"verdict", "hash"}
    MaxProblems = 2
    SdkAdapters <- MCSdkAdapters
    Npm = {2}
    Releases = 3
    Calls <- MCCalls
    MaxRuns = 3
    MaxFailures = 2
    AuditTargets = {"go", "ruby"}
    FixableTargets = {"go"}
    Fingerprints = {1, 2}
    Semantic = {2}
    FixComments <- MCFixComments
    FirstDrifts <- MCFirstDrifts
    Past = {1}
    Years = 2
    MaxAudits = 2
    MaxChanges = 1
    MaxDeaths = 1
INVARIANT AnswersMatchRequests
INVARIANT NoStrayAdapters
INVARIANT CrashesAreConfirmed
INVARIANT FindingsAreNew
INVARIANT GreenRunsAreComplete
INVARIANT ResultsInScenarioOrder
INVARIANT CredentialPaysOnce
INVARIANT FaithfulAdaptersPass
INVARIANT PassMeansGolden
INVARIANT PortTurnsAreDistinct
INVARIANT GreenPairsDifferAsAnnounced
INVARIANT SuccessExplainsSkips
INVARIANT PinIsNeverLost
INVARIANT VersionIsTheFinishedBuild
INVARIANT IdsAreDurable
INVARIANT HealthyAuditReconciles
PROPERTY ClosedMeansRepaired
 
CHECK_DEADLOCK FALSE
