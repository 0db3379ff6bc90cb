SPECIFICATION AuditSpec
CONSTANTS
    AuditTargets = {"go", "ruby"}
    FixableTargets = {"go"}
    Fingerprints = {1, 2}
    Semantic = {2}
    FixComments <- MCFix
    FirstDrifts <- MCDrifts
    Past = {}
    Years = 1
    MaxAudits = 2
    MaxChanges = 0
    MaxDeaths = 0
PROPERTY FixesStayLinked
CHECK_DEADLOCK FALSE
