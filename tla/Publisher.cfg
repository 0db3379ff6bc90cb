SPECIFICATION Spec
CONSTANTS
    Initial <- MCInitial
    Revisions <- MCRevisions
    Group <- MCGroup
    Maintainer = {"push", "ready", "close", "reopen", "merge"}
    MaxHuman = 1
    MaxReruns = 1
    MaxFaults = 1
INVARIANT RevisionAppliedOnce
INVARIANT OneSummaryPerRevision
PROPERTY LeaseProtectsLateCommits
CHECK_DEADLOCK FALSE
