SPECIFICATION FairSpec
CONSTANTS
    Initial <- MCFixOnly
    Revisions <- MCTwoRevisions
    Group <- MCGroup
    Maintainer = {"ready", "close", "merge"}
    MaxHuman = 0
    MaxReruns = 2
    MaxFaults = 2
INVARIANT OnePull
PROPERTY PublishedJobsResume
CHECK_DEADLOCK FALSE
