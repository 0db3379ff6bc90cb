SPECIFICATION Spec
CONSTANTS
    Initial <- MCInitial
    Revisions <- MCRevisions
    Group <- MCGroup
    Maintainer = {"ready", "merge"}
    MaxHuman = 0
    MaxReruns = 0
    MaxFaults = 0
INVARIANT OnePull
CHECK_DEADLOCK FALSE
