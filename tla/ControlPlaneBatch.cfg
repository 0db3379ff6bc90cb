SPECIFICATION FairSpec
CONSTANTS
    Targets <- MCTargets
    N = 4
    Comments <- MCMixedComments
    Command <- MCMixedCommand
    Raw <- MCMixedRaw
    Resolution <- MCMixedResolution
    Overlap = 1
    MaxFaults = 1
    Poll = "poll"
INVARIANT CursorBehindLedger
PROPERTY EveryChangeTracked
PROPERTY EverySelectedTargetDecided
CHECK_DEADLOCK FALSE
