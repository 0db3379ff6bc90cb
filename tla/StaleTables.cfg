SPECIFICATION Spec
CONSTANTS
    Targets <- MCTargets
    N = 1
    Comments <- MCComments
    Command <- MCCommand
    Raw <- MCRawResolved
    Resolution <- MCResolution
    Overlap = 1
    MaxFaults = 0
    Poll = "poll"
INVARIANT TablesReflectLedger
CHECK_DEADLOCK FALSE
