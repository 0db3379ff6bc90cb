SPECIFICATION Spec
CONSTANTS
    Targets <- MCTargets
    N = 1
    Comments <- MCComments
    Command <- MCCommand
    Raw <- MCRaw
    Resolution <- MCResolution
    Overlap = 1
    MaxFaults = 1
    Poll = "poll"
INVARIANT LabelsAreMergeTime
CHECK_DEADLOCK FALSE
