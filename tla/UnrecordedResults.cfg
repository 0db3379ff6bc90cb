SPECIFICATION Spec
CONSTANTS
    Targets <- MCTargets
    N = 2
    Comments <- MCFewComments
    Command <- MCFewCommand
    Raw <- MCTwoRaw
    Resolution <- MCTwoResolution
    Overlap = 1
    MaxFaults = 0
    Poll = "poll"
INVARIANT ResultsAreRecorded
CHECK_DEADLOCK FALSE
