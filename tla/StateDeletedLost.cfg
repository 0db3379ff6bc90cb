SPECIFICATION Spec
CONSTANTS
    Writers <- MCWriters
    Decisions <- MCCompatibleDecisions
    KeyOf <- MCKeyOf
    Delta <- MCCompatible
    Attempts = 2
    MaxReruns = 0
    MaxFaults = 0
    DeleteOnMerge = TRUE
INVARIANT NoLostUpdate
CHECK_DEADLOCK FALSE
