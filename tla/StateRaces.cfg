SPECIFICATION FairSpec
CONSTANTS
    Writers <- MCWriters
    Decisions <- MCDecisions
    KeyOf <- MCKeyOf
    Delta <- MCDelta
    Attempts = 3
    MaxReruns = 1
    MaxFaults = 1
    DeleteOnMerge = FALSE
INVARIANT TypeOK
INVARIANT NoLostUpdate
INVARIANT LeasedSnapshotIsCurrent
INVARIANT KeysStayUnique
INVARIANT ReplaysArePaidFor
PROPERTY DurableOnlyGrows
PROPERTY ImplementsStateLedger
PROPERTY EveryTransactionEnds
PROPERTY EveryTransactionSucceeds
CHECK_DEADLOCK FALSE
