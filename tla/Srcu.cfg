CONSTANTS
    Readers = {r1, r2}
    Updaters = {u1, u2}
    NULL = NULL
    NCpus = 2
    CountMod = 3
    FlipMod = 8
    Starts = {0, 7}
    MaxCalls = 3
SPECIFICATION FairSpec
CHECK_DEADLOCK FALSE
INVARIANTS Consistent
PROPERTIES RefinesGracePeriod OldBankOnlyDrains HolderReturns
