CONSTANTS
    Contexts = {"init", "softirq"}
    ARGS = 2
    PIXELS = 1
    NUM_RECTS = 2
    NULL = NULL
    MaxResets = 2
    RequiredId = "onyx"
    CustomerIds = {"onyx", "other"}
    RETRIES = 2
    MaxBoots = 3
SPECIFICATION FairSpec
CHECK_DEADLOCK FALSE
INVARIANTS Consistent DamageHasCause 
PROPERTIES SplashEnds PlugReported WholePackageInstalled
