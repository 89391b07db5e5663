CONSTANTS
    Contexts = {"init", "softirq"}
    ARGS = 2
    PIXELS = 1
    NUM_RECTS = 2
    NULL = NULL
    MaxResets = 2
    RequiredId = "onyx"
    CustomerIds = {"onyx", "other"}
    RETRIES = 2
    MaxBoots = 1
SPECIFICATION Spec
CHECK_DEADLOCK FALSE
INVARIANT SplashDisplayed
