CONSTANTS
    Creators = {c1, c2}
    NULL = NULL
    EINTR = EINTR
SPECIFICATION FairSpec
INVARIANTS Consistent FrameAlive HandleValid StopResult
PROPERTIES CallsReturn StopEnds
