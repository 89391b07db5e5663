CONSTANTS
    Tasks = {t1, t2, t3}
    InitCount = 1
    MaxPosts = 1
SPECIFICATION FairSpec
INVARIANTS Consistent
PROPERTIES GrantIsFinal RefinesCounting StarvationFree
