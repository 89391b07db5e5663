CONSTANTS
    Tasks = {t1, t2}
    Works = {w1}
    Queues = {events}
    keventd_wq = events
    NULL = NULL
    SelfFlush = TRUE
    MaxDepth = 2
SPECIFICATION FairSpec
INVARIANTS Consistent
PROPERTIES FlushTerminates QueuedRuns
