CONSTANTS
    Tasks = {t1, t2}
    Works = {w1}
    Queues = {events, q1}
    keventd_wq = events
    NULL = NULL
    SelfFlush = FALSE
    MaxDepth = 1
SYMMETRY WorkqueueSymmetry
SPECIFICATION Spec
INVARIANTS Consistent FlushComplete CancelSyncComplete DestroyComplete
PROPERTIES RefinesWorkItems
