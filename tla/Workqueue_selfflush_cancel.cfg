CONSTANTS
    Tasks = {t1}
    Works = {w1}
    Queues = {events}
    keventd_wq = events
    NULL = NULL
    SelfFlush = TRUE
    MaxDepth = 2
SYMMETRY WorkqueueSymmetry
SPECIFICATION Spec
INVARIANTS CancelSyncComplete
