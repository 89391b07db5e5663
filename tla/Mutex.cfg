CONSTANTS
    Tasks = {t1, t2, t3}
SPECIFICATION MutexFairSpec
INVARIANTS MutexConsistent MutexNoLostWakeUp
PROPERTIES RefinesSemaphore Progress
