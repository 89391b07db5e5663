CONSTANTS
    Tasks = {t1, t2, t3, t4}
    NoTask = NoTask
SPECIFICATION FairSpec
INVARIANTS Consistent NoLostWakeUp
PROPERTIES RefinesLock NoStarvation
