SPECIFICATION FairSpec
CONSTANTS
    t1 = t1
    t2 = t2
    t3 = t3
    t4 = t4
    Thread = {t1, t2, t3, t4}
    MaxCount = 3
    Initial = 1
INVARIANTS SemaphoreInv NoLostWakeup
PROPERTIES ImplementsCounting
