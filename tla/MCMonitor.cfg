SPECIFICATION FairSpec
CONSTANTS
    t1 = t1
    t2 = t2
    t3 = t3
    t4 = t4
    Thread = {t1, t2, t3, t4}
    NULL = NULL
CHECK_DEADLOCK FALSE
INVARIANTS MonitorInv MutualExclusion NoLostWakeup
PROPERTIES ImplementsMonitor
