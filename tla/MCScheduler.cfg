SPECIFICATION Spec
CONSTANTS
    b0 = b0
    b1 = b1
    x = x
    y = y
    Thread = {b0, b1, x, y}
    NumCpus = 2
    BootThread <- MCBootThread
    CanFork = TRUE
    CanExit = TRUE
SYMMETRY Symmetry
INVARIANTS SchedulerInv NoPanic OnePlace ContextSaved CurCpu NoLostUnidle
