SPECIFICATION FairSpec
CONSTANTS
    b0 = b0
    b1 = b1
    x = x
    y = y
    Thread = {b0, b1, x}
    NumCpus = 2
    BootThread <- MCBootThread
    CanFork = TRUE
    CanExit = FALSE
PROPERTIES ReadyRuns
