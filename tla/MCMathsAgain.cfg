\* Two adders, who have two increments to do, and a second call.  The other
\* exercises have their smallest sizes.
SPECIFICATION MCSpec
CONSTANTS
    NUM_LOOPS = 1
    NADDERS = 2
    NADDS = 2
    Calls = 2
    p = p
    q = q
    x = x
    y = y
    main = main
    null = null
    Producer = {p}
    Consumer = {x}
    Main = main
    NULL = null
    BUFFER_SIZE = 1
    ITEMS_TO_PRODUCE = 1
    NUM_PHILOSOPHERS = 2
    TIMES_TO_EAT = 1
INVARIANT ReportsOwnWork
