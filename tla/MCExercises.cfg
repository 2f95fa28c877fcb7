\* twolocks: two rounds, so a thread meets the other's every step and its own
\* last step before its first.  maths: fewer increments than would keep three
\* adders busy, run once or twice.  The buffer: two producers of two items, two
\* consumers and two slots, which fill and drain.  Four philosophers, who can
\* eat two by two, of two courses each: one may be hungry while its neighbours
\* eat, put, and eat again.
SPECIFICATION MCSpec
CONSTANTS
    NUM_LOOPS = 2
    NADDERS = 3
    NADDS = 4
    Calls = 2
    p = p
    q = q
    x = x
    y = y
    main = main
    null = null
    Producer = {p, q}
    Consumer = {x, y}
    Main = main
    NULL = null
    BUFFER_SIZE = 2
    ITEMS_TO_PRODUCE = 2
    NUM_PHILOSOPHERS = 4
    TIMES_TO_EAT = 2
INVARIANTS NoDeadlyEmbrace CountExact ItemsOnce GrantsKept NobodyForgotten CleansUpLast
PROPERTIES ImplementsBuffer ImplementsForks CommandReturns
