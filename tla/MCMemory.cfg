SPECIFICATION Spec
CONSTANTS
    first_frame = 1
    last_frame = 9
    BootFlags = {TRUE}
    p = p
    q = q
    c = c
    Proc = {p, q}
    Cpu = {c}
    Msb = {0, 1}
    Lsb = {0, 1}
    zero = zero
    one = one
    Value = {zero, one}
    Zero = zero
    JUNK = JUNK
    Segments <- TwoSegments
    Stack <- TheStack
    Image <- TheImage
    Argv <- Top
    KernelSizes = {3}
    MaxBlocks = 1
    Stored <- TheStack
    MaxSpaces = 3
    NUM_TLB = 1
    NULL = NULL
SYMMETRY Alike
CONSTRAINT Overlap
CHECK_DEADLOCK FALSE
INVARIANTS MemoryInv FramesOwned TLBCoherent ScanFindsFit
PROPERTY ImplementsPrivateMemory
