SPECIFICATION Spec
CONSTANTS
    Lines = {0, 1}
    TickMod = 2
    WordBits = 4
    EhSize = 2
    PhSize = 2
    MaxSegs = 2
    UserBase = 4
    UserLimit = 13
    Images <- MCImages
    Thread = {boot, a, b, c}
    Idle = boot
    DemoA = a
    DemoB = b
    DemoStack = 8
    DemoSize = 7
    Null = Null
    Polite = TRUE
    AddrSpace = 32
    StackBase = {0, 3, 29}
    StackSize = {5, 7}
    MinStack = 6
    StackAlign = 4
    Reserve = 2
    Word = 1
INVARIANT SchedInv KernelInv PlanRight
PROPERTY ImplementsRoundRobin ReadyRuns TimerServed
