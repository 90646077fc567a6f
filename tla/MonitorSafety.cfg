CONSTANTS
    c1 = c1
    c2 = c2
    c3 = c3
    o1 = o1
    o2 = o2
    Contexts = {c1, c2, c3}
    Objects = {o1}
    NoContext = NoContext
    NoObject = NoObject
    Host <- TaskHost
    ZeroSlice = {c1}
    Interrupts = {"throw", "abort"}
    MaxNest = 2
CHECK_DEADLOCK FALSE
SPECIFICATION Spec
INVARIANTS Exclusion LockMatchesBlocks NoDanglingMonitor
PROPERTIES NotifyReachesWaiter ImplementsLock HangFreezesLocks
