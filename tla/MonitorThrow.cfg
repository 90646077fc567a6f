CONSTANTS
    c1 = c1
    c2 = c2
    c3 = c3
    o1 = o1
    o2 = o2
    Contexts = {c1, c2}
    Objects = {o1}
    NoContext = NoContext
    NoObject = NoObject
    Host <- OwnHost
    ZeroSlice = {}
    Interrupts = {"throw"}
    MaxNest = 1
SPECIFICATION Spec
INVARIANTS StatementExclusion
