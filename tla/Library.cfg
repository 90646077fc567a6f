CONSTANTS
    t1 = t1
    t2 = t2
    d1 = d1
    d2 = d2
    Tasks = {t1, t2}
    Drivers = {d1, d2}
    Main = d1
    Shared = {}
    Renewed = {}
    MaxDepth = 3
    p1 = p1
    p2 = p2
    h1 = h1
    c1 = c1
    c2 = c2
    k1 = k1
    k2 = k2
    v1 = v1
    v2 = v2
    A = A
    B = B
    C = C
    none = none
    one = one
    int = int
    double = double
    Pointers = {p1, p2}
    Heaps = {h1}
    Stack = Stack
    NoBuffer = NoBuffer
    Places = {0, 1}
    Lengths = {1, 2}
    Modulus = 4
    Sizes = {1, 2}
    Steps <- OneWord
    MaxFrames = 1
    Clients = {c1, c2}
    Names = {k1, k2}
    Values = {v1, v2}
    Null = Null
    Contents <- SomeMaps
    Idle = Idle
    Exclusive = {"removeAt", "removeAs", "assign"}
    MaxSize = 2
    Object = Object
    Source <- ThreeClasses
    NoClass = NoClass
    Args = {none, one}
    Accepts <- DefaultArgument
    Protos <- SomeProtos
    Destructor <- Finalize
    Accesses = {1, 3}
    Natives <- ObjectMayHaveIt
    MaxBases = 1
    MaxFunctions = 1
    m1 = m1
    m2 = m2
    Structures = 4
    Members = {m1, m2}
    Widths = {1, 4}
    Elements = {1, 2}
    MaxDerived = 3
    MaxMembers = 1
    Years <- FourHundredYears
    Sentences <- OneOfDepthTwo
    Flaws = {"unowned"}
SPECIFICATION LibrarySpec
CHECK_DEADLOCK FALSE
INVARIANTS PointersFresh AccessIsAllocated DeadLocalRefused NamesMatchElements VectorsFit OverridesCalled LayoutSound ResultOfFunction AbortIsFinal CallsAsMeant CountsExact
PROPERTIES IsDictionary DaysFollow FinishEndsOrLost
SYMMETRY Symmetry
