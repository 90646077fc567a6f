CONSTANTS
    p1 = p1
    p2 = p2
    h1 = h1
    Pointers = {p1}
    Heaps = {h1}
    Stack = Stack
    NoBuffer = NoBuffer
    Places = {0, 1}
    Lengths = {1, 2}
    Modulus = 4
    Sizes = {1, 2}
    Steps <- OneWord
    MaxFrames = 1
SPECIFICATION PtrSpec
INVARIANTS OutOfRangeRefused
