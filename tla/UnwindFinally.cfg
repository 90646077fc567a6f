CONSTANTS
    Source <- FinallySource
    Emitted <- CompiledSource
    Code <- CodeOf
    Shape <- ShapeOf
    CaseValues = {"x", "y", "z"}
    Thrown = {"A", "B"}
    MaxThrows = 2
    MaxTurns = 2
SPECIFICATION Spec
INVARIANTS WordsReadAsWritten
