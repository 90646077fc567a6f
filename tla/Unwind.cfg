CONSTANTS
    Source <- SoundSource
    Emitted <- CompiledSource
    Code <- CodeOf
    Shape <- ShapeOf
    CaseValues = {"x", "y", "z"}
    Thrown = {"A", "B"}
    MaxThrows = 2
    MaxTurns = 2
SPECIFICATION Spec
INVARIANTS WordsReadAsWritten FrameAsCompiled LiveIsChained CodeFits RunsAsWritten ResultAsWritten
PROPERTIES FinallyEntered
