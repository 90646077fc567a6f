CONSTANTS
    Sentences <- OneOfDepthTwo
    Flaws = {"unowned"}
SPECIFICATION ExpressionSpec
CHECK_DEADLOCK FALSE
INVARIANTS ChoiceOwned
