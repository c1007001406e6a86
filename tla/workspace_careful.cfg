SPECIFICATION Spec
CONSTANTS
    Var = {x, y}
    Name = {"initial", "quark"}
    UndoArgs <- Arguments
    Careful = TRUE
    MaxLines = 3
    MaxFailed = 1
    MaxCommands = 4
INVARIANTS
    UndoReturns
    OwnValues
PROPERTIES
    FramesIndependent
CHECK_DEADLOCK FALSE
