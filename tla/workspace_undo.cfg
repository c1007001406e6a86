SPECIFICATION Spec
CONSTANTS
    Var = {x, y}
    Name = {"initial"}
    UndoArgs <- TwoWays
    Careful = FALSE
    MaxLines = 2
    MaxFailed = 0
    MaxCommands = 2
INVARIANTS
    UndoReturns
CHECK_DEADLOCK FALSE
