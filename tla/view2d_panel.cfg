SPECIFICATION Spec
CONSTANTS
    LastSlot = 1
    Toggles <- Axes
    Careful = TRUE
    MaxSteps = 4
INVARIANTS
    WindowCurrent
    MarksTrue
PROPERTIES
    OthersKept
CHECK_DEADLOCK FALSE
