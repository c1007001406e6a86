SPECIFICATION Spec
CONSTANTS
    Axis <- OneAxis
    FirstStyle <- Smooth
    Interrupts <- WhileDrawing
    Careful = TRUE
    MaxSteps = 5
INVARIANTS
    ButtonsShowMode
    StaleIsFlagged
    ListSound
CHECK_DEADLOCK FALSE
