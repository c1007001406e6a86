SPECIFICATION SavedSpec
CONSTANTS
    Scene <- MCScene
    Missing <- MCMissing
    MaxSteps = 3
    Careful = TRUE
    LastSlot = 2
    Points <- MCPoints
    Components <- MCComponents
    Graphs <- MCGraphs
    Keys <- MCKeys
    Options <- MCOptions
    Losses <- MCLosses
INVARIANTS
    PaperShowsWindow
    ArrivesAsSent
    SavedIsThisWrite
    Reopened
PROPERTIES
    WindowUntouched
CHECK_DEADLOCK FALSE
