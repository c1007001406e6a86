SPECIFICATION Spec
CONSTANTS
    Viewport2D <- TwoViewports
    Viewport3D <- OneViewport
    Shown <- FirstViewport
    Key <- TwoKeys
    maxGraphs = 1
    MayCrash = TRUE
    Careful = TRUE
    MaxCalls = 2
    MaxClicks = 4
INVARIANTS
    InSync
    HeldGraphsKept
    CallsComplete
PROPERTIES
    ClosedIsForgotten
    NobodyWaits
CHECK_DEADLOCK FALSE
