SPECIFICATION Spec
CONSTANTS
    Window = {w1, w2}
    NoSock = NoSock
    MaxFrames = 3
    Habits <- Wild
    Kind = {"expr", "close", "quietly"}
    MaxLines = 2
    MaxMenu = 1
SYMMETRY WindowSymmetry
INVARIANTS
    ActiveInList
    CountMatchesList
    MaskIsExact
    FramesDistinct
CHECK_DEADLOCK FALSE
