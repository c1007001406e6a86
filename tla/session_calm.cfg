SPECIFICATION FairSpec
CONSTANTS
    Window = {w1, w2}
    NoSock = NoSock
    MaxFrames = 3
    Habits <- Calm
    Kind = {"expr", "close", "quietly"}
    MaxLines = 4
    MaxMenu = 0
INVARIANTS
    EvalInOwnFrame
    WindowKeepsFrame
    ClientsCountedExactly
    SessionSurvives
PROPERTIES
    LinesReachLisp
