SPECIFICATION Spec
CONSTANTS
    MAXLINE = 9
    MAXRING = 3
    prev_check = 3
    Typing <- MCTyping
    Embedded <- MCEmbedded
    Files <- MCFiles
    NewWords <- MCNewWords
    Pasted <- MCPasted
    FunctionKey <- MCFunctionKey
    Careful = TRUE
    MaxReads <- MCMaxReads
CHECK_DEADLOCK FALSE
INVARIANTS
    ScreenShowsLine
    RingSound
PROPERTIES
    EditsWhole
    KeysProcessed
