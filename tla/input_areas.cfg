SPECIFICATION Spec
CONSTANTS
    Pages <- MCPages
    Char = {"p"}
    Pastes <- MCPastes
    MaxEvents = 4
    Careful = TRUE
INVARIANTS
    WindowShowsText
PROPERTIES
    EditsText
CHECK_DEADLOCK FALSE
