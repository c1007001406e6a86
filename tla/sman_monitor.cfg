SPECIFICATION FairSpec
CONSTANTS
    Pid = {1, 2, 3, 4, 5, 6}
    Options <- Typical
    MaxForks = 8
    MaxTerm = 1
INVARIANTS
    ServedRight
    MenuSocketOwned
PROPERTIES
    DeathsAreAnswered
CHECK_DEADLOCK FALSE
