SPECIFICATION Spec
CONSTANTS
    FirstPage = 1
    LastPage = 4
    Super = 2
    MaxFrees = 4
    MaxEntries = 3
    Nil = Nil
INVARIANTS
    TreesAgree
    Tiling
    FitFindsOneOfTwo
CHECK_DEADLOCK FALSE
