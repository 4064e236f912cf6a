SPECIFICATION Spec
CONSTANTS
    Caches = {0, 1, 2}
    Meta = 0
    Kmallocs = {1, 2}
    NSlabs = 4
    NObjs = 2
    Nil = nil
INVARIANTS ListsSound MarksAgree FreeFindsSlab
CHECK_DEADLOCK FALSE
