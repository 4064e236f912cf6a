SPECIFICATION Spec
CONSTANTS
    NFrames = 8
    NTables = 3
    NProcs = 3
    ProgPages = 2
    StackPages = 1
    MmapPages = 1
    MaxEntries = 3
    Values = {v1, v2}
    Device = Device
    Nil = Nil
INVARIANTS
    FramesExclusive
PROPERTY
    ForkCopies
CHECK_DEADLOCK FALSE
