SPECIFICATION Spec
CONSTANTS
    Procs = {p, q}
    Devs = {0}
    BufSize = 3
    Bytes = {a, h}
    High = {h}
    MaxCount = 2
    Nil = Nil
SYMMETRY ProcSymmetry
PROPERTIES
    ReadGivesData
    InputIsQueue
    OutputIsQueue
CHECK_DEADLOCK FALSE
