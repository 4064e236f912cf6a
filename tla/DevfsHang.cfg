SPECIFICATION Spec
CONSTANTS
    Procs = {p}
    Devs = {0}
    BufSize = 3
    Bytes = {a}
    High = {}
    MaxCount = 2
    Nil = Nil
INVARIANT
    NoHang
CHECK_DEADLOCK FALSE
