SPECIFICATION FairSpec
CONSTANTS
    Aps = {1, 2, 3}
    Machines = {{1, 2}, {2, 3}}
    Cpus = {0, 1, 2, 3}
    Tick = 9
    MaxProcessors = 3
    Period = 3
    TmrHz = 2
    UsecPerSec = 3
    Wait10ms = 2
    Wait200us = 2
    Probe = 3
    NumaBlocks = 2
    KernelBlocks = 1
    Spare = {"proc", "vmem", "pgt", "task"}
    ObjsPerSlab = 2
    MaxEvents = 1
INVARIANTS StackSafe ReadyWhenUsed BlocksOnce
PROPERTIES SleepExact ApsArrive
CHECK_DEADLOCK FALSE
