SPECIFICATION FairSpec
CONSTANTS
    ProcNr = 3
    Quantum = 2
    MaxSleep = 4
    HZ = 2
    Nano = 3
INVARIANTS
    RunningIsCurrent
    QueueSound
    SleepersHaveOneEvent
    OverdueBounded
PROPERTIES
    EarlyByLessThanTick
    SleeperWakes
    ReadyRuns
