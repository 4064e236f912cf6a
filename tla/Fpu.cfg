SPECIFICATION Spec
CONSTANTS
    Tasks = {t1, t2, t3}
    Idle = Idle
    Contents = {zero, a}
    Zero = zero
    Boot = a
    MaxFrames = 2
INVARIANTS
    NoTrapOwnsFpu
PROPERTY
    Isolated
