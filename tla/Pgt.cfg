SPECIFICATION Spec
CONSTANTS
    PdFan = 2
    PtFan = 4
    SuperOrder = 2
    LinearGibs = 2
    KTables = 6
    PTables = 4
    NProcs = 2
    MaxPages = 2
    MaxTlb = 1
INVARIANTS
    TablesConserved
    KernelShared
    TlbCoherent
    TablesMatchPages
