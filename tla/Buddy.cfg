SPECIFICATION Spec
CONSTANTS
    MaxOrder = 3
    PageSize = 1
    Limit = 10
    IntBits = 5
    AddrBits = 8
INVARIANTS
    PagesConserved
    Coalesced
    AllocComplete
PROPERTY
    ImplementsPageAlloc
