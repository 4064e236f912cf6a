CONSTANTS
    MaxOrder = 2
    PageSize = 2
    Limit = 12
    IntBits = 6
    AddrBits = 10
    Floor = 2
    KernelLB = 4
    NumaLB = 6
    MapLen = 2
    Roms <- Firmware
    MaxRegions = 3
    StalePages = {4}
SPECIFICATION Spec
INVARIANTS CoreZonesComplete ParsedExact NumaZonesSound UmaComplete
CHECK_DEADLOCK FALSE
