\* Two threads on one file; a device that ends inside its second block, and
\* one whose third block lies beyond the int range.
SPECIFICATION FairSpec
CONSTANTS
    Threads = {t1, t2}
    Sessions = {1, 2, 3}
    None = None
    Sizes = {3, 5}
    BlockSize = 2
    IntLimit = 8
    Offsets = {1, 4}
    Counts = {1, 3}
    FaultSets <- MCFaultSets
INVARIANTS
    TypeOK
    ReadsDevice
    NoSessionLost
    GivenBackOnce
PROPERTIES
    MonitorIsFreed
