\* Two readers of a device of three blocks, every kind of failure.
SPECIFICATION Spec
CONSTANTS
    Readers = {r1, r2}
    SectorCount = 5
    SectorsPerBlock = 2
    MaxRequestsInFlight = 2
    MaxReadAheadBlocks = 4
    IntLimit = 16
    Faults = {"read", "service", "send", "store"}
SYMMETRY Symmetry
INVARIANTS
    TypeOK
    AvailableOnFetch
    InFlightWithinLimit
PROPERTIES
    RequestsSettled
