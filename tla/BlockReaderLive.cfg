\* Three blocks, one slot: does every call end?
SPECIFICATION FairSpec
CONSTANTS
    Readers = {r1, r2}
    SectorCount = 5
    SectorsPerBlock = 2
    MaxRequestsInFlight = 1
    MaxReadAheadBlocks = 4
    IntLimit = 16
    Faults = {"read"}
PROPERTIES
    ReadTerminates
