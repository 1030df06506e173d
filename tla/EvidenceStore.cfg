\* A device of whole blocks, every file operation failing at any point,
\* crashes at any point; a bitmap of two bytes.
SPECIFICATION Spec
CONSTANTS
    Readers = {r1, r2}
    Stores = {s1, s2}
    ImageLength = 6
    BlockSize = 2
    CacheSize = 1
    BitsPerByte = 2
    IntLimit = 16
    Bytes <- MCBytes
    Zero = 0
    Device <- MCDevice
    Faults = {"open", "write", "sync", "close", "setup"}
    MaxRef = 3
    None = None
    Absent = Absent
SYMMETRY Symmetry
INVARIANTS
    TypeOK
    RecordedIsWritten
    AvailableIsDevice
    OneStoreInUse
PROPERTIES
    ClosePersists
    WrittenIsKept
    AvailableStays
    ImplementsAcquisition
