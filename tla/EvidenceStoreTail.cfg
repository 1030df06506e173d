\* A device whose tail is two thirds of a block.
SPECIFICATION Spec
CONSTANTS
    Readers = {r1}
    Stores = {s1, s2}
    ImageLength = 5
    BlockSize = 3
    CacheSize = 1
    BitsPerByte = 8
    IntLimit = 16
    Bytes <- MCBytes
    Zero = 0
    Device <- MCDevice
    Faults = {}
    MaxRef = 3
    None = None
    Absent = Absent
INVARIANTS
    AvailableIsDevice
