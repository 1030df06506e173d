\* No failure but the race of a close with the reader's own storeBlock.
SPECIFICATION Spec
CONSTANTS
    Readers = {r1}
    Stores = {s1, s2}
    ImageLength = 2
    BlockSize = 1
    CacheSize = 1
    BitsPerByte = 1
    IntLimit = 16
    Bytes <- MCBytes
    Zero = 0
    Device <- MCDevice
    Faults = {}
    MaxRef = 3
    None = None
    Absent = Absent
INVARIANTS
    UnusedIsClosed
