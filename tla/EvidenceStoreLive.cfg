\* Two readers, no failures but crashes: what the reference count, the
\* cache and the closes bring about.  One object at a time: the next one is
\* constructed when the calls of the last have returned.
SPECIFICATION FairSpec
CONSTANTS
    Readers = {r1, r2}
    Stores = {s1}
    ImageLength = 3
    BlockSize = 1
    CacheSize = 2
    BitsPerByte = 2
    IntLimit = 16
    Bytes <- MCBytes
    Zero = 0
    Device <- MCDevice
    Faults = {}
    MaxRef = 3
    None = None
    Absent = Absent
INVARIANTS
    OpenWhileUsed
    CacheWithinLimit
PROPERTIES
    EventuallyRecorded
