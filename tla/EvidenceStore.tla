--------------------------- MODULE EvidenceStore ---------------------------
(***************************************************************************)
(* The evidence store of one remote device and the factory that shares it  *)
(* (org.raqet.iscsi.EvidenceStore and EvidenceStoreFactory).               *)
(*                                                                         *)
(* One evidence file and one bitmap file survive a crash of the server.    *)
(* In memory, EvidenceStore objects hold the open files, the bitmap and an *)
(* LRU cache; the factory hands the same object to every block reader of   *)
(* the path and closes it with the last reference.  The factory's map has  *)
(* one entry per path and its paths do not interact, so the module follows *)
(* a single path.                                                          *)
(*                                                                         *)
(* Two monitors interleave: the factory's (held by a close while it writes *)
(* the bitmap) and the store's (held by storeBlock and retrieveBlock).     *)
(* containsBlock and the bitmap's toByteArray take neither.                *)
(***************************************************************************)
EXTENDS Integers, Sequences, FiniteSets

CONSTANTS
    Readers,      \* block readers, the users of the factory
    Stores,       \* EvidenceStore objects; unreferenced ones are reused
    ImageLength,  \* size of the device in bytes
    BlockSize,    \* bytes per block
    CacheSize,    \* BLOCKS_TO_CACHE
    BitsPerByte,  \* bits in a byte of the bitmap file
    IntLimit,     \* a Java int ranges over -IntLimit .. IntLimit - 1
    Bytes,        \* what a byte can be
    Zero,         \* the byte a file is extended with
    Device,       \* the device's bytes, indexed by position
    Faults,       \* which file operations may fail
    MaxRef,       \* bound on the reference count
    None,         \* no object, no operation in progress
    Absent        \* the content of a position beyond the end of file

BlockCount == (ImageLength + BlockSize - 1) \div BlockSize
Blocks     == 0 .. BlockCount - 1
Offsets    == 0 .. BlockSize - 1
BlockData  == [Offsets -> Bytes]
Files      == {"evidence", "bitmap"}

ASSUME GeometryAssumption ==
    /\ ImageLength \in Nat
    /\ BlockSize \in Nat \ {0}
    /\ CacheSize \in Nat \ {0}
    /\ BitsPerByte \in Nat \ {0}
    /\ IntLimit \in Nat \ {0}
    /\ MaxRef \in Nat

ASSUME ContentAssumption ==
    /\ Zero \in Bytes
    /\ Absent \notin Bytes
    /\ Device \in [0 .. ImageLength - 1 -> Bytes]

ASSUME ObjectAssumption ==
    /\ None \notin Stores
    /\ None \notin Blocks
    /\ IsFiniteSet(Readers)
    /\ Faults \subseteq {"open", "write", "sync", "close", "setup"}

VARIABLES
    evidenceFile,   \* bytes of the evidence file, by block and offset
    bitmapFile,     \* blocks marked in the bitmap file
    evidenceStores, \* the factory's map entry for the path
    refCount,       \* _refCount of each object
    filesOpen,      \* which of the object's two files are open
    bitmap,         \* _bitmap of each object
    cachedBlocks,   \* _cachedBlocks of each object: block -> data
    recency,        \* the cached blocks, eldest access first
    storing,        \* the block of the storeBlock inside an object's monitor
    ref,            \* the object each reader holds
    closing         \* the close inside the factory's monitor

memory == <<evidenceStores, refCount, filesOpen, bitmap, cachedBlocks,
            recency, storing, ref, closing>>
vars   == <<evidenceFile, bitmapFile, memory>>

EmptyCache == [x \in {} |-> x]

(***************************************************************************)
(* Block content.                                                          *)
(***************************************************************************)

\* The buffer a reader passes to storeBlock: device bytes, zero padded.
DeviceBlock(b) ==
    [i \in Offsets |-> IF b * BlockSize + i < ImageLength
                       THEN Device[b * BlockSize + i] ELSE Zero]

\* The value of an int expression whose mathematical value is n.
ToInt(n) == ((n + IntLimit) % (2 * IntLimit)) - IntLimit

\* How many bytes of a block are written to and read from the file.
TransferLength(b) ==
    LET blockEnd == ToInt((b + 1) * BlockSize)
    IN  IF blockEnd > ImageLength THEN blockEnd - ImageLength ELSE BlockSize

\* The evidence file after the first n bytes of data went to block b.
WriteBytes(file, b, data, n) ==
    [file EXCEPT ![b] = [i \in Offsets |-> IF i < n THEN data[i] ELSE @[i]]]

\* The evidence file with at least the length of the image, never truncated.
Extended(file) ==
    [b \in Blocks |-> [i \in Offsets |->
        IF file[b][i] = Absent /\ b * BlockSize + i < ImageLength
        THEN Zero ELSE file[b][i]]]

\* What readFully puts in a fresh buffer for block b.
ReadBytes(b) ==
    [i \in Offsets |-> IF i < TransferLength(b) THEN evidenceFile[b][i]
                                                ELSE Zero]

(***************************************************************************)
(* The cache: a LinkedHashMap in access order.                             *)
(***************************************************************************)

\* An access: b goes behind the others, which close up.
Touch(order, b) ==
    IF \E i \in DOMAIN order : order[i] = b
    THEN LET k == CHOOSE i \in DOMAIN order : order[i] = b
         IN  [i \in DOMAIN order |->
                 IF i < k THEN order[i]
                 ELSE IF i = Len(order) THEN b ELSE order[i + 1]]
    ELSE Append(order, b)

\* The order left once the eldest block made room for another.
EvictLate(order) == IF Len(order) > CacheSize THEN Tail(order) ELSE order
Evict(order)     == IF Len(order) = CacheSize THEN Tail(order) ELSE order

Victims(s) == IF Len(recency[s]) = CacheSize THEN {Head(recency[s])} ELSE {}

\* Evict if the cache is full, then put data under b.
CachePut(s, b, data) ==
    /\ recency' = [recency EXCEPT ![s] = Touch(Evict(@), b)]
    /\ cachedBlocks' = [cachedBlocks EXCEPT ![s] =
           [x \in (DOMAIN @ \ Victims(s)) \cup {b} |->
               IF x = b THEN data ELSE @[x]]]

(***************************************************************************)
(* Bitmap file.                                                            *)
(***************************************************************************)

\* The bitmap file after the first n bytes of the array were written to it.
WriteBits(image, n) ==
    {b \in image : b \div BitsPerByte < n} \cup {b \in bitmapFile : b \div BitsPerByte >= n}

\* Length of BitSet.toByteArray: up to the byte of the highest set bit.
ByteArrayLengthShort(image) ==
    IF image = {} THEN 0
    ELSE LET last == CHOOSE b \in image : \A c \in image : c <= b
         IN  last \div BitsPerByte
ByteArrayLength(image) ==
    IF image = {} THEN 0
    ELSE LET last == CHOOSE b \in image : \A c \in image : c <= b
         IN  last \div BitsPerByte + 1

-----------------------------------------------------------------------------
Init ==
    /\ evidenceFile = [b \in Blocks |-> [i \in Offsets |-> Absent]]
    /\ bitmapFile = {}
    /\ evidenceStores = None
    /\ refCount = [s \in Stores |-> 0]
    /\ filesOpen = [s \in Stores |-> {}]
    /\ bitmap = [s \in Stores |-> {}]
    /\ cachedBlocks = [s \in Stores |-> EmptyCache]
    /\ recency = [s \in Stores |-> <<>>]
    /\ storing = [s \in Stores |-> None]
    /\ ref = [r \in Readers |-> None]
    /\ closing = None

\* getEvidenceStore, the path is in the map: share the object.
ShareEvidenceStoreReloading(r, s) ==
    /\ closing = None
    /\ ref[r] = None
    /\ evidenceStores = s
    /\ refCount[s] < MaxRef
    /\ refCount' = [refCount EXCEPT ![s] = @ + 1]
    /\ bitmap' = [bitmap EXCEPT ![s] = bitmapFile]
    /\ ref' = [ref EXCEPT ![r] = s]
    /\ UNCHANGED <<evidenceFile, bitmapFile, evidenceStores, filesOpen,
                   cachedBlocks, recency, storing, closing>>
ShareEvidenceStore(r, s) ==
    /\ closing = None
    /\ ref[r] = None
    /\ evidenceStores = s
    /\ refCount[s] < MaxRef
    /\ refCount' = [refCount EXCEPT ![s] = @ + 1]
    /\ ref' = [ref EXCEPT ![r] = s]
    /\ UNCHANGED <<evidenceFile, bitmapFile, evidenceStores, filesOpen,
                   bitmap, cachedBlocks, recency, storing, closing>>

\* getEvidenceStore, the path is not in the map: construct an object, which
\* extends the evidence file, reads the bitmap and starts with no cache.  A
\* new object is none that a reader holds or is still in a call of.
CreateEvidenceStoreTruncating(r, s) ==
    /\ closing = None
    /\ ref[r] = None
    /\ evidenceStores = None
    /\ ref' = [ref EXCEPT ![r] = s]
    /\ evidenceStores' = s
    /\ evidenceFile' = Extended([b \in Blocks |-> [i \in Offsets |-> Absent]])
    /\ refCount' = [refCount EXCEPT ![s] = 1]
    /\ filesOpen' = [filesOpen EXCEPT ![s] = Files]
    /\ bitmap' = [bitmap EXCEPT ![s] = bitmapFile]
    /\ cachedBlocks' = [cachedBlocks EXCEPT ![s] = EmptyCache]
    /\ recency' = [recency EXCEPT ![s] = <<>>]
    /\ UNCHANGED <<bitmapFile, storing, closing>>
CreateEvidenceStore(r, s) ==
    /\ closing = None
    /\ ref[r] = None
    /\ evidenceStores = None
    /\ \A q \in Readers : ref[q] # s
    /\ storing[s] = None
    /\ evidenceFile' = Extended(evidenceFile)
    /\ evidenceStores' = s
    /\ refCount' = [refCount EXCEPT ![s] = 1]
    /\ filesOpen' = [filesOpen EXCEPT ![s] = Files]
    /\ bitmap' = [bitmap EXCEPT ![s] = bitmapFile]
    /\ cachedBlocks' = [cachedBlocks EXCEPT ![s] = EmptyCache]
    /\ recency' = [recency EXCEPT ![s] = <<>>]
    /\ ref' = [ref EXCEPT ![r] = s]
    /\ UNCHANGED <<bitmapFile, storing, closing>>

\* The constructor throws after it extended the evidence file: the factory
\* keeps no entry, the files keep what was done.
CreateEvidenceStoreFails(r) ==
    /\ "open" \in Faults
    /\ closing = None
    /\ ref[r] = None
    /\ evidenceStores = None
    /\ evidenceFile' = Extended(evidenceFile)
    /\ UNCHANGED <<bitmapFile, memory>>

\* The holder's set-up or its other clean-up fails and it forgets the object
\* without closing it: openDevice after createEvidenceStore, or a connection
\* whose close throws before the store's is called, with or without one of
\* its blocks being stored.
AbandonEvidenceStore(r) ==
    /\ "setup" \in Faults
    /\ ref[r] # None
    /\ closing # None => closing.reader # r
    /\ ref' = [ref EXCEPT ![r] = None]
    /\ UNCHANGED <<evidenceFile, bitmapFile, evidenceStores, refCount,
                   filesOpen, bitmap, cachedBlocks, recency, storing, closing>>

\* The calls of a reader that holds the object.  It may close its reference
\* while one of them runs: the file's close takes no lock of the read.

\* storeBlock up to the write: the block enters the cache, its bytes go to
\* the evidence file, the bit is not yet set and the monitor is still held.
StoreBlock(r, s, b) ==
    /\ ref[r] = s
    /\ storing[s] = None
    /\ "evidence" \in filesOpen[s]
    /\ CachePut(s, b, DeviceBlock(b))
    /\ evidenceFile' =
           WriteBytes(evidenceFile, b, DeviceBlock(b), TransferLength(b))
    /\ storing' = [storing EXCEPT ![s] = b]
    /\ UNCHANGED <<bitmapFile, evidenceStores, refCount, filesOpen, bitmap,
                   ref, closing>>

\* The rest of storeBlock: set the bit, leave the monitor.
SetAvailableNext(s) ==
    /\ storing[s] # None
    /\ bitmap' = [bitmap EXCEPT ![s] = @ \cup {storing[s] + 1}]
    /\ storing' = [storing EXCEPT ![s] = None]
    /\ UNCHANGED <<evidenceFile, bitmapFile, evidenceStores, refCount,
                   filesOpen, cachedBlocks, recency, ref, closing>>
SetAvailable(s) ==
    /\ storing[s] # None
    /\ bitmap' = [bitmap EXCEPT ![s] = @ \cup {storing[s]}]
    /\ storing' = [storing EXCEPT ![s] = None]
    /\ UNCHANGED <<evidenceFile, bitmapFile, evidenceStores, refCount,
                   filesOpen, cachedBlocks, recency, ref, closing>>

\* storeBlock whose write throws after n bytes, also because the last close
\* cuts it off: the block stays in the cache, the bit is not set.  On closed
\* files the seek before it throws and nothing changes.
StoreBlockFailsMarking(r, s, b) ==
    /\ "write" \in Faults
    /\ ref[r] = s
    /\ storing[s] = None
    /\ "evidence" \in filesOpen[s]
    /\ CachePut(s, b, DeviceBlock(b))
    /\ \E n \in 0 .. TransferLength(b) - 1 :
          evidenceFile' = WriteBytes(evidenceFile, b, DeviceBlock(b), n)
    /\ bitmap' = [bitmap EXCEPT ![s] = @ \cup {b}]
    /\ UNCHANGED <<bitmapFile, evidenceStores, refCount, filesOpen, storing,
                   ref, closing>>
StoreBlockFails(r, s, b) ==
    /\ "write" \in Faults
    /\ ref[r] = s
    /\ storing[s] = None
    /\ "evidence" \in filesOpen[s]
    /\ CachePut(s, b, DeviceBlock(b))
    /\ \E n \in 0 .. TransferLength(b) - 1 :
          evidenceFile' = WriteBytes(evidenceFile, b, DeviceBlock(b), n)
    /\ UNCHANGED <<bitmapFile, evidenceStores, refCount, filesOpen, bitmap,
                   storing, ref, closing>>

\* retrieveBlock, the block is cached: the access makes it the youngest.
RetrieveCachedBlock(r, s, b) ==
    /\ ref[r] = s
    /\ storing[s] = None
    /\ b \in bitmap[s]
    /\ b \in DOMAIN cachedBlocks[s]
    /\ recency' = [recency EXCEPT ![s] = Touch(@, b)]
    /\ UNCHANGED <<evidenceFile, bitmapFile, evidenceStores, refCount,
                   filesOpen, bitmap, cachedBlocks, storing, ref, closing>>

\* retrieveBlock, the block is not cached: read it back and cache it; a read
\* beyond the end of file throws and changes nothing.
RetrieveStoredBlock(r, s, b) ==
    /\ ref[r] = s
    /\ storing[s] = None
    /\ b \in bitmap[s]
    /\ b \notin DOMAIN cachedBlocks[s]
    /\ "evidence" \in filesOpen[s]
    /\ \A i \in Offsets : i < TransferLength(b) => evidenceFile[b][i] # Absent
    /\ CachePut(s, b, ReadBytes(b))
    /\ UNCHANGED <<evidenceFile, bitmapFile, evidenceStores, refCount,
                   filesOpen, bitmap, storing, ref, closing>>

-----------------------------------------------------------------------------
\* closeEvidenceStore enters the factory's monitor and takes the byte array
\* of the bitmap, whatever storeBlock runs on the object, the closing
\* reader's own included.  A reader closes its reference once: its input data
\* look whether they are open before they do.
BeginClose(r) ==
    /\ closing = None
    /\ ref[r] # None
    /\ closing' = [reader |-> r, image |-> bitmap[ref[r]]]
    /\ UNCHANGED <<evidenceFile, bitmapFile, evidenceStores, refCount,
                   filesOpen, bitmap, cachedBlocks, recency, storing, ref>>

\* What toByteArray may copy: the bits set when the close began, and any that
\* a storeBlock sets meanwhile.
Copies(s) == {closing.image \cup later :
                 later \in SUBSET (bitmap[s] \ closing.image)}

\* A bit set meanwhile lies beyond the array toByteArray has sized: it throws
\* a BufferOverflowException.
CopyOverflows(s) ==
    \E b \in bitmap[s] \ closing.image :
        b \div BitsPerByte >= ByteArrayLength(closing.image)

\* synctodisk: the byte array is written over the start of the bitmap file.
SyncToDiskOnLastClose(s) ==
    IF refCount[s] = 1
    THEN bitmapFile' = WriteBits(closing.image, ByteArrayLength(closing.image))
    ELSE UNCHANGED bitmapFile
SyncToDisk(s) ==
    \E image \in Copies(s) :
        bitmapFile' = WriteBits(image, ByteArrayLength(image))

\* decRefCount; the last reference closes the files and leaves the map.
DropReferenceAlways(s) ==
    /\ refCount' = [refCount EXCEPT ![s] = @ - 1]
    /\ filesOpen' = [filesOpen EXCEPT ![s] = {}]
    /\ evidenceStores' = None
DropReference(s) ==
    /\ refCount' = [refCount EXCEPT ![s] = @ - 1]
    /\ IF refCount'[s] = 0
       THEN /\ filesOpen' = [filesOpen EXCEPT ![s] = {}]
            /\ evidenceStores' = None
       ELSE UNCHANGED <<filesOpen, evidenceStores>>

\* The closing reader leaves the factory's monitor and forgets the object.
LeaveClose(r) ==
    /\ ref' = [ref EXCEPT ![r] = None]
    /\ closing' = None

\* closeEvidenceStore without a failure.
FinishClose(r) ==
    /\ closing # None
    /\ closing.reader = r
    /\ "bitmap" \in filesOpen[ref[r]]
    /\ SyncToDisk(ref[r])
    /\ DropReference(ref[r])
    /\ LeaveClose(r)
    /\ UNCHANGED <<evidenceFile, bitmap, cachedBlocks, recency, storing>>

\* synctodisk throws, from toByteArray or with the array written in part: no
\* reference is dropped, and the reader, marked closed, will not close again.
SyncFails(r) ==
    /\ closing # None
    /\ closing.reader = r
    /\ \/ "sync" \in Faults
       \/ "bitmap" \notin filesOpen[ref[r]]
       \/ CopyOverflows(ref[r])
    /\ \E image \in Copies(ref[r]) : \E n \in 0 .. ByteArrayLength(image) :
          /\ "sync" \notin Faults \/ "bitmap" \notin filesOpen[ref[r]] => n = 0
          /\ bitmapFile' = WriteBits(image, n)
    /\ LeaveClose(r)
    /\ UNCHANGED <<evidenceFile, evidenceStores, refCount, filesOpen, bitmap,
                   cachedBlocks, recency, storing>>

\* doclose throws: the count is zero, the evidence file is closed, the bitmap
\* file stays open if it was the evidence file whose close threw, and the
\* factory still maps the path to the object.
DoCloseFails(r) ==
    /\ "close" \in Faults
    /\ closing # None
    /\ closing.reader = r
    /\ "bitmap" \in filesOpen[ref[r]]
    /\ refCount[ref[r]] = 1
    /\ SyncToDisk(ref[r])
    /\ refCount' = [refCount EXCEPT ![ref[r]] = 0]
    /\ \E left \in {{}, {"bitmap"}} :
          /\ left # {} => "evidence" \in filesOpen[ref[r]]
          /\ filesOpen' = [filesOpen EXCEPT ![ref[r]] = left]
    /\ LeaveClose(r)
    /\ UNCHANGED <<evidenceFile, evidenceStores, bitmap, cachedBlocks,
                   recency, storing>>

\* The server is killed and started again: the files are all that is left.
Crash ==
    /\ evidenceStores' = None
    /\ refCount' = [s \in Stores |-> 0]
    /\ filesOpen' = [s \in Stores |-> {}]
    /\ bitmap' = [s \in Stores |-> {}]
    /\ cachedBlocks' = [s \in Stores |-> EmptyCache]
    /\ recency' = [s \in Stores |-> <<>>]
    /\ storing' = [s \in Stores |-> None]
    /\ ref' = [r \in Readers |-> None]
    /\ closing' = None
    /\ UNCHANGED <<evidenceFile, bitmapFile>>

BlockCall(r, s, b) ==
    \/ StoreBlock(r, s, b)
    \/ StoreBlockFails(r, s, b)
    \/ RetrieveCachedBlock(r, s, b)
    \/ RetrieveStoredBlock(r, s, b)

ReaderStep(r) ==
    \/ \E s \in Stores :
          \/ ShareEvidenceStore(r, s)
          \/ CreateEvidenceStore(r, s)
          \/ \E b \in Blocks : BlockCall(r, s, b)
    \/ CreateEvidenceStoreFails(r)
    \/ AbandonEvidenceStore(r)
    \/ BeginClose(r)
    \/ FinishClose(r)
    \/ SyncFails(r)
    \/ DoCloseFails(r)

Next ==
    \/ \E r \in Readers : ReaderStep(r)
    \/ \E s \in Stores : SetAvailable(s)
    \/ Crash

Spec == Init /\ [][Next]_vars

\* A call inside a monitor returns, and a client closes its file after
\* finitely many reads.
Fairness ==
    /\ \A s \in Stores : WF_vars(SetAvailable(s))
    /\ \A r \in Readers : WF_vars(FinishClose(r)) /\ SF_vars(BeginClose(r))

FairSpec == Spec /\ Fairness

-----------------------------------------------------------------------------
(* Properties *)

\* The bytes of block b in the evidence file are the device's.
Written(b) ==
    \A i \in Offsets :
        b * BlockSize + i < ImageLength =>
            evidenceFile[b][i] = DeviceBlock(b)[i]

\* What retrieveBlock returns for an available block.
Retrieved(s, b) ==
    IF b \in DOMAIN cachedBlocks[s] THEN cachedBlocks[s][b] ELSE ReadBytes(b)

\* No reader holds the object.
Unused(s) == \A r \in Readers : ref[r] # s

\* The blocks the server treats as acquired.
Acquired ==
    IF evidenceStores = None THEN bitmapFile ELSE bitmap[evidenceStores]

Caches == UNION {[D -> BlockData] : D \in SUBSET Blocks}

(***************************************************************************)
(* Every variable holds values of its kind; the count of references never  *)
(* goes below zero.                                                        *)
(***************************************************************************)
TypeOK ==
    /\ evidenceFile \in [Blocks -> [Offsets -> Bytes \cup {Absent}]]
    /\ bitmapFile \in SUBSET Blocks
    /\ evidenceStores \in Stores \cup {None}
    /\ refCount \in [Stores -> Nat]
    /\ filesOpen \in [Stores -> SUBSET Files]
    /\ bitmap \in [Stores -> SUBSET Blocks]
    /\ cachedBlocks \in [Stores -> Caches]
    /\ storing \in [Stores -> Blocks \cup {None}]
    /\ ref \in [Readers -> Stores \cup {None}]
    /\ closing \in {None} \cup [reader : Readers, image : SUBSET Blocks]

(***************************************************************************)
(* The bitmap file marks a block only when the evidence file holds the     *)
(* device's bytes for it: a server killed at any point, inside storeBlock  *)
(* or half way through writing the bitmap, never finds a block marked      *)
(* available whose bytes it does not have.                                 *)
(***************************************************************************)
RecordedIsWritten == \A b \in bitmapFile : Written(b)

(***************************************************************************)
(* Every block an object in use calls available is served with the         *)
(* device's bytes, from the cache or, after an eviction, a close and       *)
(* reopen or a restart, from the evidence file.                            *)
(***************************************************************************)
AvailableIsDevice ==
    \A r \in Readers : ref[r] # None =>
        \A b \in bitmap[ref[r]] : Retrieved(ref[r], b) = DeviceBlock(b)

(***************************************************************************)
(* All readers of the path use the object in the factory's map: two        *)
(* objects, with two bitmaps, never write the same two files, whatever     *)
(* references were lost on the way.                                        *)
(***************************************************************************)
OneStoreInUse ==
    \A r \in Readers : ref[r] # None => ref[r] = evidenceStores

(***************************************************************************)
(* The files of an object stay open as long as a reader is left: a close   *)
(* never takes them from under another reader.                             *)
(***************************************************************************)
OpenWhileUsed ==
    \A r \in Readers : ref[r] # None => filesOpen[ref[r]] = Files

(***************************************************************************)
(* The cache holds at most BLOCKS_TO_CACHE blocks, and its access order    *)
(* lists each of them once.                                                *)
(***************************************************************************)
CacheWithinLimit ==
    \A s \in Stores :
        /\ Len(recency[s]) <= CacheSize
        /\ DOMAIN cachedBlocks[s] = {recency[s][i] : i \in DOMAIN recency[s]}
        /\ Cardinality(DOMAIN cachedBlocks[s]) = Len(recency[s])

(***************************************************************************)
(* The comment of _refCount: it "makes sure the files are closed when the  *)
(* last user of EvidenceStore closes its reference".                       *)
(***************************************************************************)
UnusedIsClosed ==
    \A s \in Stores : filesOpen[s] # {} => ~Unused(s)

(***************************************************************************)
(* A close that returns has made durable every block that was available    *)
(* when it began, also when other readers keep the object open.            *)
(***************************************************************************)
ClosePersists ==
    [][\A r \in Readers :
          FinishClose(r) => closing.image \subseteq bitmapFile']_vars

(***************************************************************************)
(* Bytes of the device that reached the evidence file stay there through   *)
(* reopening, failed writes and restarts.                                  *)
(***************************************************************************)
WrittenIsKept == [][\A b \in Blocks : Written(b) => Written(b)']_vars

(***************************************************************************)
(* A block that an object calls available stays available to every reader  *)
(* that keeps the object, whoever opens, stores, closes or fails: a reader *)
(* that found the block may fetch it any number of steps later.            *)
(***************************************************************************)
AvailableStays ==
    [][\A r \in Readers :
          ref[r] # None /\ ref'[r] = ref[r] =>
              bitmap[ref[r]] \subseteq bitmap'[ref[r]]]_vars

(***************************************************************************)
(* The store implements the acquisition it promises: its cache, counters   *)
(* and monitors never let a block be marked before its bytes are there.    *)
(***************************************************************************)
Promise == INSTANCE Acquisition WITH
    written  <- {b \in Blocks : Written(b)},
    acquired <- Acquired,
    recorded <- bitmapFile

ImplementsAcquisition == Promise!Spec

(***************************************************************************)
(* An available block does not stay out of the bitmap file while its store *)
(* is in use: it becomes durable, or a crash forgets it, or the last       *)
(* reader's close threw and left the store without a user.                 *)
(***************************************************************************)
EventuallyRecorded ==
    \A b \in Blocks :
        (b \in Acquired) ~> \/ b \in bitmapFile
                            \/ b \notin Acquired
                            \/ Unused(evidenceStores)

=============================================================================
