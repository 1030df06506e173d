---------------------- MODULE EvidenceStoreRefinement ----------------------
(***************************************************************************)
(* The evidence store serves the device's bytes, an orderly close makes    *)
(* everything available durable, and the store implements Acquisition.     *)
(***************************************************************************)
EXTENDS EvidenceStoreProofs, WellFoundedInduction

(***************************************************************************)
(* The byte array of a bitmap reaches every block marked in it.            *)
(***************************************************************************)

LEMMA MaxExists ==
  ASSUME NEW n \in Nat, NEW S \in SUBSET (0 .. n), S # {}
  PROVE  \E m \in S : \A c \in S : c <= m
<1> DEFINE T == {n - x : x \in S}
<1>1. T \subseteq Nat /\ T # {}
  <2>1. \A x \in S : n - x \in Nat
    OBVIOUS
  <2>2. PICK x \in S : TRUE
    OBVIOUS
  <2>3. n - x \in T
    BY <2>2
  <2> QED
    BY <2>1, <2>3
<1>2. PICK y \in T : \A z \in T : ~(<<z, y>> \in OpToRel(<, Nat))
  BY <1>1, WFMin, NatLessThanWellFounded
<1>3. PICK m \in S : y = n - m
  OBVIOUS
<1>4. ASSUME NEW c \in S PROVE c <= m
  <2>1. n - c \in T /\ n - c \in Nat /\ y \in Nat
    BY <1>1
  <2>2. ~(n - c < y)
    BY <1>2, <2>1 DEF OpToRel
  <2> QED
    BY <2>1, <2>2, <1>3
<1> QED
  BY <1>4

LEMMA ByteArrayCovers ==
  ASSUME NEW image \in SUBSET Blocks, NEW b \in image
  PROVE  b \div BitsPerByte < ByteArrayLength(image)
<1> DEFINE last == CHOOSE c \in image : \A d \in image : d <= c
<1>1. BlockCount \in Int /\ BlockCount - 1 \in Nat
  BY GeometryAssumption DEF Blocks, BlockCount
<1>2. last \in image /\ \A d \in image : d <= last
  <2>1. \E c \in image : \A d \in image : d <= c
    BY <1>1, MaxExists DEF Blocks
  <2> QED
    BY <2>1
<1>3. ByteArrayLength(image) = last \div BitsPerByte + 1
  BY DEF ByteArrayLength
<1>4. \A x \in Nat, y \in Nat, z \in Nat \ {0} : x <= y => x \div z <= y \div z
  <2> SUFFICES ASSUME NEW x \in Nat, NEW y \in Nat, NEW z \in Nat \ {0}, x <= y
               PROVE  x \div z <= y \div z
    OBVIOUS
  <2> DEFINE p == x \div z
             q == y \div z
  <2>1. p \in Nat /\ p * z <= x
    OBVIOUS
  <2>2. q \in Nat /\ y < (q + 1) * z
    OBVIOUS
  <2> HIDE DEF p, q
  <2>3. ~(p >= q + 1)
    <3> SUFFICES ASSUME p >= q + 1 PROVE FALSE
      OBVIOUS
    <3>1. p * z >= (q + 1) * z
      BY <2>1, <2>2
    <3> QED
      BY <2>1, <2>2, <3>1
  <2> QED
    BY <2>1, <2>2, <2>3 DEF p, q
<1> HIDE DEF last
<1>5. b \in Nat /\ last \in Nat /\ b <= last
  BY <1>2 DEF Blocks
<1>6. b \div BitsPerByte \in Nat /\ last \div BitsPerByte \in Nat
  BY <1>5, GeometryAssumption
<1> QED
  BY <1>3, <1>4, <1>5, <1>6, GeometryAssumption

(***************************************************************************)
(* synctodisk writes the whole image, so a close that returns has made     *)
(* every block durable that was available when it began.                   *)
(***************************************************************************)
LEMMA SyncToDiskWritesAll ==
  ASSUME TypeOK, NEW s \in Stores, closing # None, SyncToDisk(s)
  PROVE  closing.image \subseteq bitmapFile'
<1>1. PICK later \in SUBSET (bitmap[s] \ closing.image) :
          bitmapFile' = WriteBits(closing.image \cup later,
                                  ByteArrayLength(closing.image \cup later))
  BY DEF SyncToDisk, Copies
<1>2. closing.image \cup later \in SUBSET Blocks
  BY DEF TypeOK
<1> QED
  BY <1>1, <1>2, ByteArrayCovers DEF WriteBits

THEOREM CloseIsDurable == Spec => ClosePersists
<1>1. ASSUME TypeOK, References, NEW r \in Readers, FinishClose(r)
      PROVE  closing.image \subseteq bitmapFile'
  <2>1. closing # None /\ ref[r] \in Stores
    BY <1>1, HeldIsCounted DEF FinishClose, References
  <2> QED
    BY <1>1, <2>1, SyncToDiskWritesAll DEF FinishClose
<1>2. TypeOK /\ References /\ [Next]_vars =>
         \A r \in Readers :
            FinishClose(r) => closing.image \subseteq bitmapFile'
  BY <1>1
<1> QED
  BY <1>2, InitTypeOK, NextTypeOK, InitReferences, NextReferences, PTL
     DEF ClosePersists, Spec

-----------------------------------------------------------------------------
(***************************************************************************)
(* What the cache holds and what the file gives back are the device's      *)
(* bytes.                                                                  *)
(***************************************************************************)
CachedIsDevice ==
    \A s \in Stores : \A b \in DOMAIN cachedBlocks[s] :
        cachedBlocks[s][b] = DeviceBlock(b)

LEMMA ReadIsDevice ==
  ASSUME CompleteTransfers, NEW b \in Blocks, Stored(b)
  PROVE  ReadBytes(b) = DeviceBlock(b)
BY DEF CompleteTransfers, Stored, ReadBytes, DeviceBlock

LEMMA NextCachedIsDevice ==
  ASSUME CompleteTransfers, TypeOK, MarkedIsStored, CachedIsDevice,
         [Next]_vars
  PROVE  CachedIsDevice'
<1>t. cachedBlocks \in [Stores -> Caches]
  BY DEF TypeOK
<1>1. ASSUME NEW r \in Readers, NEW s \in Stores, ShareEvidenceStore(r, s)
      PROVE  CachedIsDevice'
  BY <1>1, <1>t DEF ShareEvidenceStore, CachedIsDevice
<1>2. ASSUME NEW r \in Readers, NEW s \in Stores, CreateEvidenceStore(r, s)
      PROVE  CachedIsDevice'
  BY <1>2, <1>t DEF CreateEvidenceStore, CachedIsDevice, EmptyCache
<1>3. ASSUME NEW r \in Readers, CreateEvidenceStoreFails(r)
      PROVE  CachedIsDevice'
  BY <1>3, <1>t DEF CreateEvidenceStoreFails, CachedIsDevice, memory
<1>4. ASSUME NEW r \in Readers, AbandonEvidenceStore(r)
      PROVE  CachedIsDevice'
  BY <1>4, <1>t DEF AbandonEvidenceStore, CachedIsDevice
<1>5. ASSUME NEW r \in Readers, NEW s \in Stores, NEW b \in Blocks,
             StoreBlock(r, s, b)
      PROVE  CachedIsDevice'
  BY <1>5, <1>t, DeviceBlockType, CachePutType DEF StoreBlock, CachedIsDevice
<1>6. ASSUME NEW r \in Readers, NEW s \in Stores, NEW b \in Blocks,
             StoreBlockFails(r, s, b)
      PROVE  CachedIsDevice'
  BY <1>6, <1>t, DeviceBlockType, CachePutType DEF StoreBlockFails, CachedIsDevice
<1>7. ASSUME NEW r \in Readers, NEW s \in Stores, NEW b \in Blocks,
             RetrieveCachedBlock(r, s, b)
      PROVE  CachedIsDevice'
  BY <1>7, <1>t DEF RetrieveCachedBlock, CachedIsDevice
<1>8. ASSUME NEW r \in Readers, NEW s \in Stores, NEW b \in Blocks,
             RetrieveStoredBlock(r, s, b)
      PROVE  CachedIsDevice'
  <2>1. ReadBytes(b) = DeviceBlock(b)
    BY <1>8, ReadIsDevice DEF RetrieveStoredBlock, MarkedIsStored
  <2> QED
    BY <1>8, <1>t, <2>1, DeviceBlockType, CachePutType
       DEF RetrieveStoredBlock, CachedIsDevice
<1>9. ASSUME NEW r \in Readers, BeginClose(r)
      PROVE  CachedIsDevice'
  BY <1>9, <1>t DEF BeginClose, CachedIsDevice
<1>10. ASSUME NEW r \in Readers, FinishClose(r)
       PROVE  CachedIsDevice'
  BY <1>10, <1>t DEF FinishClose, CachedIsDevice
<1>11. ASSUME NEW r \in Readers, SyncFails(r)
       PROVE  CachedIsDevice'
  BY <1>11, <1>t DEF SyncFails, CachedIsDevice
<1>12. ASSUME NEW r \in Readers, DoCloseFails(r)
       PROVE  CachedIsDevice'
  BY <1>12, <1>t DEF DoCloseFails, CachedIsDevice
<1>13. ASSUME NEW s \in Stores, SetAvailable(s)
       PROVE  CachedIsDevice'
  BY <1>13, <1>t DEF SetAvailable, CachedIsDevice
<1>14. CASE Crash
  BY <1>14, <1>t DEF Crash, CachedIsDevice, EmptyCache
<1>15. CASE UNCHANGED vars
  BY <1>15, <1>t DEF vars, CachedIsDevice, memory
<1> QED
  BY <1>1, <1>2, <1>3, <1>4, <1>5, <1>6, <1>7, <1>8, <1>9, <1>10, <1>11,
     <1>12, <1>13, <1>14, <1>15 DEF Next, ReaderStep, BlockCall

LEMMA ContentInvariant ==
  ASSUME CompleteTransfers
  PROVE  Spec => [](TypeOK /\ References /\ MarkedIsStored /\ CachedIsDevice)
<1>1. Init => MarkedIsStored /\ CachedIsDevice
  BY ObjectAssumption DEF Init, MarkedIsStored, CachedIsDevice, EmptyCache
<1>2. TypeOK /\ References /\ MarkedIsStored /\ CachedIsDevice /\ [Next]_vars
         => MarkedIsStored' /\ CachedIsDevice'
  BY NextMarkedIsStored, NextCachedIsDevice
<1> QED
  BY <1>1, <1>2, InitTypeOK, NextTypeOK, InitReferences, NextReferences, PTL
     DEF Spec

(***************************************************************************)
(* Every available block is served with the device's bytes, whatever the   *)
(* cache evicted, whichever operation failed before and however often the  *)
(* server restarted.                                                       *)
(***************************************************************************)
THEOREM AvailableBlocksAreDevice ==
  ASSUME CompleteTransfers
  PROVE  Spec => []AvailableIsDevice
<1>1. TypeOK /\ References /\ MarkedIsStored /\ CachedIsDevice
         => AvailableIsDevice
  <2> SUFFICES ASSUME TypeOK, References, MarkedIsStored, CachedIsDevice,
                      NEW r \in Readers, ref[r] # None,
                      NEW b \in bitmap[ref[r]]
               PROVE  Retrieved(ref[r], b) = DeviceBlock(b)
    BY DEF AvailableIsDevice
  <2>1. ref[r] \in Stores
    BY HeldIsCounted
  <2>2. b \in Blocks /\ Stored(b)
    BY <2>1 DEF TypeOK, MarkedIsStored
  <2> QED
    BY <2>1, <2>2, ReadIsDevice DEF CachedIsDevice, Retrieved
<1> QED
  BY <1>1, ContentInvariant, PTL

-----------------------------------------------------------------------------
(***************************************************************************)
(* Refinement.  The bitmap file never knows more than the object in use,   *)
(* nor than the image a close writes over it.                              *)
(***************************************************************************)
AcquiredCovers ==
    /\ evidenceStores # None => bitmapFile \subseteq bitmap[evidenceStores]
    /\ closing # None =>
          /\ bitmapFile \subseteq closing.image
          /\ closing.image \subseteq bitmap[ref[closing.reader]]

LEMMA SyncRecords ==
  ASSUME TypeOK, References, AcquiredCovers, closing # None,
         SyncToDisk(ref[closing.reader])
  PROVE  /\ bitmapFile \subseteq bitmapFile'
         /\ bitmapFile' \subseteq bitmap[ref[closing.reader]]
<1> DEFINE s == ref[closing.reader]
<1>1. PICK later \in SUBSET (bitmap[s] \ closing.image) :
          bitmapFile' = WriteBits(closing.image \cup later,
                                  ByteArrayLength(closing.image \cup later))
  BY DEF SyncToDisk, Copies
<1>2. s \in Stores
  BY HeldIsCounted DEF References, TypeOK
<1>3. bitmapFile' \subseteq closing.image \cup later \cup bitmapFile
  BY <1>1 DEF WriteBits
<1>4. closing.image \subseteq bitmapFile'
  BY <1>2, SyncToDiskWritesAll
<1> QED
  BY <1>3, <1>4 DEF AcquiredCovers

LEMMA FailedSyncRecords ==
  ASSUME TypeOK, References, AcquiredCovers, closing # None,
         NEW r, closing.reader = r, SyncFails(r)
  PROVE  /\ bitmapFile \subseteq bitmapFile'
         /\ bitmapFile' \subseteq bitmap[ref[r]]
<1>0. PICK later \in SUBSET (bitmap[ref[r]] \ closing.image) :
          \E n \in 0 .. ByteArrayLength(closing.image \cup later) :
             bitmapFile' = WriteBits(closing.image \cup later, n)
  BY DEF SyncFails, Copies
<1>1. PICK n \in 0 .. ByteArrayLength(closing.image \cup later) :
          bitmapFile' = WriteBits(closing.image \cup later, n)
  BY <1>0
<1>2. bitmapFile \subseteq closing.image /\ bitmapFile \in SUBSET Blocks
  BY DEF AcquiredCovers, TypeOK
<1>3. ASSUME NEW b \in bitmapFile PROVE b \in bitmapFile'
  <2>1. b \in closing.image
    BY <1>2
  <2>2. b \div BitsPerByte \in Int /\ n \in Int
    <3>1. b \in Int
      BY <1>2, GeometryAssumption DEF Blocks, BlockCount
    <3> QED
      BY <3>1, <1>1, GeometryAssumption
  <2> QED
    BY <1>1, <2>1, <2>2 DEF WriteBits
<1>4. bitmapFile' \subseteq closing.image \cup later \cup bitmapFile
  BY <1>1 DEF WriteBits
<1> QED
  BY <1>2, <1>3, <1>4 DEF AcquiredCovers

LEMMA NextAcquiredCovers ==
  ASSUME TypeOK, References, AcquiredCovers, [Next]_vars
  PROVE  AcquiredCovers'
<1>t. bitmap \in [Stores -> SUBSET Blocks] /\ refCount \in [Stores -> Nat]
  BY DEF TypeOK
<1>1. ASSUME NEW r \in Readers, NEW s \in Stores, ShareEvidenceStore(r, s)
      PROVE  AcquiredCovers'
  BY <1>1, <1>t DEF ShareEvidenceStore, AcquiredCovers
<1>2. ASSUME NEW r \in Readers, NEW s \in Stores, CreateEvidenceStore(r, s)
      PROVE  AcquiredCovers'
  BY <1>2, <1>t DEF CreateEvidenceStore, AcquiredCovers
<1>3. ASSUME NEW r \in Readers, CreateEvidenceStoreFails(r)
      PROVE  AcquiredCovers'
  BY <1>3, <1>t DEF CreateEvidenceStoreFails, AcquiredCovers, memory
<1>4. ASSUME NEW r \in Readers, AbandonEvidenceStore(r)
      PROVE  AcquiredCovers'
  BY <1>4, <1>t DEF AbandonEvidenceStore, AcquiredCovers, TypeOK
<1>5. ASSUME NEW r \in Readers, NEW s \in Stores, NEW b \in Blocks,
             StoreBlock(r, s, b)
      PROVE  AcquiredCovers'
  BY <1>5, <1>t DEF StoreBlock, AcquiredCovers
<1>6. ASSUME NEW r \in Readers, NEW s \in Stores, NEW b \in Blocks,
             StoreBlockFails(r, s, b)
      PROVE  AcquiredCovers'
  BY <1>6, <1>t DEF StoreBlockFails, AcquiredCovers
<1>7. ASSUME NEW r \in Readers, NEW s \in Stores, NEW b \in Blocks,
             RetrieveCachedBlock(r, s, b)
      PROVE  AcquiredCovers'
  BY <1>7, <1>t DEF RetrieveCachedBlock, AcquiredCovers
<1>8. ASSUME NEW r \in Readers, NEW s \in Stores, NEW b \in Blocks,
             RetrieveStoredBlock(r, s, b)
      PROVE  AcquiredCovers'
  BY <1>8, <1>t DEF RetrieveStoredBlock, AcquiredCovers
<1>9. ASSUME NEW r \in Readers, BeginClose(r)
      PROVE  AcquiredCovers'
  <2>1. ref[r] \in Stores /\ ref[r] = evidenceStores
    BY <1>9, HeldIsCounted DEF BeginClose, References
  <2> QED
    BY <1>9, <2>1 DEF BeginClose, AcquiredCovers
<1>10. ASSUME NEW r \in Readers, FinishClose(r)
       PROVE  AcquiredCovers'
  <2>1. closing # None /\ ref[r] \in Stores /\ ref[r] = evidenceStores
    BY <1>10, HeldIsCounted DEF FinishClose, References
  <2>2. bitmapFile' \subseteq bitmap[ref[r]]
    BY <1>10, <2>1, SyncRecords DEF FinishClose
  <2> QED
    BY <1>10, <2>1, <2>2 DEF FinishClose, DropReference, LeaveClose, AcquiredCovers
<1>11. ASSUME NEW r \in Readers, SyncFails(r)
       PROVE  AcquiredCovers'
  <2>1. closing # None /\ ref[r] \in Stores /\ ref[r] = evidenceStores
    BY <1>11, HeldIsCounted DEF SyncFails, References
  <2>2. bitmapFile' \subseteq bitmap[ref[r]]
    BY <1>11, <2>1, FailedSyncRecords DEF SyncFails
  <2> QED
    BY <1>11, <2>1, <2>2 DEF SyncFails, LeaveClose, AcquiredCovers
<1>12. ASSUME NEW r \in Readers, DoCloseFails(r)
       PROVE  AcquiredCovers'
  <2>1. closing # None /\ ref[r] \in Stores /\ ref[r] = evidenceStores
    BY <1>12, HeldIsCounted DEF DoCloseFails, References
  <2>2. bitmapFile' \subseteq bitmap[ref[r]]
    BY <1>12, <2>1, SyncRecords DEF DoCloseFails
  <2> QED
    BY <1>12, <2>1, <2>2 DEF DoCloseFails, LeaveClose, AcquiredCovers
<1>13. ASSUME NEW s \in Stores, SetAvailable(s)
       PROVE  AcquiredCovers'
  <2>1. /\ \A t \in Stores : bitmap[t] \subseteq bitmap'[t]
        /\ UNCHANGED <<bitmapFile, evidenceStores, ref, closing>>
    BY <1>13, <1>t DEF SetAvailable
  <2>2. CASE closing = None
    BY <2>1, <2>2 DEF AcquiredCovers, TypeOK
  <2>3. CASE closing # None
    <3>1. ref[closing.reader] \in Stores
      BY <2>3, HeldIsCounted DEF References, TypeOK
    <3> QED
      BY <2>1, <2>3, <3>1 DEF AcquiredCovers, TypeOK
  <2> QED
    BY <2>2, <2>3
<1>14. CASE Crash
  BY <1>14, <1>t DEF Crash, AcquiredCovers
<1>15. CASE UNCHANGED vars
  BY <1>15, <1>t DEF vars, AcquiredCovers, memory
<1> QED
  BY <1>1, <1>2, <1>3, <1>4, <1>5, <1>6, <1>7, <1>8, <1>9, <1>10, <1>11,
     <1>12, <1>13, <1>14, <1>15 DEF Next, ReaderStep, BlockCall

\* The four kinds of step of the promise the store's steps map to.
LEMMA StutterStep ==
  ASSUME UNCHANGED <<evidenceFile, bitmapFile>>, Acquired' = Acquired
  PROVE  UNCHANGED Promise!vars
BY DEF Promise!vars, Written

LEMMA WriteStep ==
  ASSUME BytesKept, bitmapFile' = bitmapFile, Acquired' = Acquired
  PROVE  Promise!Next
BY DEF BytesKept, Written, Promise!Next, Promise!Write

LEMMA RecordStep ==
  ASSUME evidenceFile' = evidenceFile, Acquired' = Acquired,
         bitmapFile \subseteq bitmapFile', bitmapFile' \subseteq Acquired
  PROVE  Promise!Next
<1>1. bitmapFile' = bitmapFile \cup bitmapFile' /\ bitmapFile' \in SUBSET Acquired
  OBVIOUS
<1>2. {b \in Blocks : Written(b)}' = {b \in Blocks : Written(b)}
  BY DEF Written
<1> QED
  BY <1>1, <1>2 DEF Promise!Next, Promise!Record

LEMMA LeaveStep ==
  ASSUME evidenceFile' = evidenceFile, Acquired' = bitmapFile',
         bitmapFile \subseteq bitmapFile', bitmapFile' \subseteq Acquired
  PROVE  Promise!Next
<1>1. bitmapFile' = bitmapFile \cup bitmapFile' /\ bitmapFile' \in SUBSET Acquired
  OBVIOUS
<1>2. {b \in Blocks : Written(b)}' = {b \in Blocks : Written(b)}
  BY DEF Written
<1> QED
  BY <1>1, <1>2 DEF Promise!Next, Promise!Leave

LEMMA NextPromise ==
  ASSUME CompleteTransfers, TypeOK, References, MarkedIsStored,
         AcquiredCovers, [Next]_vars
  PROVE  [Promise!Next]_(Promise!vars)
<1>t. bitmap \in [Stores -> SUBSET Blocks] /\ refCount \in [Stores -> Nat]
  BY DEF TypeOK
<1>w. BytesKept
  BY NextBytesKept
<1>1. ASSUME NEW r \in Readers, NEW s \in Stores, ShareEvidenceStore(r, s)
      PROVE  [Promise!Next]_(Promise!vars)
  BY <1>1, StutterStep DEF ShareEvidenceStore, Acquired
<1>2. ASSUME NEW r \in Readers, NEW s \in Stores, CreateEvidenceStore(r, s)
      PROVE  [Promise!Next]_(Promise!vars)
  <2>1. Acquired' = Acquired /\ bitmapFile' = bitmapFile
    BY <1>2, ObjectAssumption DEF CreateEvidenceStore, Acquired, TypeOK
  <2> QED
    BY <2>1, <1>w, WriteStep
<1>3. ASSUME NEW r \in Readers, CreateEvidenceStoreFails(r)
      PROVE  [Promise!Next]_(Promise!vars)
  BY <1>3, <1>w, WriteStep DEF CreateEvidenceStoreFails, Acquired, memory
<1>4. ASSUME NEW r \in Readers, AbandonEvidenceStore(r)
      PROVE  [Promise!Next]_(Promise!vars)
  BY <1>4, StutterStep DEF AbandonEvidenceStore, Acquired
<1>5. ASSUME NEW r \in Readers, NEW s \in Stores, NEW b \in Blocks,
             StoreBlock(r, s, b)
      PROVE  [Promise!Next]_(Promise!vars)
  BY <1>5, <1>w, WriteStep DEF StoreBlock, Acquired
<1>6. ASSUME NEW r \in Readers, NEW s \in Stores, NEW b \in Blocks,
             StoreBlockFails(r, s, b)
      PROVE  [Promise!Next]_(Promise!vars)
  BY <1>6, <1>w, WriteStep DEF StoreBlockFails, Acquired
<1>7. ASSUME NEW r \in Readers, NEW s \in Stores, NEW b \in Blocks,
             RetrieveCachedBlock(r, s, b)
      PROVE  [Promise!Next]_(Promise!vars)
  BY <1>7, StutterStep DEF RetrieveCachedBlock, Acquired
<1>8. ASSUME NEW r \in Readers, NEW s \in Stores, NEW b \in Blocks,
             RetrieveStoredBlock(r, s, b)
      PROVE  [Promise!Next]_(Promise!vars)
  BY <1>8, StutterStep DEF RetrieveStoredBlock, Acquired
<1>9. ASSUME NEW r \in Readers, BeginClose(r)
      PROVE  [Promise!Next]_(Promise!vars)
  BY <1>9, StutterStep DEF BeginClose, Acquired
<1>10. ASSUME NEW r \in Readers, FinishClose(r)
       PROVE  [Promise!Next]_(Promise!vars)
  <2>1. /\ closing # None /\ closing.reader = r
        /\ ref[r] \in Stores /\ ref[r] = evidenceStores /\ ref[r] # None
    BY <1>10, HeldIsCounted DEF FinishClose, References
  <2>2. bitmapFile \subseteq bitmapFile' /\ bitmapFile' \subseteq bitmap[ref[r]]
    BY <1>10, <2>1, SyncRecords DEF FinishClose
  <2>3. Acquired = bitmap[ref[r]]
    BY <2>1 DEF Acquired
  <2>4. CASE refCount'[ref[r]] = 0
    <3>1. Acquired' = bitmapFile'
      BY <1>10, <2>4 DEF FinishClose, DropReference, Acquired
    <3> QED
      BY <1>10, <2>2, <2>3, <3>1, LeaveStep DEF FinishClose
  <2>5. CASE refCount'[ref[r]] # 0
    <3>1. UNCHANGED <<evidenceStores, bitmap>>
      BY <1>10, <2>5 DEF FinishClose, DropReference
    <3>2. Acquired' = Acquired
      BY <2>1, <3>1 DEF Acquired
    <3> QED
      BY <1>10, <2>2, <2>3, <3>2, RecordStep DEF FinishClose
  <2> QED
    BY <2>4, <2>5
<1>11. ASSUME NEW r \in Readers, SyncFails(r)
       PROVE  [Promise!Next]_(Promise!vars)
  <2>1. /\ closing # None /\ closing.reader = r
        /\ ref[r] \in Stores /\ ref[r] = evidenceStores /\ ref[r] # None
    BY <1>11, HeldIsCounted DEF SyncFails, References
  <2>2. bitmapFile \subseteq bitmapFile' /\ bitmapFile' \subseteq bitmap[ref[r]]
    BY <1>11, <2>1, FailedSyncRecords DEF SyncFails
  <2>3. Acquired' = Acquired
    BY <1>11, <2>1 DEF SyncFails, Acquired
  <2> QED
    BY <1>11, <2>1, <2>2, <2>3, RecordStep DEF SyncFails, Acquired
<1>12. ASSUME NEW r \in Readers, DoCloseFails(r)
       PROVE  [Promise!Next]_(Promise!vars)
  <2>1. /\ closing # None /\ closing.reader = r
        /\ ref[r] \in Stores /\ ref[r] = evidenceStores /\ ref[r] # None
    BY <1>12, HeldIsCounted DEF DoCloseFails, References
  <2>2. bitmapFile \subseteq bitmapFile' /\ bitmapFile' \subseteq bitmap[ref[r]]
    BY <1>12, <2>1, SyncRecords DEF DoCloseFails
  <2>3. Acquired' = Acquired
    BY <1>12, <2>1 DEF DoCloseFails, Acquired
  <2> QED
    BY <1>12, <2>1, <2>2, <2>3, RecordStep DEF DoCloseFails, Acquired
<1>13. ASSUME NEW s \in Stores, SetAvailable(s)
       PROVE  [Promise!Next]_(Promise!vars)
  <2>1. PICK b : b = storing[s]
    OBVIOUS
  <2>2. b \in Blocks /\ Written(b)
    BY <1>13, <2>1 DEF SetAvailable, TypeOK, MarkedIsStored, Stored, Written,
                       CompleteTransfers
  <2>3. UNCHANGED <<evidenceFile, bitmapFile, evidenceStores>>
    BY <1>13 DEF SetAvailable
  <2>4. CASE s = evidenceStores
    <3>1. Acquired' = Acquired \cup {b}
      BY <1>13, <1>t, <2>1, <2>3, <2>4, ObjectAssumption
         DEF SetAvailable, Acquired
    <3>2. Promise!Acquire
      BY <2>2, <2>3, <3>1 DEF Promise!Acquire, Written
    <3> QED
      BY <3>2 DEF Promise!Next
  <2>5. CASE s # evidenceStores
    <3>1. Acquired' = Acquired
      BY <1>13, <1>t, <2>3, <2>5 DEF SetAvailable, Acquired, TypeOK
    <3> QED
      BY <2>3, <3>1, StutterStep
  <2> QED
    BY <2>4, <2>5
<1>14. CASE Crash
  <2>1. Acquired' = bitmapFile
    BY <1>14 DEF Crash, Acquired
  <2>2. bitmapFile \subseteq Acquired
    BY DEF AcquiredCovers, Acquired
  <2> QED
    BY <1>14, <2>1, <2>2, LeaveStep DEF Crash
<1>15. CASE UNCHANGED vars
  BY <1>15, StutterStep DEF vars, Acquired, memory
<1> QED
  BY <1>1, <1>2, <1>3, <1>4, <1>5, <1>6, <1>7, <1>8, <1>9, <1>10, <1>11,
     <1>12, <1>13, <1>14, <1>15 DEF Next, ReaderStep, BlockCall

(***************************************************************************)
(* The evidence store implements the acquisition it promises: nothing is   *)
(* marked before its bytes are there, and the last close or a crash loses  *)
(* only what was not yet recorded.                                         *)
(***************************************************************************)
THEOREM StoreImplementsAcquisition ==
  ASSUME CompleteTransfers
  PROVE  Spec => ImplementsAcquisition
<1>1. Init => Promise!Init /\ AcquiredCovers
  BY ObjectAssumption
     DEF Init, Promise!Init, AcquiredCovers, Acquired
<1>2. TypeOK /\ References /\ AcquiredCovers /\ [Next]_vars => AcquiredCovers'
  BY NextAcquiredCovers
<1>3. TypeOK /\ References /\ MarkedIsStored /\ AcquiredCovers /\ [Next]_vars
         => [Promise!Next]_(Promise!vars)
  BY NextPromise
<1> QED
  BY <1>1, <1>2, <1>3, ContentInvariant, PTL
     DEF Spec, ImplementsAcquisition, Promise!Spec

=============================================================================
