------------------------ MODULE EvidenceStoreProofs ------------------------
(***************************************************************************)
(* Theorems about EvidenceStore, for every number of readers and objects,  *)
(* every image, block and cache size, and every choice of failing file     *)
(* operations.                                                             *)
(***************************************************************************)
EXTENDS EvidenceStore, TLAPS, FiniteSetTheorems

(***************************************************************************)
(* Content of blocks.                                                      *)
(***************************************************************************)

LEMMA DeviceBlockType ==
  ASSUME NEW b \in Blocks
  PROVE  DeviceBlock(b) \in BlockData
<1>1. SUFFICES ASSUME NEW i \in Offsets, b * BlockSize + i < ImageLength
               PROVE  b * BlockSize + i \in 0 .. ImageLength - 1
  BY <1>1, ContentAssumption DEF DeviceBlock, BlockData
<1>2. b \in Nat /\ BlockSize \in Nat /\ i \in Nat /\ ImageLength \in Nat
  BY GeometryAssumption DEF Blocks, Offsets, BlockCount
<1>3. b * BlockSize \in Nat
  BY <1>2
<1> QED
  BY <1>1, <1>2, <1>3

LEMMA CachePutType ==
  ASSUME NEW s \in Stores, NEW b \in Blocks, NEW data \in BlockData,
         cachedBlocks \in [Stores -> Caches], CachePut(s, b, data)
  PROVE  /\ cachedBlocks' \in [Stores -> Caches]
         /\ DOMAIN cachedBlocks'[s] \subseteq DOMAIN cachedBlocks[s] \cup {b}
         /\ \A x \in DOMAIN cachedBlocks'[s] :
               cachedBlocks'[s][x] = IF x = b THEN data ELSE cachedBlocks[s][x]
         /\ \A t \in Stores \ {s} : cachedBlocks'[t] = cachedBlocks[t]
<1> DEFINE old == cachedBlocks[s]
           dom == (DOMAIN old \ Victims(s)) \cup {b}
           new == [x \in dom |-> IF x = b THEN data ELSE old[x]]
<1>1. cachedBlocks' = [cachedBlocks EXCEPT ![s] = new]
  BY DEF CachePut
<1>2. PICK D \in SUBSET Blocks : old \in [D -> BlockData]
  BY DEF Caches
<1>3. dom \in SUBSET Blocks
  BY <1>2
<1>4. new \in [dom -> BlockData]
  BY <1>2
<1>5. new \in Caches
  BY <1>3, <1>4 DEF Caches
<1> QED
  BY <1>1, <1>4, <1>5

LEMMA ExtendedType ==
  ASSUME NEW file \in [Blocks -> [Offsets -> Bytes \cup {Absent}]]
  PROVE  Extended(file) \in [Blocks -> [Offsets -> Bytes \cup {Absent}]]
BY ContentAssumption DEF Extended

LEMMA WriteBytesType ==
  ASSUME NEW file \in [Blocks -> [Offsets -> Bytes \cup {Absent}]],
         NEW b \in Blocks, NEW data \in BlockData, NEW n
  PROVE  WriteBytes(file, b, data, n)
            \in [Blocks -> [Offsets -> Bytes \cup {Absent}]]
BY DEF WriteBytes, BlockData

LEMMA ReadBytesType ==
  ASSUME NEW b \in Blocks, TypeOK,
         \A i \in Offsets :
             i < TransferLength(b) => evidenceFile[b][i] # Absent
  PROVE  ReadBytes(b) \in BlockData
BY ContentAssumption DEF ReadBytes, BlockData, TypeOK

LEMMA EmptyCacheType == EmptyCache \in Caches
<1>1. EmptyCache \in [{} -> BlockData]
  BY DEF EmptyCache
<1> QED
  BY <1>1 DEF Caches

-----------------------------------------------------------------------------
(***************************************************************************)
(* Types.                                                                  *)
(***************************************************************************)

LEMMA InitTypeOK == Init => TypeOK
BY EmptyCacheType DEF Init, TypeOK

LEMMA WriteBitsType ==
  ASSUME NEW image \in SUBSET Blocks, NEW n, bitmapFile \in SUBSET Blocks
  PROVE  WriteBits(image, n) \in SUBSET Blocks
BY DEF WriteBits

LEMMA SyncToDiskType ==
  ASSUME TypeOK, NEW s \in Stores, closing # None, SyncToDisk(s)
  PROVE  bitmapFile' \in SUBSET Blocks
<1>1. PICK later \in SUBSET (bitmap[s] \ closing.image) :
          bitmapFile' = WriteBits(closing.image \cup later,
                                  ByteArrayLength(closing.image \cup later))
  BY DEF SyncToDisk, Copies
<1>2. closing.image \cup later \in SUBSET Blocks
  BY DEF TypeOK
<1> QED
  BY <1>1, <1>2, WriteBitsType DEF TypeOK

LEMMA FailedSyncType ==
  ASSUME TypeOK, NEW r \in Readers, ref[r] \in Stores, SyncFails(r)
  PROVE  bitmapFile' \in SUBSET Blocks
<1>0. PICK later \in SUBSET (bitmap[ref[r]] \ closing.image) :
          \E n \in 0 .. ByteArrayLength(closing.image \cup later) :
             bitmapFile' = WriteBits(closing.image \cup later, n)
  BY DEF SyncFails, Copies
<1>1. PICK n \in 0 .. ByteArrayLength(closing.image \cup later) :
          bitmapFile' = WriteBits(closing.image \cup later, n)
  BY <1>0
<1>2. closing.image \cup later \in SUBSET Blocks
  BY DEF TypeOK, SyncFails
<1> QED
  BY <1>1, <1>2, WriteBitsType DEF TypeOK

(***************************************************************************)
(* References.  The count covers the holders, whatever references were     *)
(* abandoned; the object held is the one in the map; and the close inside  *)
(* the factory's monitor belongs to a holder.                              *)
(***************************************************************************)
Users(s) == {r \in Readers : ref[r] = s}

References ==
    /\ \A r \in Readers : ref[r] # None => ref[r] = evidenceStores
    /\ \A s \in Stores : Cardinality(Users(s)) <= refCount[s]
    /\ closing # None => ref[closing.reader] # None

LEMMA UsersFinite ==
  ASSUME NEW s
  PROVE  IsFiniteSet(Users(s)) /\ Cardinality(Users(s)) \in Nat
<1>1. Users(s) \in SUBSET Readers
  BY DEF Users
<1> QED
  BY <1>1, FS_Subset, FS_CardinalityType, ObjectAssumption

LEMMA HeldIsCounted ==
  ASSUME TypeOK, References, NEW r \in Readers, ref[r] # None
  PROVE  ref[r] \in Stores /\ refCount[ref[r]] \in Nat \ {0}
<1>1. ref[r] \in Stores /\ r \in Users(ref[r]) /\ refCount[ref[r]] \in Nat
  BY DEF TypeOK, Users
<1>2. Cardinality(Users(ref[r])) # 0
  BY <1>1, UsersFinite, FS_EmptySet
<1>3. Cardinality(Users(ref[r])) <= refCount[ref[r]]
  BY <1>1 DEF References
<1> QED
  BY <1>1, <1>2, <1>3, UsersFinite

LEMMA NextTypeOK == TypeOK /\ References /\ [Next]_vars => TypeOK'
<1> SUFFICES ASSUME TypeOK, References, [Next]_vars PROVE TypeOK'
  OBVIOUS
<1> USE DEF TypeOK
<1>1. ASSUME NEW r \in Readers, NEW s \in Stores, ShareEvidenceStore(r, s)
      PROVE  TypeOK'
  BY <1>1 DEF ShareEvidenceStore
<1>2. ASSUME NEW r \in Readers, NEW s \in Stores, CreateEvidenceStore(r, s)
      PROVE  TypeOK'
  BY <1>2, ExtendedType, EmptyCacheType DEF CreateEvidenceStore
<1>3. ASSUME NEW r \in Readers, CreateEvidenceStoreFails(r)
      PROVE  TypeOK'
  BY <1>3, ExtendedType DEF CreateEvidenceStoreFails, memory
<1>4. ASSUME NEW r \in Readers, AbandonEvidenceStore(r)
      PROVE  TypeOK'
  BY <1>4 DEF AbandonEvidenceStore
<1>5. ASSUME NEW r \in Readers, NEW s \in Stores, NEW b \in Blocks,
             StoreBlock(r, s, b)
      PROVE  TypeOK'
  BY <1>5, DeviceBlockType, CachePutType, WriteBytesType
     DEF StoreBlock
<1>6. ASSUME NEW r \in Readers, NEW s \in Stores, NEW b \in Blocks,
             StoreBlockFails(r, s, b)
      PROVE  TypeOK'
  BY <1>6, DeviceBlockType, CachePutType, WriteBytesType
     DEF StoreBlockFails
<1>7. ASSUME NEW r \in Readers, NEW s \in Stores, NEW b \in Blocks,
             RetrieveCachedBlock(r, s, b)
      PROVE  TypeOK'
  BY <1>7 DEF RetrieveCachedBlock
<1>8. ASSUME NEW r \in Readers, NEW s \in Stores, NEW b \in Blocks,
             RetrieveStoredBlock(r, s, b)
      PROVE  TypeOK'
  BY <1>8, ReadBytesType, CachePutType DEF RetrieveStoredBlock
<1>9. ASSUME NEW r \in Readers, BeginClose(r)
      PROVE  TypeOK'
  BY <1>9 DEF BeginClose
<1>10. ASSUME NEW r \in Readers, FinishClose(r)
       PROVE  TypeOK'
  <2>1. closing # None /\ ref[r] # None
    BY <1>10 DEF FinishClose, References
  <2>2. ref[r] \in Stores /\ refCount[ref[r]] \in Nat \ {0}
    BY <2>1, HeldIsCounted
  <2>3. bitmapFile' \in SUBSET Blocks
    BY <1>10, <2>1, <2>2, SyncToDiskType DEF FinishClose
  <2> QED
    <3>1. refCount' \in [Stores -> Nat]
      <4>1. refCount' = [refCount EXCEPT ![ref[r]] = @ - 1]
        BY <1>10 DEF FinishClose, DropReference
      <4>2. refCount[ref[r]] - 1 \in Nat
        BY <2>2
      <4> QED
        BY <4>1, <4>2
    <3>2. filesOpen' \in [Stores -> SUBSET Files] /\ evidenceStores' \in Stores \cup {None}
      BY <1>10, <2>2 DEF FinishClose, DropReference
    <3>3. ref' \in [Readers -> Stores \cup {None}] /\ closing' = None
      BY <1>10 DEF FinishClose, LeaveClose
    <3> QED
      BY <1>10, <2>3, <3>1, <3>2, <3>3 DEF FinishClose
<1>11. ASSUME NEW r \in Readers, SyncFails(r)
       PROVE  TypeOK'
  <2>1. ref[r] \in Stores
    BY <1>11, HeldIsCounted DEF SyncFails, References
  <2>2. bitmapFile' \in SUBSET Blocks
    BY <1>11, <2>1, FailedSyncType
  <2> QED
    BY <1>11, <2>2 DEF SyncFails, LeaveClose
<1>12. ASSUME NEW r \in Readers, DoCloseFails(r)
       PROVE  TypeOK'
  <2>1. ref[r] \in Stores
    BY <1>12, HeldIsCounted DEF DoCloseFails, References
  <2> QED
    BY <1>12, <2>1, SyncToDiskType DEF DoCloseFails, LeaveClose
<1>13. ASSUME NEW s \in Stores, SetAvailable(s)
       PROVE  TypeOK'
  BY <1>13 DEF SetAvailable
<1>14. CASE Crash
  BY <1>14, EmptyCacheType DEF Crash
<1>15. CASE UNCHANGED vars
  BY <1>15 DEF vars, memory
<1> QED
  BY <1>1, <1>2, <1>3, <1>4, <1>5, <1>6, <1>7, <1>8, <1>9, <1>10, <1>11,
     <1>12, <1>13, <1>14, <1>15 DEF Next, ReaderStep, BlockCall

LEMMA InitReferences == Init => References
<1> SUFFICES ASSUME Init PROVE References
  OBVIOUS
<1>1. ASSUME NEW s \in Stores PROVE Cardinality(Users(s)) = 0
  <2>1. Users(s) = {}
    BY ObjectAssumption DEF Init, Users
  <2> QED
    BY <2>1, FS_EmptySet
<1> QED
  BY <1>1 DEF Init, References

\* What a step that gives reader q the object s does to the sets of users.
LEMMA UsersAfterShare ==
  ASSUME NEW q \in Readers, NEW t \in Stores, ref[q] = None, TypeOK,
         ref' = [ref EXCEPT ![q] = t], NEW s \in Stores
  PROVE  Cardinality(Users(s)') =
            IF s = t THEN Cardinality(Users(s)) + 1 ELSE Cardinality(Users(s))
<1>1. Users(s)' = IF s = t THEN Users(s) \cup {q} ELSE Users(s)
  BY ObjectAssumption DEF Users, TypeOK
<1>2. q \notin Users(t)
  BY ObjectAssumption DEF Users
<1> QED
  BY <1>1, <1>2, UsersFinite, FS_AddElement

\* What a step that takes the object from reader q does to them.
LEMMA UsersAfterLeave ==
  ASSUME NEW q \in Readers, ref[q] # None, TypeOK,
         ref' = [ref EXCEPT ![q] = None], NEW s \in Stores
  PROVE  Cardinality(Users(s)') =
            IF s = ref[q] THEN Cardinality(Users(s)) - 1
                          ELSE Cardinality(Users(s))
<1>1. Users(s)' = IF s = ref[q] THEN Users(s) \ {q} ELSE Users(s)
  BY ObjectAssumption DEF Users, TypeOK
<1>2. s = ref[q] => q \in Users(s)
  BY DEF Users
<1> QED
  BY <1>1, <1>2, UsersFinite, FS_RemoveElement

LEMMA CountsType ==
  ASSUME TypeOK, References, NEW s \in Stores
  PROVE  /\ Cardinality(Users(s)) \in Nat
         /\ refCount[s] \in Nat
         /\ Cardinality(Users(s)) <= refCount[s]
BY UsersFinite DEF TypeOK, References

LEMMA NextReferences == TypeOK /\ References /\ [Next]_vars => References'
<1> SUFFICES ASSUME TypeOK, References, [Next]_vars PROVE References'
  OBVIOUS
<1>1. ASSUME NEW r \in Readers, NEW s \in Stores, ShareEvidenceStore(r, s)
      PROVE  References'
  <2>1. \A t \in Stores : Cardinality(Users(t)') <= refCount'[t]
    <3> SUFFICES ASSUME NEW t \in Stores
                 PROVE  Cardinality(Users(t)') <= refCount'[t]
      OBVIOUS
    <3>1. Cardinality(Users(t)') =
             IF t = s THEN Cardinality(Users(t)) + 1
                      ELSE Cardinality(Users(t))
      BY <1>1, UsersAfterShare DEF ShareEvidenceStore
    <3>2. refCount'[t] = IF t = s THEN refCount[t] + 1 ELSE refCount[t]
      BY <1>1 DEF ShareEvidenceStore, TypeOK
    <3> QED
      BY <3>1, <3>2, CountsType
  <2> QED
    BY <1>1, <2>1, ObjectAssumption
       DEF ShareEvidenceStore, References, TypeOK
<1>2. ASSUME NEW r \in Readers, NEW s \in Stores, CreateEvidenceStore(r, s)
      PROVE  References'
  <2>1. \A q \in Readers : ref[q] = None
    BY <1>2 DEF CreateEvidenceStore, References
  <2>2. \A t \in Stores : Cardinality(Users(t)) = 0
    <3> SUFFICES ASSUME NEW t \in Stores PROVE Users(t) = {}
      BY FS_EmptySet
    <3> QED
      BY <2>1, ObjectAssumption DEF Users
  <2>3. \A t \in Stores : Cardinality(Users(t)') <= refCount'[t]
    <3> SUFFICES ASSUME NEW t \in Stores
                 PROVE  Cardinality(Users(t)') <= refCount'[t]
      OBVIOUS
    <3>1. Cardinality(Users(t)') =
             IF t = s THEN Cardinality(Users(t)) + 1
                      ELSE Cardinality(Users(t))
      BY <1>2, UsersAfterShare DEF CreateEvidenceStore
    <3>2. refCount'[t] = IF t = s THEN 1 ELSE refCount[t]
      BY <1>2 DEF CreateEvidenceStore, TypeOK
    <3> QED
      BY <2>2, <3>1, <3>2, CountsType
  <2> QED
    BY <1>2, <2>1, <2>3, ObjectAssumption
       DEF CreateEvidenceStore, References, TypeOK
<1>3. ASSUME NEW r \in Readers, CreateEvidenceStoreFails(r)
      PROVE  References'
  BY <1>3 DEF CreateEvidenceStoreFails, memory, References, Users
<1>4. ASSUME NEW r \in Readers, AbandonEvidenceStore(r)
      PROVE  References'
  <2>1. \A t \in Stores : Cardinality(Users(t)') <= refCount'[t]
    <3> SUFFICES ASSUME NEW t \in Stores
                 PROVE  Cardinality(Users(t)') <= refCount'[t]
      OBVIOUS
    <3>1. Cardinality(Users(t)') =
             IF t = ref[r] THEN Cardinality(Users(t)) - 1
                           ELSE Cardinality(Users(t))
      BY <1>4, UsersAfterLeave DEF AbandonEvidenceStore
    <3>2. refCount'[t] = refCount[t]
      BY <1>4 DEF AbandonEvidenceStore, TypeOK
    <3> QED
      BY <3>1, <3>2, CountsType
  <2> QED
    BY <1>4, <2>1 DEF AbandonEvidenceStore, References, TypeOK
<1>5. ASSUME NEW r \in Readers, NEW s \in Stores, NEW b \in Blocks,
             StoreBlock(r, s, b)
      PROVE  References'
  BY <1>5 DEF StoreBlock, References, Users, TypeOK
<1>6. ASSUME NEW r \in Readers, NEW s \in Stores, NEW b \in Blocks,
             StoreBlockFails(r, s, b)
      PROVE  References'
  BY <1>6 DEF StoreBlockFails, References, Users
<1>7. ASSUME NEW r \in Readers, NEW s \in Stores, NEW b \in Blocks,
             RetrieveCachedBlock(r, s, b)
      PROVE  References'
  BY <1>7 DEF RetrieveCachedBlock, References, Users
<1>8. ASSUME NEW r \in Readers, NEW s \in Stores, NEW b \in Blocks,
             RetrieveStoredBlock(r, s, b)
      PROVE  References'
  BY <1>8 DEF RetrieveStoredBlock, References, Users
<1>9. ASSUME NEW r \in Readers, BeginClose(r)
      PROVE  References'
  BY <1>9 DEF BeginClose, References, Users, TypeOK
<1>10. ASSUME NEW r \in Readers, FinishClose(r)
       PROVE  References'
  <2>1. ref[r] # None /\ ref[r] \in Stores /\ ref[r] = evidenceStores
    BY <1>10, HeldIsCounted DEF FinishClose, References
  <2>2. \A t \in Stores : Cardinality(Users(t)') <= refCount'[t]
    <3> SUFFICES ASSUME NEW t \in Stores
                 PROVE  Cardinality(Users(t)') <= refCount'[t]
      OBVIOUS
    <3>1. Cardinality(Users(t)') =
             IF t = ref[r] THEN Cardinality(Users(t)) - 1
                           ELSE Cardinality(Users(t))
      BY <1>10, <2>1, UsersAfterLeave DEF FinishClose, LeaveClose, DropReference
    <3>2. refCount'[t] = IF t = ref[r] THEN refCount[t] - 1 ELSE refCount[t]
      BY <1>10, <2>1 DEF FinishClose, LeaveClose, DropReference, TypeOK
    <3> QED
      BY <3>1, <3>2, CountsType
  <2>3. ASSUME refCount'[ref[r]] = 0, NEW q \in Readers
        PROVE  ref'[q] = None
    <3> DEFINE left == {p \in Readers : ref'[p] = ref[r]}
    <3>1. Cardinality(left) = Cardinality(Users(ref[r])) - 1
      <4>1. left = Users(ref[r]) \ {r} /\ r \in Users(ref[r])
        BY <1>10, <2>1, ObjectAssumption
           DEF FinishClose, LeaveClose, Users, TypeOK
      <4> QED
        BY <4>1, UsersFinite, FS_RemoveElement
    <3>2. refCount'[ref[r]] = refCount[ref[r]] - 1
      BY <1>10, <2>1 DEF FinishClose, DropReference, TypeOK
    <3>3. IsFiniteSet(left) /\ Cardinality(left) \in Nat
      BY ObjectAssumption, FS_Subset, FS_CardinalityType
    <3>4. left = {}
      <4>1. Cardinality(Users(ref[r])) <= refCount[ref[r]] /\ refCount[ref[r]] = 1
        BY <2>1, <2>3, <3>2, CountsType
      <4>2. Cardinality(left) = 0
        BY <2>1, <3>1, <3>3, <4>1, CountsType
      <4> QED
        BY <3>3, <4>2, FS_EmptySet
    <3> QED
      BY <1>10, <2>1, <3>4 DEF FinishClose, LeaveClose, References, TypeOK
  <2>4. \A q \in Readers : ref'[q] # None => ref'[q] = evidenceStores'
    BY <1>10, <2>1, <2>3 DEF FinishClose, DropReference, LeaveClose,
                             References, TypeOK
  <2> QED
    BY <1>10, <2>2, <2>4 DEF FinishClose, LeaveClose, References, TypeOK
<1>11. ASSUME NEW r \in Readers, SyncFails(r)
       PROVE  References'
  <2>1. ref[r] # None
    BY <1>11 DEF SyncFails, References
  <2>2. \A t \in Stores : Cardinality(Users(t)') <= refCount'[t]
    <3> SUFFICES ASSUME NEW t \in Stores
                 PROVE  Cardinality(Users(t)') <= refCount'[t]
      OBVIOUS
    <3>1. Cardinality(Users(t)') =
             IF t = ref[r] THEN Cardinality(Users(t)) - 1
                           ELSE Cardinality(Users(t))
      BY <1>11, <2>1, UsersAfterLeave DEF SyncFails, LeaveClose
    <3>2. refCount'[t] = refCount[t]
      BY <1>11, <2>1 DEF SyncFails, LeaveClose, TypeOK
    <3> QED
      BY <3>1, <3>2, CountsType
  <2> QED
    BY <1>11, <2>1, <2>2 DEF SyncFails, LeaveClose, References, TypeOK
<1>12. ASSUME NEW r \in Readers, DoCloseFails(r)
       PROVE  References'
  <2>1. ref[r] # None /\ ref[r] \in Stores
    BY <1>12, HeldIsCounted DEF DoCloseFails, References
  <2>2. \A t \in Stores : Cardinality(Users(t)') <= refCount'[t]
    <3> SUFFICES ASSUME NEW t \in Stores
                 PROVE  Cardinality(Users(t)') <= refCount'[t]
      OBVIOUS
    <3>1. Cardinality(Users(t)') =
             IF t = ref[r] THEN Cardinality(Users(t)) - 1
                           ELSE Cardinality(Users(t))
      BY <1>12, <2>1, UsersAfterLeave DEF DoCloseFails, LeaveClose
    <3>2. refCount'[t] = IF t = ref[r] THEN 0 ELSE refCount[t]
      BY <1>12, <2>1 DEF DoCloseFails, LeaveClose, TypeOK
    <3> QED
      BY <3>1, <3>2, CountsType, <2>1, <1>12 DEF DoCloseFails
  <2> QED
    BY <1>12, <2>1, <2>2 DEF DoCloseFails, LeaveClose, References, TypeOK
<1>13. ASSUME NEW s \in Stores, SetAvailable(s)
       PROVE  References'
  BY <1>13 DEF SetAvailable, References, Users, TypeOK
<1>14. CASE Crash
  <2>1. \A t \in Stores : Users(t)' = {}
    BY <1>14, ObjectAssumption DEF Crash, Users
  <2>2. \A t \in Stores : Cardinality(Users(t)') <= refCount'[t]
    <3> SUFFICES ASSUME NEW t \in Stores
                 PROVE  Cardinality(Users(t)') <= refCount'[t]
      OBVIOUS
    <3>1. Cardinality(Users(t)') = 0
      BY <2>1, FS_EmptySet
    <3>2. refCount'[t] = 0
      BY <1>14 DEF Crash
    <3> QED
      BY <3>1, <3>2
  <2> QED
    BY <1>14, <2>2 DEF Crash, References
<1>15. CASE UNCHANGED vars
  BY <1>15 DEF vars, memory, References, Users
<1> QED
  BY <1>1, <1>2, <1>3, <1>4, <1>5, <1>6, <1>7, <1>8, <1>9, <1>10, <1>11,
     <1>12, <1>13, <1>14, <1>15 DEF Next, ReaderStep, BlockCall

(***************************************************************************)
(* Every variable of the store and its factory keeps its type.             *)
(***************************************************************************)
THEOREM TypeCorrect == Spec => []TypeOK
BY InitTypeOK, NextTypeOK, InitReferences, NextReferences, PTL DEF Spec

-----------------------------------------------------------------------------
(***************************************************************************)
(* The object in the map has its files open.  This needs doclose to        *)
(* succeed: an object whose files could not be closed stays in the map.    *)
(***************************************************************************)
NoCloseFault == "close" \notin Faults

MappedIsOpen == evidenceStores # None => filesOpen[evidenceStores] = Files

LEMMA NextMappedIsOpen ==
  ASSUME NoCloseFault, TypeOK, References, MappedIsOpen, [Next]_vars
  PROVE  MappedIsOpen'
<1>1. ASSUME NEW r \in Readers, NEW s \in Stores, ShareEvidenceStore(r, s)
      PROVE  MappedIsOpen'
  BY <1>1 DEF ShareEvidenceStore, MappedIsOpen, TypeOK
<1>2. ASSUME NEW r \in Readers, NEW s \in Stores, CreateEvidenceStore(r, s)
      PROVE  MappedIsOpen'
  BY <1>2 DEF CreateEvidenceStore, MappedIsOpen, TypeOK
<1>3. ASSUME NEW r \in Readers, CreateEvidenceStoreFails(r)
      PROVE  MappedIsOpen'
  BY <1>3 DEF CreateEvidenceStoreFails, memory, MappedIsOpen, TypeOK
<1>4. ASSUME NEW r \in Readers, AbandonEvidenceStore(r)
      PROVE  MappedIsOpen'
  BY <1>4 DEF AbandonEvidenceStore, MappedIsOpen, TypeOK
<1>5. ASSUME NEW r \in Readers, NEW s \in Stores, NEW b \in Blocks, StoreBlock(r, s, b)
      PROVE  MappedIsOpen'
  BY <1>5 DEF StoreBlock, MappedIsOpen, TypeOK
<1>6. ASSUME NEW r \in Readers, NEW s \in Stores, NEW b \in Blocks, StoreBlockFails(r, s, b)
      PROVE  MappedIsOpen'
  BY <1>6 DEF StoreBlockFails, MappedIsOpen, TypeOK
<1>7. ASSUME NEW r \in Readers, NEW s \in Stores, NEW b \in Blocks, RetrieveCachedBlock(r, s, b)
      PROVE  MappedIsOpen'
  BY <1>7 DEF RetrieveCachedBlock, MappedIsOpen, TypeOK
<1>8. ASSUME NEW r \in Readers, NEW s \in Stores, NEW b \in Blocks, RetrieveStoredBlock(r, s, b)
      PROVE  MappedIsOpen'
  BY <1>8 DEF RetrieveStoredBlock, MappedIsOpen, TypeOK
<1>9. ASSUME NEW r \in Readers, BeginClose(r)
      PROVE  MappedIsOpen'
  BY <1>9 DEF BeginClose, MappedIsOpen, TypeOK
<1>10. ASSUME NEW r \in Readers, FinishClose(r)
       PROVE  MappedIsOpen'
  <2>1. ref[r] # None /\ ref[r] = evidenceStores
    BY <1>10 DEF FinishClose, References
  <2> QED
    BY <1>10, <2>1 DEF FinishClose, DropReference, MappedIsOpen, TypeOK
<1>11. ASSUME NEW r \in Readers, SyncFails(r)
       PROVE  MappedIsOpen'
  BY <1>11 DEF SyncFails, MappedIsOpen, TypeOK
<1>12. ASSUME NEW r \in Readers, DoCloseFails(r)
       PROVE  MappedIsOpen'
  BY <1>12 DEF DoCloseFails, NoCloseFault
<1>13. ASSUME NEW s \in Stores, SetAvailable(s)
       PROVE  MappedIsOpen'
  BY <1>13 DEF SetAvailable, MappedIsOpen, TypeOK
<1>14. CASE Crash
  BY <1>14 DEF Crash, MappedIsOpen
<1>15. CASE UNCHANGED vars
  BY <1>15 DEF vars, memory, MappedIsOpen
<1> QED
  BY <1>1, <1>2, <1>3, <1>4, <1>5, <1>6, <1>7, <1>8, <1>9, <1>10, <1>11,
     <1>12, <1>13, <1>14, <1>15 DEF Next, ReaderStep, BlockCall

(***************************************************************************)
(* All readers of a path share one object, however many references were    *)
(* lost to failing set-ups, failing writes and failing closes.             *)
(***************************************************************************)
THEOREM OneStore == Spec => []OneStoreInUse
<1>1. References => OneStoreInUse
  BY DEF References, OneStoreInUse
<1> QED
  BY <1>1, InitTypeOK, NextTypeOK, InitReferences, NextReferences, PTL
     DEF Spec

(***************************************************************************)
(* The files stay open while a reader is left, as long as closing a file   *)
(* never fails: the count covers every holder.                             *)
(***************************************************************************)
THEOREM StoreOpenWhileUsed ==
  ASSUME NoCloseFault
  PROVE  Spec => []OpenWhileUsed
<1>1. Init => MappedIsOpen
  BY DEF Init, MappedIsOpen
<1>2. References /\ MappedIsOpen => OpenWhileUsed
  BY DEF References, MappedIsOpen, OpenWhileUsed
<1>3. TypeOK /\ References /\ MappedIsOpen /\ [Next]_vars => MappedIsOpen'
  BY NextMappedIsOpen
<1> QED
  BY <1>1, <1>2, <1>3, InitTypeOK, NextTypeOK, InitReferences,
     NextReferences, PTL DEF Spec

-----------------------------------------------------------------------------
(***************************************************************************)
(* Bytes of the evidence file.  A byte of the device that reached the file *)
(* is never replaced, whichever operation fails.                           *)
(***************************************************************************)
BytesKept ==
    \A b \in Blocks, i \in Offsets :
        evidenceFile[b][i] = DeviceBlock(b)[i] =>
            evidenceFile'[b][i] = DeviceBlock(b)[i]

LEMMA ExtendedKeeps ==
  ASSUME TypeOK, evidenceFile' = Extended(evidenceFile)
  PROVE  BytesKept
<1> SUFFICES ASSUME NEW b \in Blocks, NEW i \in Offsets,
                    evidenceFile[b][i] = DeviceBlock(b)[i]
             PROVE  evidenceFile'[b][i] = evidenceFile[b][i]
  BY DEF BytesKept
<1>1. evidenceFile[b][i] \in Bytes
  BY DeviceBlockType DEF BlockData
<1> QED
  BY <1>1, ContentAssumption DEF Extended

LEMMA WriteBytesKeeps ==
  ASSUME TypeOK, NEW b \in Blocks, NEW n,
         evidenceFile' = WriteBytes(evidenceFile, b, DeviceBlock(b), n)
  PROVE  BytesKept
BY DEF BytesKept, WriteBytes, TypeOK

LEMMA NextBytesKept ==
  ASSUME TypeOK, [Next]_vars
  PROVE  BytesKept
<1>1. ASSUME NEW r \in Readers, NEW s \in Stores, ShareEvidenceStore(r, s)
      PROVE  BytesKept
  BY <1>1 DEF ShareEvidenceStore, BytesKept
<1>2. ASSUME NEW r \in Readers, NEW s \in Stores, CreateEvidenceStore(r, s)
      PROVE  BytesKept
  <2>1. evidenceFile' = Extended(evidenceFile)
    BY <1>2 DEF CreateEvidenceStore
  <2> QED
    BY <2>1, ExtendedKeeps
<1>3. ASSUME NEW r \in Readers, CreateEvidenceStoreFails(r)
      PROVE  BytesKept
  <2>1. evidenceFile' = Extended(evidenceFile)
    BY <1>3 DEF CreateEvidenceStoreFails
  <2> QED
    BY <2>1, ExtendedKeeps
<1>4. ASSUME NEW r \in Readers, AbandonEvidenceStore(r)
      PROVE  BytesKept
  BY <1>4 DEF AbandonEvidenceStore, BytesKept
<1>5. ASSUME NEW r \in Readers, NEW s \in Stores, NEW b \in Blocks, StoreBlock(r, s, b)
      PROVE  BytesKept
  <2>1. evidenceFile' =
            WriteBytes(evidenceFile, b, DeviceBlock(b), TransferLength(b))
    BY <1>5 DEF StoreBlock
  <2> QED
    BY <2>1, WriteBytesKeeps
<1>6. ASSUME NEW r \in Readers, NEW s \in Stores, NEW b \in Blocks, StoreBlockFails(r, s, b)
      PROVE  BytesKept
  <2>1. PICK n : evidenceFile' = WriteBytes(evidenceFile, b, DeviceBlock(b), n)
    BY <1>6 DEF StoreBlockFails
  <2> QED
    BY <2>1, WriteBytesKeeps
<1>7. ASSUME NEW r \in Readers, NEW s \in Stores, NEW b \in Blocks, RetrieveCachedBlock(r, s, b)
      PROVE  BytesKept
  BY <1>7 DEF RetrieveCachedBlock, BytesKept
<1>8. ASSUME NEW r \in Readers, NEW s \in Stores, NEW b \in Blocks, RetrieveStoredBlock(r, s, b)
      PROVE  BytesKept
  BY <1>8 DEF RetrieveStoredBlock, BytesKept
<1>9. ASSUME NEW r \in Readers, BeginClose(r)
      PROVE  BytesKept
  BY <1>9 DEF BeginClose, BytesKept
<1>10. ASSUME NEW r \in Readers, FinishClose(r)
       PROVE  BytesKept
  BY <1>10 DEF FinishClose, BytesKept
<1>11. ASSUME NEW r \in Readers, SyncFails(r)
       PROVE  BytesKept
  BY <1>11 DEF SyncFails, BytesKept
<1>12. ASSUME NEW r \in Readers, DoCloseFails(r)
       PROVE  BytesKept
  BY <1>12 DEF DoCloseFails, BytesKept
<1>13. ASSUME NEW s \in Stores, SetAvailable(s)
       PROVE  BytesKept
  BY <1>13 DEF SetAvailable, BytesKept
<1>14. CASE Crash
  BY <1>14 DEF Crash, BytesKept
<1>15. CASE UNCHANGED vars
  BY <1>15 DEF vars, memory, BytesKept
<1> QED
  BY <1>1, <1>2, <1>3, <1>4, <1>5, <1>6, <1>7, <1>8, <1>9, <1>10, <1>11,
     <1>12, <1>13, <1>14, <1>15 DEF Next, ReaderStep, BlockCall

(***************************************************************************)
(* The device's bytes that reached the evidence file stay there through    *)
(* reopening, failing writes and crashes.                                  *)
(***************************************************************************)
THEOREM DeviceBytesStay == Spec => WrittenIsKept
<1>1. TypeOK /\ [Next]_vars => \A b \in Blocks : Written(b) => Written(b)'
  <2> SUFFICES ASSUME TypeOK, [Next]_vars, NEW b \in Blocks, Written(b)
               PROVE  Written(b)'
    OBVIOUS
  <2>1. BytesKept
    BY NextBytesKept
  <2> QED
    BY <2>1 DEF BytesKept, Written
<1> QED
  BY <1>1, TypeCorrect, PTL DEF WrittenIsKept, Spec

-----------------------------------------------------------------------------
(***************************************************************************)
(* Availability.  The transfers of storeBlock and retrieveBlock reach all  *)
(* the bytes a block has on the device.  It is the exact condition on the  *)
(* geometry: it holds for every image of whole blocks, whatever its        *)
(* length, and fails for an image below the int range whose tail is more   *)
(* than half a block.                                                      *)
(***************************************************************************)
CompleteTransfers ==
    \A b \in Blocks, i \in Offsets :
        b * BlockSize + i < ImageLength => i < TransferLength(b)

LEMMA WholeBlocksTransfer ==
  ASSUME ImageLength % BlockSize = 0
  PROVE  CompleteTransfers
<1> DEFINE n == ImageLength \div BlockSize
<1>1. n \in Nat /\ ImageLength = n * BlockSize
  BY GeometryAssumption
<1>2. BlockCount = n
  <2>1. \A m \in Nat, y \in Nat \ {0} : (m * y + y - 1) \div y = m
    OBVIOUS
  <2> QED
    BY <1>1, <2>1, GeometryAssumption DEF BlockCount
<1> HIDE DEF n
<1>3. ASSUME NEW b \in Blocks
      PROVE  TransferLength(b) = BlockSize
  <2> DEFINE blockEnd == (b + 1) * BlockSize
  <2>1. blockEnd \in Nat /\ blockEnd <= ImageLength
    <3>1. b \in Nat /\ b + 1 <= n
      BY <1>1, <1>2 DEF Blocks
    <3>2. \A x \in Nat, y \in Nat, z \in Nat : x <= y => x * z <= y * z
      OBVIOUS
    <3> QED
      BY <1>1, <3>1, <3>2, GeometryAssumption
  <2> HIDE DEF blockEnd
  <2>2. ToInt(blockEnd) <= blockEnd
    <3> DEFINE v == blockEnd + IntLimit
               d == 2 * IntLimit
    <3>1. v \in Nat /\ d \in Nat \ {0}
      BY <2>1, GeometryAssumption
    <3> HIDE DEF v, d
    <3>2. v % d \in Nat /\ v % d <= v
      BY <3>1
    <3> QED
      BY <2>1, <3>2, GeometryAssumption DEF v, d, ToInt
  <2>3. ToInt(blockEnd) \in Int
    BY <2>1, GeometryAssumption DEF ToInt
  <2>4. ~(ToInt(blockEnd) > ImageLength)
    BY <2>1, <2>2, <2>3, GeometryAssumption
  <2> QED
    BY <2>4 DEF TransferLength, blockEnd
<1> QED
  BY <1>3, GeometryAssumption DEF CompleteTransfers, Offsets

\* The transferred bytes of block b in the file are those of the buffer.
Stored(b) ==
    \A i \in Offsets :
        i < TransferLength(b) => evidenceFile[b][i] = DeviceBlock(b)[i]

(***************************************************************************)
(* Every mark of block b, on disk, in memory, on its way to either, is     *)
(* backed by the bytes in the file.                                        *)
(***************************************************************************)
MarkedIsStored ==
    /\ \A b \in bitmapFile : Stored(b)
    /\ \A s \in Stores : \A b \in bitmap[s] : Stored(b)
    /\ \A s \in Stores, b \in Blocks :
          storing[s] = b => Stored(b)
    /\ closing # None => \A b \in closing.image : Stored(b)

LEMMA SyncToDiskMarks ==
  ASSUME TypeOK, MarkedIsStored, NEW s \in Stores, closing # None,
         SyncToDisk(s)
  PROVE  \A b \in bitmapFile' : Stored(b)
<1>1. PICK later \in SUBSET (bitmap[s] \ closing.image) :
          bitmapFile' = WriteBits(closing.image \cup later,
                                  ByteArrayLength(closing.image \cup later))
  BY DEF SyncToDisk, Copies
<1>2. bitmapFile' \subseteq closing.image \cup later \cup bitmapFile
  BY <1>1 DEF WriteBits
<1> QED
  BY <1>2 DEF MarkedIsStored

LEMMA FailedSyncMarks ==
  ASSUME TypeOK, MarkedIsStored, References, NEW r \in Readers, SyncFails(r)
  PROVE  \A b \in bitmapFile' : Stored(b)'
<1>0. PICK later \in SUBSET (bitmap[ref[r]] \ closing.image) :
          \E n \in 0 .. ByteArrayLength(closing.image \cup later) :
             bitmapFile' = WriteBits(closing.image \cup later, n)
  BY DEF SyncFails, Copies
<1>1. PICK n \in 0 .. ByteArrayLength(closing.image \cup later) :
          bitmapFile' = WriteBits(closing.image \cup later, n)
  BY <1>0
<1>2. bitmapFile' \subseteq closing.image \cup later \cup bitmapFile
  BY <1>1 DEF WriteBits
<1>3. \A b \in bitmapFile' : Stored(b)
  BY <1>2 DEF MarkedIsStored, SyncFails, References, TypeOK
<1>4. \A b : Stored(b)' = Stored(b)
  BY DEF SyncFails, Stored, Written
<1> QED
  BY <1>3, <1>4

LEMMA NextMarkedIsStored ==
  ASSUME TypeOK, References, MarkedIsStored, [Next]_vars
  PROVE  MarkedIsStored'
<1> DEFINE MarksStay ==
        /\ \A b \in bitmapFile : Stored(b)'
        /\ \A s \in Stores : \A b \in bitmap[s] : Stored(b)'
        /\ \A s \in Stores, b \in Blocks :
              storing[s] = b => Stored(b)'
        /\ closing # None => \A b \in closing.image : Stored(b)'
<1>s. \A b \in Blocks : Stored(b) => Stored(b)'
  BY NextBytesKept DEF BytesKept, Stored
<1>0. MarksStay
  <2>2. bitmapFile \in SUBSET Blocks /\ \A s \in Stores : bitmap[s] \in SUBSET Blocks
    BY DEF TypeOK
  <2>4. closing # None => closing.image \in SUBSET Blocks
    BY DEF TypeOK
  <2> QED
    BY <1>s, <2>2, <2>4 DEF MarkedIsStored
<1>t. bitmap \in [Stores -> SUBSET Blocks] /\ storing \in [Stores -> Blocks \cup {None}]
  BY DEF TypeOK
<1>1. ASSUME NEW r \in Readers, NEW s \in Stores, ShareEvidenceStore(r, s)
      PROVE  MarkedIsStored'
  BY <1>1, <1>0, <1>t
     DEF ShareEvidenceStore, MarkedIsStored
<1>2. ASSUME NEW r \in Readers, NEW s \in Stores, CreateEvidenceStore(r, s)
      PROVE  MarkedIsStored'
  BY <1>2, <1>0, <1>t
     DEF CreateEvidenceStore, MarkedIsStored
<1>3. ASSUME NEW r \in Readers, CreateEvidenceStoreFails(r)
      PROVE  MarkedIsStored'
  BY <1>3, <1>0, <1>t
     DEF CreateEvidenceStoreFails, MarkedIsStored, memory
<1>4. ASSUME NEW r \in Readers, AbandonEvidenceStore(r)
      PROVE  MarkedIsStored'
  BY <1>4, <1>0, <1>t
     DEF AbandonEvidenceStore, MarkedIsStored
<1>5. ASSUME NEW r \in Readers, NEW s \in Stores, NEW b \in Blocks, StoreBlock(r, s, b)
      PROVE  MarkedIsStored'
  <2>1. Stored(b)'
    <3>1. evidenceFile' =
              WriteBytes(evidenceFile, b, DeviceBlock(b), TransferLength(b))
      BY <1>5 DEF StoreBlock
    <3> QED
      BY <3>1 DEF WriteBytes, Stored, TypeOK
  <2>2. \A t \in Stores, c \in Blocks :
            storing'[t] = c => Stored(c)'
    BY <1>5, <2>1, <1>0, <1>t DEF StoreBlock
  <2> QED
    BY <1>5, <2>2, <1>0 DEF StoreBlock, MarkedIsStored
<1>6. ASSUME NEW r \in Readers, NEW s \in Stores, NEW b \in Blocks, StoreBlockFails(r, s, b)
      PROVE  MarkedIsStored'
  BY <1>6, <1>0, <1>t
     DEF StoreBlockFails, MarkedIsStored
<1>7. ASSUME NEW r \in Readers, NEW s \in Stores, NEW b \in Blocks, RetrieveCachedBlock(r, s, b)
      PROVE  MarkedIsStored'
  BY <1>7, <1>0, <1>t
     DEF RetrieveCachedBlock, MarkedIsStored
<1>8. ASSUME NEW r \in Readers, NEW s \in Stores, NEW b \in Blocks, RetrieveStoredBlock(r, s, b)
      PROVE  MarkedIsStored'
  BY <1>8, <1>0, <1>t
     DEF RetrieveStoredBlock, MarkedIsStored
<1>9. ASSUME NEW r \in Readers, BeginClose(r)
      PROVE  MarkedIsStored'
  BY <1>9, <1>0, <1>t, HeldIsCounted
     DEF BeginClose, MarkedIsStored, References
<1>10. ASSUME NEW r \in Readers, FinishClose(r)
       PROVE  MarkedIsStored'
  <2>1. ref[r] # None /\ ref[r] \in Stores /\ closing # None
    BY <1>10, HeldIsCounted DEF FinishClose, References
  <2>2. \A b \in bitmapFile' : Stored(b)'
    BY <1>10, <1>s, <2>1, SyncToDiskMarks, SyncToDiskType DEF FinishClose
  <2> QED
    BY <1>10, <2>1, <2>2, <1>0, <1>t DEF FinishClose, LeaveClose, MarkedIsStored
<1>11. ASSUME NEW r \in Readers, SyncFails(r)
       PROVE  MarkedIsStored'
  <2>1. \A b \in bitmapFile' : Stored(b)'
    BY <1>11, FailedSyncMarks
  <2> QED
    BY <1>11, <2>1, <1>0, <1>t DEF SyncFails, LeaveClose, MarkedIsStored
<1>12. ASSUME NEW r \in Readers, DoCloseFails(r)
       PROVE  MarkedIsStored'
  <2>1. ref[r] # None /\ ref[r] \in Stores /\ closing # None
    BY <1>12, HeldIsCounted DEF DoCloseFails, References
  <2>2. \A b \in bitmapFile' : Stored(b)'
    BY <1>12, <1>s, <2>1, SyncToDiskMarks, SyncToDiskType DEF DoCloseFails
  <2> QED
    BY <1>12, <2>1, <2>2, <1>0, <1>t DEF DoCloseFails, LeaveClose, MarkedIsStored
<1>13. ASSUME NEW s \in Stores, SetAvailable(s)
       PROVE  MarkedIsStored'
  BY <1>13, <1>0, <1>t, ObjectAssumption
     DEF SetAvailable, MarkedIsStored
<1>14. CASE Crash
  BY <1>14, <1>0, <1>t, ObjectAssumption
     DEF Crash, MarkedIsStored
<1>15. CASE UNCHANGED vars
  BY <1>15, <1>0, <1>t
     DEF vars, MarkedIsStored, memory
<1> QED
  BY <1>1, <1>2, <1>3, <1>4, <1>5, <1>6, <1>7, <1>8, <1>9, <1>10, <1>11,
     <1>12, <1>13, <1>14, <1>15 DEF Next, ReaderStep, BlockCall

(***************************************************************************)
(* The bitmap file never marks a block whose device bytes are not in the   *)
(* evidence file, at any point a crash can come.                           *)
(***************************************************************************)
THEOREM MarkedBlocksAreThere ==
  ASSUME CompleteTransfers
  PROVE  Spec => []RecordedIsWritten
<1>1. Init => MarkedIsStored
  BY ObjectAssumption DEF Init, MarkedIsStored
<1>2. TypeOK /\ MarkedIsStored => RecordedIsWritten
  BY DEF TypeOK, MarkedIsStored, RecordedIsWritten, Stored, Written,
         CompleteTransfers
<1>3. TypeOK /\ References /\ MarkedIsStored /\ [Next]_vars => MarkedIsStored'
  BY NextMarkedIsStored
<1> QED
  BY <1>1, <1>2, <1>3, InitTypeOK, NextTypeOK, InitReferences,
     NextReferences, PTL DEF Spec

=============================================================================
