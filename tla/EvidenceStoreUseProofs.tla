---------------------- MODULE EvidenceStoreUseProofs ----------------------
(***************************************************************************)
(* Theorems about what the users of an evidence store rely on: the limit   *)
(* of its cache, the blocks that stay available, and the files that are    *)
(* closed with the last user.                                              *)
(***************************************************************************)
EXTENDS EvidenceStoreProofs

-----------------------------------------------------------------------------
(* The access order. *)

\* The blocks of an order, which lists each of them once.
Listed(order) == {order[i] : i \in DOMAIN order}

Once(order) ==
    \A i, j \in DOMAIN order : order[i] = order[j] => i = j

\* As many blocks are listed as the order is long.
LEMMA OnceCounts ==
  ASSUME NEW S, NEW order \in Seq(S), Once(order)
  PROVE  Cardinality(Listed(order)) = Len(order)
<1>1. order \in [1 .. Len(order) -> Listed(order)] /\ Len(order) \in Nat
  BY DEF Listed
<1>2. order \in Bijection(1 .. Len(order), Listed(order))
  BY <1>1 DEF Once, Listed, Bijection, Injection, Surjection, IsInjective
<1> QED
  BY <1>1, <1>2, FS_CountingElements DEF ExistsBijection

\* The k-th of the n blocks of an order has moved behind the others.
Moved(order, n, k, new) ==
    /\ n \in Nat
    /\ DOMAIN order = 1 .. n
    /\ k \in 1 .. n
    /\ DOMAIN new = 1 .. n
    /\ \A i \in 1 .. n :
          new[i] = IF i < k THEN order[i]
                   ELSE IF i = n THEN order[k] ELSE order[i + 1]

LEMMA MovedToEnd ==
  ASSUME NEW order, Once(order), NEW n, NEW k, NEW new,
         Moved(order, n, k, new)
  PROVE  Once(new) /\ Listed(new) = Listed(order)
<1> USE DEF Moved
<1>1. ASSUME NEW i \in 1 .. n
      PROVE  /\ i < k => new[i] = order[i]
             /\ ~ i < k /\ i = n => new[i] = order[k]
             /\ ~ i < k /\ i # n => new[i] = order[i + 1] /\ i + 1 \in 1 .. n
  OBVIOUS
<1>2. Once(new)
  <2> DEFINE From(i) == IF i < k THEN i ELSE IF i = n THEN k ELSE i + 1
  <2>1. \A i \in 1 .. n : From(i) \in 1 .. n /\ new[i] = order[From(i)]
    BY <1>1
  <2>2. \A i, j \in 1 .. n : From(i) = From(j) => i = j
    OBVIOUS
  <2> HIDE DEF From
  <2>3. ASSUME NEW i \in 1 .. n, NEW j \in 1 .. n, new[i] = new[j]
        PROVE  i = j
    <3>1. order[From(i)] = order[From(j)]
      BY <2>1, <2>3
    <3>2. From(i) = From(j)
      BY <2>1, <3>1 DEF Once
    <3> QED
      BY <2>2, <3>2
  <2> QED
    BY <2>3 DEF Once
<1>3. ASSUME NEW i \in 1 .. n PROVE new[i] \in Listed(order)
  <2>1. CASE i < k
    BY <2>1 DEF Listed
  <2>2. CASE ~ i < k /\ i = n
    BY <2>2 DEF Listed
  <2>3. CASE ~ i < k /\ i # n
    <3>1. i + 1 \in 1 .. n /\ new[i] = order[i + 1]
      BY <2>3
    <3> QED
      BY <3>1 DEF Listed
  <2> QED
    BY <2>1, <2>2, <2>3
<1>4. ASSUME NEW i \in 1 .. n PROVE order[i] \in Listed(new)
  <2>1. CASE i < k
    <3>1. new[i] = order[i]
      BY <2>1
    <3> QED
      BY <3>1 DEF Listed
  <2>2. CASE i = k
    <3>1. n \in 1 .. n /\ new[n] = order[k]
      OBVIOUS
    <3> QED
      BY <2>2, <3>1 DEF Listed
  <2>3. CASE i > k
    <3>1. i - 1 \in 1 .. n /\ ~ i - 1 < k /\ i - 1 # n
      BY <2>3
    <3>2. new[i - 1] = order[i - 1 + 1] /\ i - 1 + 1 = i
      BY <3>1
    <3> QED
      BY <3>1, <3>2 DEF Listed
  <2> QED
    BY <2>1, <2>2, <2>3
<1>5. Listed(new) \subseteq Listed(order)
  BY <1>3 DEF Listed
<1>6. Listed(order) \subseteq Listed(new)
  BY <1>4 DEF Listed
<1> QED
  BY <1>2, <1>5, <1>6

LEMMA TouchListed ==
  ASSUME NEW order \in Seq(Blocks), Once(order), NEW b \in Listed(order)
  PROVE  /\ Touch(order, b) \in Seq(Blocks)
         /\ Once(Touch(order, b))
         /\ Listed(Touch(order, b)) = Listed(order)
         /\ Len(Touch(order, b)) = Len(order)
<1>1. PICK k \in DOMAIN order :
        /\ order[k] = b
        /\ Touch(order, b) =
              [i \in DOMAIN order |->
                 IF i < k THEN order[i]
                 ELSE IF i = Len(order) THEN b ELSE order[i + 1]]
  BY DEF Touch, Listed
<1>2. DOMAIN order = 1 .. Len(order) /\ Len(order) \in Nat
  OBVIOUS
<1>3. Touch(order, b) \in [1 .. Len(order) -> Blocks]
  BY <1>1, <1>2
<1>4. Touch(order, b) \in Seq(Blocks) /\ Len(Touch(order, b)) = Len(order)
  BY <1>2, <1>3
<1>5. \A i \in 1 .. Len(order) :
        Touch(order, b)[i] =
            IF i < k THEN order[i]
            ELSE IF i = Len(order) THEN order[k] ELSE order[i + 1]
  BY <1>1, <1>2
<1>6. DOMAIN Touch(order, b) = 1 .. Len(order)
  BY <1>3
<1>7. Moved(order, Len(order), k, Touch(order, b))
  BY <1>1, <1>2, <1>5, <1>6 DEF Moved
<1>8. Once(Touch(order, b)) /\ Listed(Touch(order, b)) = Listed(order)
  BY <1>7, MovedToEnd
<1> QED
  BY <1>4, <1>8

LEMMA TouchOrder ==
  ASSUME NEW order \in Seq(Blocks), Once(order), NEW b \in Blocks
  PROVE  /\ Touch(order, b) \in Seq(Blocks)
         /\ Once(Touch(order, b))
         /\ Listed(Touch(order, b)) = Listed(order) \cup {b}
         /\ Len(Touch(order, b)) =
               IF b \in Listed(order) THEN Len(order) ELSE Len(order) + 1
<1>1. CASE b \in Listed(order)
  BY <1>1, TouchListed
<1>2. CASE b \notin Listed(order)
  <2>1. Touch(order, b) = Append(order, b)
    BY <1>2 DEF Touch, Listed
  <2>2. /\ Append(order, b) \in Seq(Blocks)
        /\ Len(Append(order, b)) = Len(order) + 1
        /\ DOMAIN Append(order, b) = 1 .. Len(order) + 1
        /\ DOMAIN order = 1 .. Len(order)
        /\ Len(order) \in Nat
        /\ \A i \in 1 .. Len(order) + 1 :
              Append(order, b)[i] = IF i = Len(order) + 1 THEN b ELSE order[i]
    OBVIOUS
  <2>3. Once(Append(order, b))
    BY <1>2, <2>2 DEF Once, Listed
  <2>4. Listed(Append(order, b)) = Listed(order) \cup {b}
    <3>1. Listed(Append(order, b)) \subseteq Listed(order) \cup {b}
      BY <2>2 DEF Listed
    <3>2. ASSUME NEW i \in DOMAIN order
          PROVE  order[i] \in Listed(Append(order, b))
      <4>1. i \in 1 .. Len(order) + 1 /\ Append(order, b)[i] = order[i]
        BY <2>2
      <4> QED
        BY <4>1, <2>2 DEF Listed
    <3>3. b \in Listed(Append(order, b))
      <4>1. Len(order) + 1 \in 1 .. Len(order) + 1
        BY <2>2
      <4> QED
        BY <4>1, <2>2 DEF Listed
    <3> QED
      BY <3>1, <3>2, <3>3 DEF Listed
  <2> QED
    BY <1>2, <2>1, <2>2, <2>3, <2>4
<1> QED
  BY <1>1, <1>2

LEMMA TailOrder ==
  ASSUME NEW order \in Seq(Blocks), Once(order), order # <<>>
  PROVE  /\ Tail(order) \in Seq(Blocks)
         /\ Once(Tail(order))
         /\ Listed(Tail(order)) = Listed(order) \ {Head(order)}
         /\ Len(Tail(order)) = Len(order) - 1
<1>1. /\ Tail(order) \in Seq(Blocks)
      /\ Len(Tail(order)) = Len(order) - 1
      /\ Len(order) \in Nat /\ Len(order) >= 1
      /\ DOMAIN Tail(order) = 1 .. Len(order) - 1
      /\ DOMAIN order = 1 .. Len(order)
      /\ \A i \in 1 .. Len(order) - 1 : Tail(order)[i] = order[i + 1]
      /\ Head(order) = order[1]
  OBVIOUS
<1>2. Once(Tail(order))
  BY <1>1 DEF Once
<1>3. ASSUME NEW i \in 1 .. Len(order) - 1
      PROVE  Tail(order)[i] \in Listed(order) \ {Head(order)}
  <2>1. i + 1 \in 1 .. Len(order) /\ i + 1 # 1 /\ 1 \in 1 .. Len(order)
    BY <1>1
  <2> QED
    BY <2>1, <1>1 DEF Listed, Once
<1>4. ASSUME NEW i \in 1 .. Len(order), order[i] # Head(order)
      PROVE  order[i] \in Listed(Tail(order))
  <2>1. i - 1 \in 1 .. Len(order) - 1 /\ (i - 1) + 1 = i
    BY <1>1, <1>4
  <2>2. Tail(order)[i - 1] = order[i]
    BY <2>1, <1>1
  <2> QED
    BY <2>1, <2>2, <1>1 DEF Listed
<1> QED
  BY <1>1, <1>2, <1>3, <1>4 DEF Listed

LEMMA EvictOrder ==
  ASSUME NEW order \in Seq(Blocks), Once(order), Len(order) <= CacheSize
  PROVE  /\ Evict(order) \in Seq(Blocks)
         /\ Once(Evict(order))
         /\ Len(Evict(order)) < CacheSize
         /\ Listed(Evict(order)) =
               Listed(order) \ IF Len(order) = CacheSize THEN {Head(order)}
                                                         ELSE {}
<1>1. Len(order) \in Nat /\ CacheSize \in Nat \ {0}
  BY GeometryAssumption
<1>2. CASE Len(order) = CacheSize
  <2>1. order # <<>>
    BY <1>1, <1>2
  <2> QED
    BY <1>1, <1>2, <2>1, TailOrder DEF Evict
<1>3. CASE Len(order) # CacheSize
  BY <1>1, <1>3 DEF Evict
<1> QED
  BY <1>2, <1>3

-----------------------------------------------------------------------------
(***************************************************************************)
(* The cache.  The order lists the cached blocks, each once, and is never  *)
(* longer than the cache may be: an access, a full cache and a block put a *)
(* second time keep the map and its order together.                        *)
(***************************************************************************)
Ordered(order, cached) ==
    /\ order \in Seq(Blocks)
    /\ Once(order)
    /\ Len(order) <= CacheSize
    /\ cached = Listed(order)

CachesOrdered ==
    /\ recency \in [Stores -> Seq(Blocks)]
    /\ \A s \in Stores : Ordered(recency[s], DOMAIN cachedBlocks[s])

LEMMA EmptyOrdered == Ordered(<<>>, DOMAIN EmptyCache)
<1>1. DOMAIN EmptyCache = {} /\ Listed(<<>>) = {}
  BY DEF EmptyCache, Listed
<1>2. Once(<<>>) /\ <<>> \in Seq(Blocks) /\ Len(<<>>) <= CacheSize
  BY GeometryAssumption DEF Once
<1> QED
  BY <1>1, <1>2 DEF Ordered

LEMMA CachePutOrdered ==
  ASSUME TypeOK, CachesOrdered, NEW s \in Stores, NEW b \in Blocks, NEW data,
         CachePut(s, b, data)
  PROVE  CachesOrdered'
<1> DEFINE left == Evict(recency[s])
           new == Touch(left, b)
           dom == (DOMAIN cachedBlocks[s] \ Victims(s)) \cup {b}
<1>1. /\ recency[s] \in Seq(Blocks) /\ Once(recency[s])
      /\ Len(recency[s]) <= CacheSize
      /\ DOMAIN cachedBlocks[s] = Listed(recency[s])
  BY DEF CachesOrdered, Ordered
<1>2. /\ left \in Seq(Blocks) /\ Once(left) /\ Len(left) < CacheSize
      /\ Listed(left) = DOMAIN cachedBlocks[s] \ Victims(s)
  BY <1>1, EvictOrder DEF Victims
<1> HIDE DEF left
<1>3. /\ new \in Seq(Blocks) /\ Once(new)
      /\ Listed(new) = Listed(left) \cup {b}
      /\ Len(new) <= Len(left) + 1
  <2>1. Len(left) \in Nat
    BY <1>2
  <2> QED
    BY <1>2, <2>1, TouchOrder
<1> HIDE DEF new
<1>4. Len(left) \in Nat /\ Len(new) \in Nat /\ CacheSize \in Nat
  BY <1>2, <1>3, GeometryAssumption
<1>5. Ordered(new, dom)
  BY <1>2, <1>3, <1>4 DEF Ordered
<1>6. recency' = [recency EXCEPT ![s] = new]
  BY DEF CachePut, left, new
<1>7. DOMAIN cachedBlocks'[s] = dom
  BY DEF CachePut, TypeOK
<1>8. \A t \in Stores \ {s} : cachedBlocks'[t] = cachedBlocks[t]
  BY DEF CachePut, TypeOK
<1>9. recency' \in [Stores -> Seq(Blocks)]
  BY <1>3, <1>6 DEF CachesOrdered
<1>10. ASSUME NEW t \in Stores
       PROVE  Ordered(recency'[t], DOMAIN cachedBlocks'[t])
  <2>1. CASE t = s
    BY <1>5, <1>6, <1>7, <2>1 DEF CachesOrdered
  <2>2. CASE t # s
    BY <1>6, <1>8, <2>2 DEF CachesOrdered
  <2> QED
    BY <2>1, <2>2
<1> QED
  BY <1>9, <1>10 DEF CachesOrdered

LEMMA RetrieveCachedOrdered ==
  ASSUME CachesOrdered, NEW r \in Readers, NEW s \in Stores, NEW b \in Blocks,
         RetrieveCachedBlock(r, s, b)
  PROVE  CachesOrdered'
<1> DEFINE new == Touch(recency[s], b)
<1>1. /\ recency[s] \in Seq(Blocks) /\ Once(recency[s])
      /\ Len(recency[s]) <= CacheSize
      /\ DOMAIN cachedBlocks[s] = Listed(recency[s])
      /\ b \in Listed(recency[s])
  BY DEF CachesOrdered, Ordered, RetrieveCachedBlock
<1>2. /\ new \in Seq(Blocks) /\ Once(new)
      /\ Listed(new) = Listed(recency[s])
      /\ Len(new) = Len(recency[s])
  BY <1>1, TouchListed
<1>3. recency' = [recency EXCEPT ![s] = new] /\ cachedBlocks' = cachedBlocks
  BY DEF RetrieveCachedBlock
<1> HIDE DEF new
<1>4. Ordered(new, DOMAIN cachedBlocks[s])
  BY <1>1, <1>2 DEF Ordered
<1> QED
  BY <1>2, <1>3, <1>4 DEF CachesOrdered

LEMMA NextCachesOrdered ==
  ASSUME TypeOK, CachesOrdered, [Next]_vars
  PROVE  CachesOrdered'
<1>1. ASSUME NEW r \in Readers, NEW s \in Stores, ShareEvidenceStore(r, s)
      PROVE  CachesOrdered'
  BY <1>1 DEF ShareEvidenceStore, CachesOrdered
<1>2. ASSUME NEW r \in Readers, NEW s \in Stores, CreateEvidenceStore(r, s)
      PROVE  CachesOrdered'
  <2>1. /\ recency' = [recency EXCEPT ![s] = <<>>]
        /\ cachedBlocks' = [cachedBlocks EXCEPT ![s] = EmptyCache]
    BY <1>2 DEF CreateEvidenceStore
  <2>2. <<>> \in Seq(Blocks)
    OBVIOUS
  <2>3. recency' \in [Stores -> Seq(Blocks)]
    BY <2>1, <2>2 DEF CachesOrdered
  <2>4. ASSUME NEW t \in Stores
        PROVE  Ordered(recency'[t], DOMAIN cachedBlocks'[t])
    <3>1. CASE t = s
      <4>1. recency'[t] = <<>> /\ cachedBlocks'[t] = EmptyCache
        BY <2>1, <3>1 DEF CachesOrdered, TypeOK
      <4> QED
        BY <4>1, EmptyOrdered
    <3>2. CASE t # s
      <4>1. recency'[t] = recency[t] /\ cachedBlocks'[t] = cachedBlocks[t]
        BY <2>1, <3>2 DEF CachesOrdered, TypeOK
      <4> QED
        BY <4>1 DEF CachesOrdered
    <3> QED
      BY <3>1, <3>2
  <2> QED
    BY <2>3, <2>4 DEF CachesOrdered
<1>3. ASSUME NEW r \in Readers, CreateEvidenceStoreFails(r)
      PROVE  CachesOrdered'
  BY <1>3 DEF CreateEvidenceStoreFails, memory, CachesOrdered
<1>4. ASSUME NEW r \in Readers, AbandonEvidenceStore(r)
      PROVE  CachesOrdered'
  BY <1>4 DEF AbandonEvidenceStore, CachesOrdered
<1>5. ASSUME NEW r \in Readers, NEW s \in Stores, NEW b \in Blocks,
             StoreBlock(r, s, b)
      PROVE  CachesOrdered'
  BY <1>5, CachePutOrdered DEF StoreBlock
<1>6. ASSUME NEW r \in Readers, NEW s \in Stores, NEW b \in Blocks,
             StoreBlockFails(r, s, b)
      PROVE  CachesOrdered'
  BY <1>6, CachePutOrdered DEF StoreBlockFails
<1>7. ASSUME NEW r \in Readers, NEW s \in Stores, NEW b \in Blocks,
             RetrieveCachedBlock(r, s, b)
      PROVE  CachesOrdered'
  BY <1>7, RetrieveCachedOrdered
<1>8. ASSUME NEW r \in Readers, NEW s \in Stores, NEW b \in Blocks,
             RetrieveStoredBlock(r, s, b)
      PROVE  CachesOrdered'
  BY <1>8, CachePutOrdered DEF RetrieveStoredBlock
<1>9. ASSUME NEW r \in Readers, BeginClose(r)
      PROVE  CachesOrdered'
  BY <1>9 DEF BeginClose, CachesOrdered
<1>10. ASSUME NEW r \in Readers, FinishClose(r)
       PROVE  CachesOrdered'
  BY <1>10 DEF FinishClose, CachesOrdered
<1>11. ASSUME NEW r \in Readers, SyncFails(r)
       PROVE  CachesOrdered'
  BY <1>11 DEF SyncFails, CachesOrdered
<1>12. ASSUME NEW r \in Readers, DoCloseFails(r)
       PROVE  CachesOrdered'
  BY <1>12 DEF DoCloseFails, CachesOrdered
<1>13. ASSUME NEW s \in Stores, SetAvailable(s)
       PROVE  CachesOrdered'
  BY <1>13 DEF SetAvailable, CachesOrdered
<1>14. CASE Crash
  <2>1. /\ recency' = [s \in Stores |-> <<>>]
        /\ cachedBlocks' = [s \in Stores |-> EmptyCache]
    BY <1>14 DEF Crash
  <2>2. <<>> \in Seq(Blocks)
    OBVIOUS
  <2> QED
    BY <2>1, <2>2, EmptyOrdered DEF CachesOrdered
<1>15. CASE UNCHANGED vars
  BY <1>15 DEF vars, memory, CachesOrdered
<1> QED
  BY <1>1, <1>2, <1>3, <1>4, <1>5, <1>6, <1>7, <1>8, <1>9, <1>10, <1>11,
     <1>12, <1>13, <1>14, <1>15 DEF Next, ReaderStep, BlockCall

(***************************************************************************)
(* No sequence of stores, reads, failing writes and reopenings lets the    *)
(* cache of an object hold more than CacheSize blocks or part from its     *)
(* access order, which lists each cached block once.                       *)
(***************************************************************************)
THEOREM CacheStaysWithinLimit == Spec => []CacheWithinLimit
<1>1. Init => CachesOrdered
  <2> SUFFICES ASSUME Init PROVE CachesOrdered
    OBVIOUS
  <2>1. /\ recency = [s \in Stores |-> <<>>]
        /\ cachedBlocks = [s \in Stores |-> EmptyCache]
    BY DEF Init
  <2>2. <<>> \in Seq(Blocks)
    OBVIOUS
  <2> QED
    BY <2>1, <2>2, EmptyOrdered DEF CachesOrdered
<1>2. CachesOrdered => CacheWithinLimit
  <2> SUFFICES ASSUME CachesOrdered, NEW s \in Stores
               PROVE  /\ Len(recency[s]) <= CacheSize
                      /\ DOMAIN cachedBlocks[s] = Listed(recency[s])
                      /\ Cardinality(DOMAIN cachedBlocks[s]) = Len(recency[s])
    BY DEF CacheWithinLimit, Listed
  <2>1. Ordered(recency[s], DOMAIN cachedBlocks[s])
    BY DEF CachesOrdered
  <2>2. Cardinality(Listed(recency[s])) = Len(recency[s])
    BY <2>1, OnceCounts DEF Ordered
  <2> QED
    BY <2>1, <2>2 DEF Ordered
<1>3. TypeOK /\ CachesOrdered /\ [Next]_vars => CachesOrdered'
  BY NextCachesOrdered
<1> QED
  BY <1>1, <1>2, <1>3, TypeCorrect, PTL DEF Spec


-----------------------------------------------------------------------------
(***************************************************************************)
(* Availability, as the readers of an object see it.                       *)
(***************************************************************************)
BitsKept ==
    \A r \in Readers :
        ref[r] # None /\ ref'[r] = ref[r] =>
            bitmap[ref[r]] \subseteq bitmap'[ref[r]]

LEMMA NextBitsKept ==
  ASSUME TypeOK, [Next]_vars
  PROVE  BitsKept
<1>1. CASE bitmap' = bitmap
  BY <1>1 DEF BitsKept
<1>2. ASSUME NEW r \in Readers, NEW s \in Stores, CreateEvidenceStore(r, s)
      PROVE  BitsKept
  <2>1. /\ \A q \in Readers : ref[q] # s
        /\ bitmap' = [bitmap EXCEPT ![s] = bitmapFile]
    BY <1>2 DEF CreateEvidenceStore
  <2>2. \A t \in Stores \ {s} : bitmap'[t] = bitmap[t]
    BY <2>1 DEF TypeOK
  <2> QED
    BY <2>1, <2>2 DEF BitsKept, TypeOK
<1>3. ASSUME NEW s \in Stores, SetAvailable(s)
      PROVE  BitsKept
  BY <1>3 DEF SetAvailable, BitsKept, TypeOK
<1>4. CASE Crash
  BY <1>4 DEF Crash, BitsKept
<1>5. ASSUME NEW r \in Readers, NEW s \in Stores, NEW b \in Blocks,
             BlockCall(r, s, b)
      PROVE  bitmap' = bitmap
  BY <1>5 DEF BlockCall, StoreBlock, StoreBlockFails, RetrieveCachedBlock,
              RetrieveStoredBlock
<1>6. ASSUME NEW r \in Readers, ReaderStep(r)
      PROVE  BitsKept
  BY <1>1, <1>2, <1>5, <1>6
     DEF ReaderStep, ShareEvidenceStore, CreateEvidenceStoreFails, memory,
         AbandonEvidenceStore, BeginClose, FinishClose, SyncFails,
         DoCloseFails
<1>7. CASE UNCHANGED vars
  BY <1>1, <1>7 DEF vars, memory
<1> QED
  BY <1>3, <1>4, <1>6, <1>7 DEF Next

(***************************************************************************)
(* An object never takes back a block from a reader that keeps it, for any *)
(* number of readers and objects and whatever fails.                       *)
(***************************************************************************)
THEOREM AvailableBlocksStay == Spec => AvailableStays
<1>1. TypeOK /\ [Next]_vars =>
        [\A r \in Readers :
            ref[r] # None /\ ref'[r] = ref[r] =>
                bitmap[ref[r]] \subseteq bitmap'[ref[r]]]_vars
  BY NextBitsKept DEF BitsKept
<1> QED
  BY <1>1, TypeCorrect, PTL DEF Spec, AvailableStays

-----------------------------------------------------------------------------
(***************************************************************************)
(* The last close.  As long as every close returns and no reference is     *)
(* abandoned, the count is exact: the one open object is the one in the    *)
(* map, and its count is the number of its users, who are not zero.        *)
(***************************************************************************)
NoReferenceLost ==
    \A r \in Readers :
        ~ (SyncFails(r) \/ DoCloseFails(r) \/ AbandonEvidenceStore(r))

ExactlyCounted ==
    /\ \A s \in Stores : filesOpen[s] # {} => s = evidenceStores
    /\ \A s \in Stores : s = evidenceStores =>
          /\ refCount[s] = Cardinality(Users(s))
          /\ refCount[s] # 0

LEMMA ShareExactlyCounted ==
  ASSUME TypeOK, References, ExactlyCounted,
         NEW r \in Readers, NEW s \in Stores, ShareEvidenceStore(r, s)
  PROVE  ExactlyCounted'
<1>1. /\ refCount'[s] = refCount[s] + 1
      /\ UNCHANGED <<filesOpen, evidenceStores>>
      /\ s = evidenceStores
  BY DEF ShareEvidenceStore, TypeOK
<1>2. Cardinality(Users(s)') = Cardinality(Users(s)) + 1
  BY UsersAfterShare DEF ShareEvidenceStore
<1>3. refCount'[s] = Cardinality(Users(s)') /\ refCount'[s] # 0
  BY <1>1, <1>2, CountsType DEF ExactlyCounted
<1> QED
  BY <1>1, <1>3 DEF ExactlyCounted

LEMMA CreateExactlyCounted ==
  ASSUME TypeOK, References, ExactlyCounted,
         NEW r \in Readers, NEW s \in Stores, CreateEvidenceStore(r, s)
  PROVE  ExactlyCounted'
<1>1. /\ refCount'[s] = 1
      /\ evidenceStores' = s
      /\ \A t \in Stores \ {s} : filesOpen'[t] = filesOpen[t]
  BY DEF CreateEvidenceStore, TypeOK
<1>2. \A t \in Stores : filesOpen[t] = {}
  BY ObjectAssumption DEF CreateEvidenceStore, ExactlyCounted
<1>3. Users(s) = {}
  BY DEF CreateEvidenceStore, Users
<1>4. Cardinality(Users(s)') = 1
  <2>1. Cardinality(Users(s)) = 0
    BY <1>3, FS_EmptySet
  <2>2. Cardinality(Users(s)') = Cardinality(Users(s)) + 1
    BY UsersAfterShare DEF CreateEvidenceStore
  <2> QED
    BY <2>1, <2>2
<1> QED
  BY <1>1, <1>2, <1>4 DEF ExactlyCounted

LEMMA FinishExactlyCounted ==
  ASSUME TypeOK, References, ExactlyCounted,
         NEW r \in Readers, FinishClose(r)
  PROVE  ExactlyCounted'
<1>0. PICK s : s = ref[r]
  OBVIOUS
<1>1. s \in Stores /\ s # None /\ s = evidenceStores
  BY <1>0, HeldIsCounted DEF FinishClose, References
<1>2. Cardinality(Users(s)') = Cardinality(Users(s)) - 1
  BY <1>0, <1>1, UsersAfterLeave DEF FinishClose, LeaveClose
<1>3. refCount'[s] = refCount[s] - 1
  BY <1>0, <1>1 DEF FinishClose, DropReference, TypeOK
<1>4. refCount'[s] = Cardinality(Users(s)')
  BY <1>1, <1>2, <1>3 DEF ExactlyCounted
<1>5. CASE refCount'[s] = 0
  <2>1. filesOpen' = [filesOpen EXCEPT ![s] = {}] /\ evidenceStores' = None
    BY <1>0, <1>5 DEF FinishClose, DropReference
  <2>2. \A t \in Stores : filesOpen'[t] = {}
    BY <1>1, <2>1 DEF ExactlyCounted, TypeOK
  <2> QED
    BY <2>1, <2>2, ObjectAssumption DEF ExactlyCounted
<1>6. CASE refCount'[s] # 0
  <2>1. UNCHANGED <<filesOpen, evidenceStores>>
    BY <1>0, <1>6 DEF FinishClose, DropReference
  <2> QED
    BY <1>1, <1>4, <1>6, <2>1 DEF ExactlyCounted
<1> QED
  BY <1>5, <1>6

LEMMA NextExactlyCounted ==
  ASSUME TypeOK, References, ExactlyCounted, [Next]_vars,
         [NoReferenceLost]_vars
  PROVE  ExactlyCounted'
<1>1. ASSUME NEW r \in Readers, NEW s \in Stores, ShareEvidenceStore(r, s)
      PROVE  ExactlyCounted'
  BY <1>1, ShareExactlyCounted
<1>2. ASSUME NEW r \in Readers, NEW s \in Stores, CreateEvidenceStore(r, s)
      PROVE  ExactlyCounted'
  BY <1>2, CreateExactlyCounted
<1>3. ASSUME NEW r \in Readers, FinishClose(r)
      PROVE  ExactlyCounted'
  BY <1>3, FinishExactlyCounted
<1>4. CASE UNCHANGED <<evidenceStores, refCount, filesOpen, ref>>
  BY <1>4 DEF ExactlyCounted, Users
<1>5. CASE Crash
  BY <1>5, ObjectAssumption DEF Crash, ExactlyCounted
<1>6. ASSUME NEW r \in Readers, NEW s \in Stores, NEW b \in Blocks,
             BlockCall(r, s, b)
      PROVE  ExactlyCounted'
  BY <1>4, <1>6 DEF BlockCall, StoreBlock, StoreBlockFails,
                    RetrieveCachedBlock, RetrieveStoredBlock
<1>7. ASSUME NEW s \in Stores, SetAvailable(s)
      PROVE  ExactlyCounted'
  BY <1>4, <1>7 DEF SetAvailable
<1>8. ASSUME NEW r \in Readers,
             CreateEvidenceStoreFails(r) \/ BeginClose(r)
      PROVE  ExactlyCounted'
  BY <1>4, <1>8 DEF CreateEvidenceStoreFails, BeginClose, memory
<1>9. CASE UNCHANGED vars
  BY <1>4, <1>9 DEF vars, memory
<1>10. CASE NoReferenceLost /\ Next
  BY <1>1, <1>2, <1>3, <1>5, <1>6, <1>7, <1>8, <1>10
     DEF NoReferenceLost, Next, ReaderStep
<1> QED
  BY <1>9, <1>10

(***************************************************************************)
(* The files are closed when the last user closes its reference, as the    *)
(* comment of _refCount promises, for any number of readers opening,       *)
(* storing and closing in any order, as long as every close returns and no *)
(* reference is abandoned: files leak only through a close that throws,    *)
(* the BufferOverflowException of one reader's own storeBlock included.    *)
(***************************************************************************)
THEOREM LastCloseClosesFiles ==
  Spec /\ [][NoReferenceLost]_vars => []UnusedIsClosed
<1>1. Init => ExactlyCounted
  BY ObjectAssumption DEF Init, ExactlyCounted
<1>2. ExactlyCounted => UnusedIsClosed
  <2> SUFFICES ASSUME ExactlyCounted, NEW s \in Stores, filesOpen[s] # {}
               PROVE  ~ Unused(s)
    BY DEF UnusedIsClosed
  <2>1. Cardinality(Users(s)) # 0
    BY DEF ExactlyCounted
  <2>2. Users(s) # {}
    BY <2>1, FS_EmptySet
  <2> QED
    BY <2>2 DEF Users, Unused
<1>3. TypeOK /\ References /\ ExactlyCounted /\ [Next]_vars
         /\ [NoReferenceLost]_vars => ExactlyCounted'
  BY NextExactlyCounted
<1> QED
  BY <1>1, <1>2, <1>3, InitTypeOK, NextTypeOK, InitReferences,
     NextReferences, PTL DEF Spec

=============================================================================
