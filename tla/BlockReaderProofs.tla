------------------------- MODULE BlockReaderProofs -------------------------
(***************************************************************************)
(* Theorems about BlockReader, for every device, block size and limit, any *)
(* number of readers and every set of faults.                              *)
(*                                                                         *)
(* TypeOK is inductive.  Bounded strengthens the limit on the table of     *)
(* requests by what the wait for a free slot achieved, Asked is what each  *)
(* place in retrieveBlock knows of the block it is asked for.              *)
(***************************************************************************)
EXTENDS BlockReader, FiniteSetTheorems, TLAPS

\* There is a free slot when the request for the block asked for is sent.
Bounded(r) ==
    /\ IsFiniteSet(InFlight(r))
    /\ Cardinality(InFlight(r)) <= MaxRequestsInFlight
    /\ pc[r] = "send" => Cardinality(InFlight(r)) < MaxRequestsInFlight

\* From the request on, the block is in flight until it is in the store.
Asked(r) ==
    /\ pc[r] \in {"plan", "drain", "scan", "wait", "collect"} =>
          want[r] \in InFlight(r) \/ want[r] \in available
    /\ pc[r] = "fetch" => want[r] \in available

Inv == TypeOK /\ \A r \in Readers : Bounded(r) /\ Asked(r)

Tables == UNION {[D -> Status] : D \in SUBSET Blocks}

-----------------------------------------------------------------------------
(* Blocks and tables of requests. *)

LEMMA BlockCount ==
    /\ TotalBlockCount \in Nat
    /\ Blocks \subseteq Nat
    /\ \A b \in Blocks : 0 <= b /\ b < TotalBlockCount
<1>1. ASSUME NEW m \in Nat, NEW n \in Nat \ {0} PROVE m \div n \in Nat
  BY <1>1
<1>2. SectorCount + SectorsPerBlock - 1 \in Nat
  BY ReaderAssumption
<1>3. TotalBlockCount \in Nat
  BY <1>1, <1>2, ReaderAssumption DEF TotalBlockCount
<1> QED
  BY <1>3 DEF Blocks

LEMMA TablesAre ==
    ASSUME NEW t, DOMAIN t \subseteq Blocks, t = [b \in DOMAIN t |-> t[b]],
           \A b \in DOMAIN t : t[b] \in Status
    PROVE  t \in Tables
  BY DEF Tables

LEMMA TableIs ==
    ASSUME NEW t \in Tables
    PROVE  /\ DOMAIN t \subseteq Blocks /\ t = [b \in DOMAIN t |-> t[b]]
           /\ \A b \in DOMAIN t : t[b] \in Status
  BY DEF Tables

\* The number of blocks that determineReadAheadBlocks asks for.
LEMMA ReadAheadIsNat ==
    ASSUME NEW r, NEW b
    PROVE  DetermineReadAheadBlocks(r, b) \in Nat
<1> DEFINE looked == 0 .. (MaxReadAheadBlocks + 1) \div 2 - 1
           requested == {i \in looked :
                            \A j \in 0 .. i : HasBlockBeenRequested(r, b + j)}
<1>1. IsFiniteSet(looked)
  <2>1. (MaxReadAheadBlocks + 1) \div 2 - 1 \in Int
    BY ReaderAssumption
  <2> QED
    BY <2>1, FS_Interval
<1>2. requested \in SUBSET looked
  OBVIOUS
<1>3. Cardinality(requested) \in Nat
  <2> HIDE DEF requested, looked
  <2> QED
    BY <1>1, <1>2, FS_Subset, FS_CardinalityType
<1>4. DetermineReadAheadBlocks(r, b) = IF requested = looked THEN MaxReadAheadBlocks
                                       ELSE 2 * Cardinality(requested)
  BY DEF DetermineReadAheadBlocks
<1> HIDE DEF requested, looked
<1> QED
  BY <1>3, <1>4, ReaderAssumption

\* The read-ahead stays within the device.
LEMMA ReadAheadWithin ==
    ASSUME NEW r, NEW b \in Blocks
    PROVE  LastReadAhead(r, b) \in -1 .. TotalBlockCount - 1
  BY ReadAheadIsNat, BlockCount DEF LastReadAhead

\* A request is added to a table, or leaves it, or is answered.
LEMMA Requested ==
    ASSUME requestsInFlight \in [Readers -> Tables], NEW r \in Readers, NEW b \in Blocks
    PROVE  /\ WithRequest(r, b) \in Tables
           /\ DOMAIN WithRequest(r, b) = InFlight(r) \cup {b}
<1>1. /\ InFlight(r) \subseteq Blocks
      /\ \A c \in InFlight(r) : requestsInFlight[r][c] \in Status
  BY TableIs DEF InFlight
<1>2. WithRequest(r, b) \in [InFlight(r) \cup {b} -> Status]
  BY <1>1 DEF WithRequest, Status
<1> QED
  BY <1>1, <1>2 DEF Tables

LEMMA Settled ==
    ASSUME requestsInFlight \in [Readers -> Tables], NEW r \in Readers, NEW b
    PROVE  /\ WithoutRequest(r, b) \in Tables
           /\ DOMAIN WithoutRequest(r, b) = InFlight(r) \ {b}
<1>1. /\ InFlight(r) \subseteq Blocks
      /\ \A c \in InFlight(r) : requestsInFlight[r][c] \in Status
  BY TableIs DEF InFlight
<1>2. WithoutRequest(r, b) \in [InFlight(r) \ {b} -> Status]
  BY <1>1 DEF WithoutRequest
<1> QED
  BY <1>1, <1>2 DEF Tables

LEMMA TypesOfTables == TypeOK => requestsInFlight \in [Readers -> Tables]
  BY DEF TypeOK, Tables

LEMMA OneMore ==
    ASSUME NEW S, IsFiniteSet(S), Cardinality(S) < MaxRequestsInFlight, NEW x,
           NEW T, T = S \cup {x}
    PROVE  IsFiniteSet(T) /\ Cardinality(T) <= MaxRequestsInFlight
<1>1. Cardinality(S) \in Nat
  BY FS_CardinalityType
<1>2. IsFiniteSet(T) /\ Cardinality(T) \in {Cardinality(S), Cardinality(S) + 1}
  BY FS_AddElement
<1> QED
  BY <1>1, <1>2, ReaderAssumption

LEMMA OneLess ==
    ASSUME NEW S, IsFiniteSet(S), Cardinality(S) <= MaxRequestsInFlight, NEW x,
           NEW T, T = S \ {x}
    PROVE  IsFiniteSet(T) /\ Cardinality(T) <= MaxRequestsInFlight
<1>1. Cardinality(S) \in Nat /\ T \in SUBSET S
  BY FS_CardinalityType
<1>2. IsFiniteSet(T) /\ Cardinality(T) <= Cardinality(S) /\ Cardinality(T) \in Nat
  BY <1>1, FS_Subset, FS_CardinalityType
<1> QED
  BY <1>1, <1>2, ReaderAssumption

\* The readers that do not act.
LEMMA OthersKeep ==
    ASSUME Inv, NEW q \in Readers, pc'[q] = pc[q], want'[q] = want[q],
           requestsInFlight'[q] = requestsInFlight[q], available \subseteq available'
    PROVE  Bounded(q)' /\ Asked(q)'
  BY DEF Inv, Bounded, Asked, InFlight

LEMMA InitInv == Init => Inv
<1> SUFFICES ASSUME Init PROVE Inv
  OBVIOUS
<1>1. NoRequests \in Tables /\ DOMAIN NoRequests = {}
  <2>1. NoRequests \in [{} -> Status] /\ {} \in SUBSET Blocks
    BY DEF NoRequests
  <2> QED
    BY <2>1 DEF Tables, NoRequests
<1>2. TypeOK
  BY <1>1, BlockCount DEF Init, TypeOK, Labels, Tables
<1>3. ASSUME NEW r \in Readers PROVE Bounded(r) /\ Asked(r)
  <2>1. InFlight(r) = {} /\ pc[r] = "idle"
    BY <1>1 DEF Init, InFlight
  <2> QED
    BY <2>1, FS_EmptySet, ReaderAssumption DEF Bounded, Asked
<1> QED
  BY <1>2, <1>3 DEF Inv

-----------------------------------------------------------------------------
(* Steps that leave the tables of requests alone. *)

LEMMA KeepingTables ==
    ASSUME Inv, NEW r \in Readers, TypeOK',
           requestsInFlight' = requestsInFlight, available' = available,
           \A q \in Readers \ {r} : pc'[q] = pc[q] /\ want'[q] = want[q],
           pc'[r] = "send" => Cardinality(InFlight(r)) < MaxRequestsInFlight,
           pc'[r] \in {"plan", "drain", "scan", "wait", "collect"} =>
               want'[r] \in InFlight(r) \/ want'[r] \in available,
           pc'[r] = "fetch" => want'[r] \in available
    PROVE  Inv'
<1>1. ASSUME NEW q \in Readers, q # r PROVE Bounded(q)' /\ Asked(q)'
  BY <1>1, OthersKeep
<1>2. Bounded(r)' /\ Asked(r)'
  BY DEF Inv, Bounded, Asked, InFlight
<1> QED
  BY <1>1, <1>2 DEF Inv

LEMMA RetrieveBlockInv ==
    ASSUME Inv, NEW r \in Readers, NEW b \in Blocks, RetrieveBlock(r, b)
    PROVE  Inv'
<1>1. TypeOK'
  BY BlockCount DEF Inv, TypeOK, RetrieveBlock, Goto, Labels
<1>2. /\ pc'[r] = IF b \in available THEN "fetch" ELSE "claim"
      /\ want'[r] = b
      /\ \A q \in Readers \ {r} : pc'[q] = pc[q] /\ want'[q] = want[q]
  BY DEF Inv, TypeOK, RetrieveBlock, Goto
<1> QED
  BY <1>1, <1>2, KeepingTables DEF RetrieveBlock

LEMMA ReturnInv ==
    ASSUME Inv, NEW r \in Readers, Return(r), UNCHANGED <<available, requestsInFlight>>
    PROVE  Inv'
<1>1. TypeOK'
  BY BlockCount DEF Inv, TypeOK, Return, Labels
<1>2. /\ pc'[r] = "idle"
      /\ \A q \in Readers \ {r} : pc'[q] = pc[q] /\ want'[q] = want[q]
  BY DEF Inv, TypeOK, Return
<1> QED
  BY <1>1, <1>2, KeepingTables

LEMMA MovesInv ==
    ASSUME Inv, NEW r \in Readers,
           \/ Claim(r) \/ SlotIsFree(r) \/ PlanReadAhead(r) \/ StartScan(r)
           \/ StopScan(r) \/ Collected(r) \/ WaitIsOver(r)
    PROVE  Inv'
<1>1. UNCHANGED <<available, requestsInFlight, want>>
  BY DEF Claim, SlotIsFree, PlanReadAhead, StartScan, StopScan, Collected, WaitIsOver
<1>2. pc[r] # "idle"
  BY DEF Claim, SlotIsFree, PlanReadAhead, StartScan, StopScan, Collected,
         WaitIsOver, Goto
<1>3. /\ Bounded(r) /\ Asked(r) /\ TypeOK /\ want[r] \in Blocks
  BY <1>2 DEF Inv, TypeOK
<1>4. PICK there \in Labels \ {"idle"} : pc' = [pc EXCEPT ![r] = there]
  BY DEF Claim, SlotIsFree, PlanReadAhead, StartScan, StopScan, Collected,
         WaitIsOver, Goto, Labels
<1>5. /\ pc'[r] = there
      /\ \A q \in Readers \ {r} : pc'[q] = pc[q] /\ want'[q] = want[q]
  BY <1>1, <1>3, <1>4 DEF TypeOK
<1>6. lastBlock' \in [Readers -> (-1 .. TotalBlockCount - 1) \cup {0}]
  BY <1>3, ReadAheadWithin DEF Claim, SlotIsFree, PlanReadAhead, StartScan,
     StopScan, Collected, WaitIsOver, TypeOK
<1>7. nextBlock' \in [Readers -> 0 .. TotalBlockCount]
  BY <1>3, BlockCount DEF Claim, SlotIsFree, PlanReadAhead, StartScan,
     StopScan, Collected, WaitIsOver, TypeOK
<1>8. TypeOK'
  BY <1>1, <1>3, <1>4, <1>5, <1>6, <1>7 DEF TypeOK
<1>9. Cardinality(InFlight(r)) \in Nat
  BY <1>3, FS_CardinalityType DEF Bounded
<1>10. pc'[r] = "send" => Cardinality(InFlight(r)) < MaxRequestsInFlight
  BY <1>3, <1>9, ReaderAssumption DEF Bounded, TypeOK, Claim, SlotIsFree,
     PlanReadAhead, StartScan, StopScan, Collected, WaitIsOver, Goto,
     HasMaxRequestsInFlight
<1>11. pc'[r] \in {"plan", "drain", "scan", "wait", "collect"} =>
           want[r] \in InFlight(r) \/ want[r] \in available
  BY <1>3 DEF Asked, TypeOK, Claim, SlotIsFree, PlanReadAhead, StartScan,
     StopScan, Collected, WaitIsOver, Goto, HasBlockBeenRequested
<1>12. pc'[r] = "fetch" => want[r] \in available
  BY <1>3 DEF Asked, TypeOK, Claim, SlotIsFree, PlanReadAhead, StartScan,
     StopScan, Collected, WaitIsOver, Goto
<1> QED
  BY <1>1, <1>5, <1>8, <1>10, <1>11, <1>12, KeepingTables

-----------------------------------------------------------------------------
(* Steps that change the table of the reader. *)

LEMMA ChangingTable ==
    ASSUME Inv, NEW r \in Readers, NEW t \in Tables,
           requestsInFlight' = [requestsInFlight EXCEPT ![r] = t],
           available \subseteq available', available' \in SUBSET Blocks,
           pc' \in [Readers -> Labels], want' \in [Readers -> Nat],
           pc'[r] # "idle" => want'[r] \in Blocks,
           lastBlock' \in [Readers -> (-1 .. TotalBlockCount - 1) \cup {0}],
           nextBlock' \in [Readers -> 0 .. TotalBlockCount],
           \A q \in Readers \ {r} : pc'[q] = pc[q] /\ want'[q] = want[q],
           IsFiniteSet(DOMAIN t), Cardinality(DOMAIN t) <= MaxRequestsInFlight,
           pc'[r] # "send",
           pc'[r] \in {"plan", "drain", "scan", "wait", "collect"} =>
               want'[r] \in DOMAIN t \/ want'[r] \in available',
           pc'[r] # "fetch"
    PROVE  Inv'
<1>1. requestsInFlight \in [Readers -> Tables] /\ TypeOK
  BY TypesOfTables DEF Inv
<1>2. /\ requestsInFlight'[r] = t
      /\ requestsInFlight' \in [Readers -> Tables]
      /\ \A q \in Readers \ {r} : requestsInFlight'[q] = requestsInFlight[q]
  BY <1>1
<1>3. ASSUME NEW q \in Readers, q # r PROVE Bounded(q)' /\ Asked(q)'
  BY <1>2, <1>3, OthersKeep
<1>4. Bounded(r)' /\ Asked(r)'
  BY <1>2 DEF Bounded, Asked, InFlight
<1>5. \A q \in Readers : pc'[q] # "idle" => want'[q] \in Blocks
  BY <1>1 DEF TypeOK
<1>6. TypeOK'
  BY <1>2, <1>5 DEF TypeOK, Tables
<1> QED
  BY <1>3, <1>4, <1>6 DEF Inv

LEMMA SendDemandInv ==
    ASSUME Inv, NEW r \in Readers, SendDemand(r)
    PROVE  Inv'
<1>1. /\ TypeOK /\ requestsInFlight \in [Readers -> Tables] /\ want[r] \in Blocks
      /\ Bounded(r)
  BY TypesOfTables DEF Inv, TypeOK, SendDemand, Goto
<1>2. PICK t : t = WithRequest(r, want[r])
  OBVIOUS
<1>3. t \in Tables /\ DOMAIN t = InFlight(r) \cup {want[r]}
  BY <1>1, <1>2, Requested
<1>4. /\ Cardinality(InFlight(r)) < MaxRequestsInFlight
      /\ IsFiniteSet(InFlight(r)) /\ Cardinality(InFlight(r)) \in Nat
  BY <1>1, FS_CardinalityType DEF Bounded, SendDemand, Goto
<1>5. IsFiniteSet(DOMAIN t) /\ Cardinality(DOMAIN t) <= MaxRequestsInFlight
  BY <1>3, <1>4, OneMore
<1>6. /\ pc' = [pc EXCEPT ![r] = "plan"] /\ want' = want /\ available' = available
      /\ lastBlock' = lastBlock /\ nextBlock' = nextBlock
      /\ requestsInFlight' = [requestsInFlight EXCEPT ![r] = t]
  BY <1>2 DEF SendDemand, Goto
<1>7. /\ pc' \in [Readers -> Labels] /\ pc'[r] = "plan"
      /\ \A q \in Readers \ {r} : pc'[q] = pc[q]
  BY <1>1, <1>6 DEF TypeOK, Labels
<1>8. /\ available' \in SUBSET Blocks /\ want' \in [Readers -> Nat]
      /\ want'[r] \in Blocks /\ want'[r] \in DOMAIN t
      /\ lastBlock' \in [Readers -> (-1 .. TotalBlockCount - 1) \cup {0}]
      /\ nextBlock' \in [Readers -> 0 .. TotalBlockCount]
  BY <1>1, <1>3, <1>6 DEF TypeOK
<1> QED
  BY <1>3, <1>5, <1>6, <1>7, <1>8, ChangingTable

LEMMA ScanInv ==
    ASSUME Inv, NEW r \in Readers, Scan(r)
    PROVE  Inv'
<1>1. /\ TypeOK /\ requestsInFlight \in [Readers -> Tables] /\ want[r] \in Blocks
      /\ Bounded(r) /\ Asked(r) /\ pc[r] = "scan"
  BY TypesOfTables DEF Inv, TypeOK, Scan
<1>2. nextBlock[r] \in Blocks /\ nextBlock[r] + 1 \in 0 .. TotalBlockCount
  BY <1>1, BlockCount DEF Scan, TypeOK, Blocks
<1>3. PICK t : t = IF HasBlockBeenRequested(r, nextBlock[r]) THEN requestsInFlight[r]
                   ELSE WithRequest(r, nextBlock[r])
  OBVIOUS
<1>4. t \in Tables /\ InFlight(r) \subseteq DOMAIN t
      /\ DOMAIN t \in {InFlight(r), InFlight(r) \cup {nextBlock[r]}}
  BY <1>1, <1>2, <1>3, Requested DEF InFlight
<1>5. /\ Cardinality(InFlight(r)) < MaxRequestsInFlight
      /\ IsFiniteSet(InFlight(r)) /\ Cardinality(InFlight(r)) \in Nat
  BY <1>1, FS_CardinalityType, ReaderAssumption DEF Bounded, Scan, HasMaxRequestsInFlight
<1>6. IsFiniteSet(DOMAIN t) /\ Cardinality(DOMAIN t) <= MaxRequestsInFlight
  BY <1>4, <1>5, FS_AddElement, ReaderAssumption
<1>7. requestsInFlight' = [requestsInFlight EXCEPT ![r] = t]
  BY <1>1, <1>3 DEF Scan
<1>8. nextBlock' \in [Readers -> 0 .. TotalBlockCount]
  BY <1>1, <1>2 DEF Scan, TypeOK
<1>9. UNCHANGED <<available, pc, want, lastBlock>>
  BY DEF Scan
<1>10. want[r] \in DOMAIN t \/ want[r] \in available
  BY <1>1, <1>4 DEF Asked
<1>11. /\ available' = available /\ available' \in SUBSET Blocks
       /\ pc' = pc /\ pc' \in [Readers -> Labels] /\ pc'[r] = "scan"
       /\ want' = want /\ want' \in [Readers -> Nat] /\ want'[r] \in Blocks
       /\ lastBlock' \in [Readers -> (-1 .. TotalBlockCount - 1) \cup {0}]
  BY <1>1, <1>9 DEF TypeOK
<1> QED
  BY <1>4, <1>6, <1>7, <1>8, <1>10, <1>11, ChangingTable

LEMMA CompleteInv ==
    ASSUME Inv, NEW r \in Readers, NEW b \in Blocks,
           CompleteRequest(r, b) \/ CompleteFails(r, b)
    PROVE  Inv'
<1>1. /\ TypeOK /\ requestsInFlight \in [Readers -> Tables]
      /\ Bounded(r) /\ Asked(r) /\ pc[r] \in {"slot", "drain", "collect"}
  BY TypesOfTables DEF Inv, CompleteRequest, CompleteFails, Completing
<1>2. PICK t : t = WithoutRequest(r, b)
  OBVIOUS
<1>3. t \in Tables /\ DOMAIN t = InFlight(r) \ {b}
  BY <1>1, <1>2, Settled
<1>4. IsFiniteSet(DOMAIN t) /\ Cardinality(DOMAIN t) <= MaxRequestsInFlight
  BY <1>1, <1>3, OneLess DEF Bounded
<1>5. requestsInFlight' = [requestsInFlight EXCEPT ![r] = t]
  BY <1>2 DEF CompleteRequest, CompleteFails
<1>6. CASE CompleteRequest(r, b)
  <2>1. /\ UNCHANGED <<pc, want, lastBlock, nextBlock>>
        /\ available' = available \cup {b}
    BY <1>6 DEF CompleteRequest
  <2>2. pc'[r] \in {"plan", "drain", "scan", "wait", "collect"} =>
            want'[r] \in DOMAIN t \/ want'[r] \in available'
    BY <1>1, <1>3, <2>1 DEF Asked
  <2>3. pc'[r] # "send" /\ pc'[r] # "fetch" /\ want'[r] \in Blocks
    BY <1>1, <2>1 DEF TypeOK
  <2> QED
    BY <1>1, <1>3, <1>4, <1>5, <2>1, <2>2, <2>3, ChangingTable DEF TypeOK
<1>7. CASE CompleteFails(r, b)
  <2>1. Return(r) /\ available' = available
    BY <1>7 DEF CompleteFails
  <2>2. /\ pc' \in [Readers -> Labels] /\ want' \in [Readers -> Nat]
        /\ lastBlock' \in [Readers -> (-1 .. TotalBlockCount - 1) \cup {0}]
        /\ nextBlock' \in [Readers -> 0 .. TotalBlockCount]
        /\ pc'[r] = "idle"
        /\ \A q \in Readers \ {r} : pc'[q] = pc[q] /\ want'[q] = want[q]
    BY <1>1, <2>1, BlockCount DEF Return, TypeOK, Labels
  <2> QED
    BY <1>1, <1>3, <1>4, <1>5, <2>1, <2>2, ChangingTable DEF TypeOK
<1> QED
  BY <1>6, <1>7

LEMMA SyncInv ==
    ASSUME Inv, NEW r \in Readers, NEW answered \in SUBSET Pending(r),
           Sync(r, answered)
    PROVE  Inv'
<1>1. /\ TypeOK /\ requestsInFlight \in [Readers -> Tables]
      /\ Bounded(r) /\ Asked(r) /\ pc[r] \in {"slot", "wait"}
  BY TypesOfTables DEF Inv, Sync, Syncing
<1>2. PICK answer \in [answered -> Status \ {"pending"}] :
          requestsInFlight' = [requestsInFlight EXCEPT ![r] =
              [b \in InFlight(r) |->
                  IF b \in answered THEN answer[b] ELSE requestsInFlight[r][b]]]
  BY <1>1 DEF Sync
<1>3. PICK t : t = [b \in InFlight(r) |->
                  IF b \in answered THEN answer[b] ELSE requestsInFlight[r][b]]
  OBVIOUS
<1>4. InFlight(r) \subseteq Blocks /\ \A b \in InFlight(r) : requestsInFlight[r][b] \in Status
  BY <1>1, TableIs DEF InFlight
<1>5. t \in [InFlight(r) -> Status]
  BY <1>3, <1>4
<1>6. t \in Tables /\ DOMAIN t = InFlight(r)
  BY <1>4, <1>5 DEF Tables
<1>7. /\ requestsInFlight' = [requestsInFlight EXCEPT ![r] = t]
      /\ UNCHANGED <<available, want, lastBlock, nextBlock>>
  BY <1>2, <1>3 DEF Sync
<1>8. /\ pc' \in [Readers -> Labels] /\ pc'[r] \in {"slot", "collect"}
      /\ pc'[r] = "collect" => pc[r] = "wait"
      /\ \A q \in Readers \ {r} : pc'[q] = pc[q]
  BY <1>1 DEF Sync, TypeOK, Labels
<1>9. pc'[r] \in {"plan", "drain", "scan", "wait", "collect"} =>
          want'[r] \in DOMAIN t \/ want'[r] \in available'
  BY <1>1, <1>6, <1>7, <1>8 DEF Asked
<1>10. IsFiniteSet(DOMAIN t) /\ Cardinality(DOMAIN t) <= MaxRequestsInFlight
  BY <1>1, <1>6 DEF Bounded
<1>11. want'[r] \in Blocks
  BY <1>1, <1>7 DEF TypeOK
<1> QED
  BY <1>1, <1>6, <1>7, <1>8, <1>9, <1>10, <1>11, ChangingTable DEF TypeOK

LEMMA ReopenInv ==
    ASSUME Inv, NEW r \in Readers, Reopen(r)
    PROVE  Inv'
<1>1. NoRequests \in Tables /\ DOMAIN NoRequests = {}
  <2>1. NoRequests \in [{} -> Status] /\ {} \in SUBSET Blocks
    BY DEF NoRequests
  <2> QED
    BY <2>1 DEF Tables, NoRequests
<1>2. IsFiniteSet(DOMAIN NoRequests) /\ Cardinality(DOMAIN NoRequests) <= MaxRequestsInFlight
  BY <1>1, FS_EmptySet, ReaderAssumption
<1>3. /\ UNCHANGED <<available, pc, want, lastBlock, nextBlock>> /\ pc[r] = "idle"
      /\ requestsInFlight' = [requestsInFlight EXCEPT ![r] = NoRequests]
  BY DEF Reopen
<1>4. /\ available' = available /\ available' \in SUBSET Blocks
      /\ pc' = pc /\ pc' \in [Readers -> Labels] /\ pc'[r] = "idle"
      /\ want' = want /\ want' \in [Readers -> Nat]
      /\ lastBlock' \in [Readers -> (-1 .. TotalBlockCount - 1) \cup {0}]
      /\ nextBlock' \in [Readers -> 0 .. TotalBlockCount]
  BY <1>3 DEF Inv, TypeOK
<1> QED
  BY <1>1, <1>2, <1>3, <1>4, ChangingTable

-----------------------------------------------------------------------------

LEMMA NextInv == Inv /\ [Next]_vars => Inv'
<1> SUFFICES ASSUME Inv, [Next]_vars PROVE Inv'
  OBVIOUS
<1>1. CASE UNCHANGED vars
  BY <1>1 DEF vars, Inv, TypeOK, Bounded, Asked, InFlight
<1>2. ASSUME NEW r \in Readers, Step(r) PROVE Inv'
  <2>1. CASE SendFails(r) \/ Fetch(r)
    BY <2>1, ReturnInv DEF SendFails, Fetch
  <2> QED
    BY <1>2, <2>1, MovesInv, SendDemandInv, ScanInv, CompleteInv DEF Step
<1>3. ASSUME NEW r \in Readers, SyncFails(r) PROVE Inv'
  BY <1>3, ReturnInv DEF SyncFails
<1> QED
  BY <1>1, <1>2, <1>3, RetrieveBlockInv, SyncInv, ReopenInv DEF Next

LEMMA AlwaysInv == Spec => []Inv
  BY InitInv, NextInv, PTL DEF Spec

(***************************************************************************)
(* Every variable of the readers holds values of its kind, for every       *)
(* device and limit; no request is for a block outside the device.         *)
(***************************************************************************)
THEOREM TypeCorrect == Spec => []TypeOK
<1>1. Inv => TypeOK
  BY DEF Inv
<1> QED
  BY <1>1, AlwaysInv, PTL

(***************************************************************************)
(* A call of retrieveBlock that no exception ended finds its block in the  *)
(* evidence store, whatever was answered, failed or stored by others.      *)
(***************************************************************************)
THEOREM BlockIsAvailable == Spec => []AvailableOnFetch
<1>1. Inv => AvailableOnFetch
  BY DEF Inv, Asked, AvailableOnFetch
<1> QED
  BY <1>1, AlwaysInv, PTL

(***************************************************************************)
(* No reader ever has more than MAX_REQUESTS_IN_FLIGHT requests.           *)
(***************************************************************************)
THEOREM LimitKept == Spec => []InFlightWithinLimit
<1>1. Inv => InFlightWithinLimit
  BY DEF Inv, Bounded, InFlightWithinLimit
<1> QED
  BY <1>1, AlwaysInv, PTL

(***************************************************************************)
(* A request leaves a table only into the evidence store, or alone and     *)
(* with the exception that ends the call, or with its connection.          *)
(***************************************************************************)
THEOREM NoRequestVanishes == Spec => RequestsSettled
<1> DEFINE Gone(q) == InFlight(q) \ InFlight(q)'
           Kept(q) == \/ Gone(q) \subseteq available'
                      \/ Cardinality(Gone(q)) = 1 /\ pc[q] # "idle" /\ pc'[q] = "idle"
                      \/ Reopen(q)
<1>1. ASSUME Inv, [Next]_vars, NEW q \in Readers
      PROVE  Kept(q)
  <2>1. requestsInFlight \in [Readers -> Tables] /\ pc \in [Readers -> Labels]
    BY <1>1, TypesOfTables DEF Inv, TypeOK
  <2>2. CASE requestsInFlight'[q] = requestsInFlight[q]
    BY <2>2 DEF InFlight
  <2>3. ASSUME NEW r \in Readers, r # q, NEW t,
               requestsInFlight' = [requestsInFlight EXCEPT ![r] = t]
        PROVE  Kept(q)
    BY <2>1, <2>2, <2>3
  <2>4. ASSUME NEW t, requestsInFlight' = [requestsInFlight EXCEPT ![q] = t],
               InFlight(q) \subseteq DOMAIN t
        PROVE  Kept(q)
    BY <2>1, <2>4 DEF InFlight
  <2>5. ASSUME NEW r \in Readers, Step(r) PROVE Kept(q)
    <3>1. CASE requestsInFlight' = requestsInFlight
      BY <2>2, <3>1
    <3>2. CASE SendDemand(r)
      <4>1. PICK t : t = WithRequest(r, want[r])
        OBVIOUS
      <4>2. requestsInFlight' = [requestsInFlight EXCEPT ![r] = t]
        BY <3>2, <4>1 DEF SendDemand
      <4>3. InFlight(r) \subseteq DOMAIN t
        BY <4>1 DEF WithRequest
      <4> QED
        BY <2>3, <2>4, <4>2, <4>3
    <3>3. CASE Scan(r) /\ ~HasBlockBeenRequested(r, nextBlock[r])
      <4>1. PICK t : t = WithRequest(r, nextBlock[r])
        OBVIOUS
      <4>2. requestsInFlight' = [requestsInFlight EXCEPT ![r] = t]
        BY <3>3, <4>1 DEF Scan
      <4>3. InFlight(r) \subseteq DOMAIN t
        BY <4>1 DEF WithRequest
      <4> QED
        BY <2>3, <2>4, <4>2, <4>3
    <3>4. ASSUME NEW b \in Blocks, CompleteRequest(r, b) \/ CompleteFails(r, b)
          PROVE  Kept(q)
      <4>1. PICK t : t = WithoutRequest(r, b)
        OBVIOUS
      <4>2. requestsInFlight' = [requestsInFlight EXCEPT ![r] = t]
        BY <3>4, <4>1 DEF CompleteRequest, CompleteFails
      <4>3. DOMAIN t = InFlight(r) \ {b} /\ b \in InFlight(r)
        BY <3>4, <4>1 DEF WithoutRequest, CompleteRequest, CompleteFails, Done
      <4>4. CASE r = q
        <5>1. Gone(q) = {b}
          BY <2>1, <4>2, <4>3, <4>4 DEF InFlight
        <5>2. CASE CompleteRequest(r, b)
          BY <5>1, <5>2 DEF CompleteRequest
        <5>3. CASE CompleteFails(r, b)
          <6>1. Cardinality(Gone(q)) = 1
            BY <5>1, FS_Singleton
          <6>2. pc[q] # "idle" /\ pc'[q] = "idle"
            BY <2>1, <4>4, <5>3 DEF CompleteFails, Completing, Return
          <6> QED
            BY <6>1, <6>2
        <5> QED
          BY <3>4, <5>2, <5>3
      <4> QED
        BY <2>3, <4>2, <4>4
    <3> HIDE DEF Kept
    <3> QED
      BY <2>5, <3>1, <3>2, <3>3, <3>4 DEF Step, Claim, SlotIsFree, PlanReadAhead,
         StartScan, Scan, StopScan, SendFails, Collected, WaitIsOver, Fetch
  <2>6. ASSUME NEW r \in Readers, NEW answered \in SUBSET Pending(r), Sync(r, answered)
        PROVE  Kept(q)
    <3>1. PICK answer \in [answered -> Status \ {"pending"}] :
              requestsInFlight' = [requestsInFlight EXCEPT ![r] =
                  [b \in InFlight(r) |->
                      IF b \in answered THEN answer[b] ELSE requestsInFlight[r][b]]]
      BY <2>1, <2>6 DEF Sync
    <3>2. PICK t : t = [b \in InFlight(r) |->
                      IF b \in answered THEN answer[b] ELSE requestsInFlight[r][b]]
      OBVIOUS
    <3>3. requestsInFlight' = [requestsInFlight EXCEPT ![r] = t] /\ DOMAIN t = InFlight(r)
      BY <3>1, <3>2
    <3> HIDE DEF Kept
    <3> QED
      BY <2>3, <2>4, <3>3
  <2>7. ASSUME NEW r \in Readers, Reopen(r) PROVE Kept(q)
    BY <2>3, <2>7 DEF Reopen
  <2>8. CASE UNCHANGED vars
    BY <2>2, <2>8 DEF vars
  <2> HIDE DEF Kept
  <2> QED
    BY <1>1, <2>2, <2>5, <2>6, <2>7, <2>8 DEF Next, RetrieveBlock, SyncFails
<1>2. Inv /\ [Next]_vars =>
          [\A r \in Readers :
              LET gone == InFlight(r) \ InFlight(r)'
              IN  \/ gone \subseteq available'
                  \/ Cardinality(gone) = 1 /\ pc[r] # "idle" /\ pc'[r] = "idle"
                  \/ Reopen(r)]_vars
  BY <1>1
<1> QED
  BY <1>2, AlwaysInv, PTL DEF Spec, RequestsSettled

=============================================================================
