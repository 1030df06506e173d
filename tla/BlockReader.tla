---------------------------- MODULE BlockReader ----------------------------
(***************************************************************************)
(* Reading blocks of a remote device over iSCSI with read-ahead            *)
(* (org.raqet.iscsi.IScsiBlockReader).                                     *)
(*                                                                         *)
(* Each reader is used by one thread and has a connection and a table of   *)
(* requests in flight of its own.  The readers of one device share the     *)
(* bitmap of its evidence store, which each of them looks at without a     *)
(* lock, so every test of it is a step of its own; one step stands for the *)
(* tests of determineReadAheadBlocks because the bitmap only grows: the    *)
(* last of them sees what the others saw.  The answers of the target       *)
(* arrive in any order, and only while a reader runs libiscsi's event loop *)
(* in sync.                                                                *)
(***************************************************************************)
EXTENDS Integers, FiniteSets

CONSTANTS
    Readers,               \* block readers of the device
    SectorCount,           \* _maxLogicalBlockAddress: sectors of the device
    SectorsPerBlock,       \* _iScsiBlocksPerReadRequest
    MaxRequestsInFlight,   \* MAX_REQUESTS_IN_FLIGHT
    MaxReadAheadBlocks,    \* MAX_READ_AHEAD_BLOCKS
    IntLimit,              \* a Java int ranges over -IntLimit .. IntLimit - 1
    Faults                 \* what may go wrong

TotalBlockCount == (SectorCount + SectorsPerBlock - 1) \div SectorsPerBlock
Blocks == 0 .. TotalBlockCount - 1

ASSUME ReaderAssumption ==
    /\ SectorCount \in Nat
    /\ SectorsPerBlock \in Nat \ {0}
    /\ MaxRequestsInFlight \in Nat \ {0}
    /\ MaxReadAheadBlocks \in Nat \ {0}
    /\ IntLimit \in Nat \ {0}
    /\ Faults \subseteq {"read", "service", "send", "store"}

VARIABLES
    available,         \* the evidence store's bitmap, shared by the readers
    pc,                \* where each reader is in retrieveBlock
    want,              \* the block it is asked for
    requestsInFlight,  \* its requests: block -> pending, good or failed
    lastBlock,         \* the last block of the read-ahead it planned
    nextBlock          \* the next block its read-ahead looks at

vars == <<available, pc, want, requestsInFlight, lastBlock, nextBlock>>

Status == {"pending", "good", "failed"}
Labels == {"idle", "claim", "slot", "send", "plan", "drain", "scan", "wait",
           "collect", "fetch"}
NoRequests == [b \in {} |-> "pending"]

InFlight(r) == DOMAIN requestsInFlight[r]
Done(r) == {b \in InFlight(r) : requestsInFlight[r][b] # "pending"}
HasMaxRequestsInFlight(r) == Cardinality(InFlight(r)) >= MaxRequestsInFlight
HasBlockBeenRequested(r, b) == b \in InFlight(r) \/ b \in available

\* The value of an int expression whose mathematical value is n.
ToInt(n) == ((n + IntLimit) % (2 * IntLimit)) - IntLimit

\* First sector of a block, computed in int; a request below zero is refused.
Lba(b) == ToInt(b * SectorsPerBlock)

\* The store may be one that earlier readers, or an earlier run, have filled.
Init ==
    /\ available \in SUBSET Blocks
    /\ pc = [r \in Readers |-> "idle"]
    /\ want = [r \in Readers |-> 0]
    /\ requestsInFlight = [r \in Readers |-> NoRequests]
    /\ lastBlock = [r \in Readers |-> 0]
    /\ nextBlock = [r \in Readers |-> 0]

\* Reader r goes from one place in retrieveBlock to another.
Goto(r, here, there) ==
    /\ pc[r] = here
    /\ pc' = [pc EXCEPT ![r] = there]

\* retrieveBlock leaves r with an exception or with the block.
Return(r) ==
    /\ pc' = [pc EXCEPT ![r] = "idle"]
    /\ want' = [want EXCEPT ![r] = 0]
    /\ lastBlock' = [lastBlock EXCEPT ![r] = 0]
    /\ nextBlock' = [nextBlock EXCEPT ![r] = 0]

\* The requests of r with block b added, answered or taken out.
WithRequest(r, b) ==
    [c \in InFlight(r) \cup {b} |->
        IF c = b THEN "pending" ELSE requestsInFlight[r][c]]
WithoutRequest(r, b) == [c \in InFlight(r) \ {b} |-> requestsInFlight[r][c]]

-----------------------------------------------------------------------------
\* retrieveBlock is called and looks into the store.
RetrieveBlock(r, b) ==
    /\ Goto(r, "idle", IF b \in available THEN "fetch" ELSE "claim")
    /\ want' = [want EXCEPT ![r] = b]
    /\ UNCHANGED <<available, requestsInFlight, lastBlock, nextBlock>>

\* The block is not in the store: has it been requested, is a slot free?
Claim(r) ==
    /\ Goto(r, "claim",
            CASE HasBlockBeenRequested(r, want[r]) -> "plan"
              [] HasMaxRequestsInFlight(r) -> "slot"
              [] OTHER -> "send")
    /\ UNCHANGED <<available, want, requestsInFlight, lastBlock, nextBlock>>

\* waitForFreeSlot ends: everything done was completed and a slot is free.
SlotIsFree(r) ==
    /\ Done(r) = {}
    /\ ~HasMaxRequestsInFlight(r)
    /\ Goto(r, "slot", "send")
    /\ UNCHANGED <<available, want, requestsInFlight, lastBlock, nextBlock>>

\* requestBlock for the block asked for.
SendDemand(r) ==
    /\ Goto(r, "send", "plan")
    /\ Lba(want[r]) >= 0
    /\ requestsInFlight' =
           [requestsInFlight EXCEPT ![r] = WithRequest(r, want[r])]
    /\ UNCHANGED <<available, want, lastBlock, nextBlock>>

\* determineReadAheadBlocks: how many blocks from b on have been requested,
\* of those its loop looks at, half the maximum.
DetermineReadAheadBlocks(r, b) ==
    LET looked == 0 .. (MaxReadAheadBlocks + 1) \div 2 - 1
        requested == {i \in looked :
                         \A j \in 0 .. i : HasBlockBeenRequested(r, b + j)}
    IN  IF requested = looked THEN MaxReadAheadBlocks
        ELSE 2 * Cardinality(requested)

\* The last block of the read-ahead, within the device.
LastReadAheadUnclipped(r, b) == b + DetermineReadAheadBlocks(r, b) - 1
LastReadAhead(r, b) ==
    LET end == b + DetermineReadAheadBlocks(r, b)
    IN  (IF end < TotalBlockCount THEN end ELSE TotalBlockCount) - 1

PlanReadAhead(r) ==
    /\ Goto(r, "plan", "drain")
    /\ lastBlock' = [lastBlock EXCEPT ![r] = LastReadAhead(r, want[r])]
    /\ UNCHANGED <<available, want, requestsInFlight, nextBlock>>

\* requestBlocksForReadAhead: its completeRequests is over.
StartScan(r) ==
    /\ Done(r) = {}
    /\ Goto(r, "drain", "scan")
    /\ nextBlock' = [nextBlock EXCEPT ![r] = want[r]]
    /\ UNCHANGED <<available, want, requestsInFlight, lastBlock>>

\* One turn of its loop: request the block unless that has been done.
ScanUnlimited(r) ==
    /\ pc[r] = "scan"
    /\ nextBlock[r] <= lastBlock[r]
    /\ HasBlockBeenRequested(r, nextBlock[r]) \/ Lba(nextBlock[r]) >= 0
    /\ nextBlock' = [nextBlock EXCEPT ![r] = @ + 1]
    /\ requestsInFlight' =
           IF HasBlockBeenRequested(r, nextBlock[r]) THEN requestsInFlight
           ELSE [requestsInFlight EXCEPT ![r] = WithRequest(r, nextBlock[r])]
    /\ UNCHANGED <<available, pc, want, lastBlock>>
Scan(r) ==
    /\ pc[r] = "scan"
    /\ nextBlock[r] <= lastBlock[r]
    /\ ~HasMaxRequestsInFlight(r)
    /\ HasBlockBeenRequested(r, nextBlock[r]) \/ Lba(nextBlock[r]) >= 0
    /\ nextBlock' = [nextBlock EXCEPT ![r] = @ + 1]
    /\ requestsInFlight' =
           IF HasBlockBeenRequested(r, nextBlock[r]) THEN requestsInFlight
           ELSE [requestsInFlight EXCEPT ![r] = WithRequest(r, nextBlock[r])]
    /\ UNCHANGED <<available, pc, want, lastBlock>>

\* The loop ends, or breaks because no slot is free.
StopScanAtEnd(r) ==
    /\ nextBlock[r] > lastBlock[r]
    /\ Goto(r, "scan", "wait")
    /\ UNCHANGED <<available, want, requestsInFlight, lastBlock, nextBlock>>
StopScan(r) ==
    /\ nextBlock[r] > lastBlock[r] \/ HasMaxRequestsInFlight(r)
    /\ Goto(r, "scan", "wait")
    /\ UNCHANGED <<available, want, requestsInFlight, lastBlock, nextBlock>>

\* A request that read refuses, or that libiscsi cannot send, is an exception.
SendFails(r) ==
    /\ \/ pc[r] = "send" /\ ("send" \in Faults \/ Lba(want[r]) < 0)
       \/ /\ pc[r] = "scan"
          /\ nextBlock[r] <= lastBlock[r]
          /\ ~HasMaxRequestsInFlight(r)
          /\ ~HasBlockBeenRequested(r, nextBlock[r])
          /\ "send" \in Faults \/ Lba(nextBlock[r]) < 0
    /\ Return(r)
    /\ UNCHANGED <<available, requestsInFlight>>

-----------------------------------------------------------------------------
\* completeRequests is running: in waitForFreeSlot, before the read-ahead,
\* or in the loop that waits for the block.
Completing(r) == pc[r] \in {"slot", "drain", "collect"}

\* completeRequests stores one answered request; requests come in any order.
CompleteRequest(r, b) ==
    /\ Completing(r)
    /\ b \in Done(r)
    /\ requestsInFlight[r][b] = "good"
    /\ requestsInFlight' = [requestsInFlight EXCEPT ![r] = WithoutRequest(r, b)]
    /\ available' = available \cup {b}
    /\ UNCHANGED <<pc, want, lastBlock, nextBlock>>

\* completeRequests meets a failed request, or the store fails to write: the
\* request is gone and whichever call is running gets the exception.
CompleteClearing(r, b) ==
    /\ Completing(r)
    /\ b \in Done(r)
    /\ requestsInFlight[r][b] = "failed" \/ "store" \in Faults
    /\ requestsInFlight' = [requestsInFlight EXCEPT ![r] =
           [c \in InFlight(r) \ Done(r) |-> @[c]]]
    /\ Return(r)
    /\ UNCHANGED available
CompleteSwallowing(r, b) ==
    /\ Completing(r)
    /\ b \in Done(r)
    /\ requestsInFlight[r][b] = "failed" \/ "store" \in Faults
    /\ requestsInFlight' = [requestsInFlight EXCEPT ![r] = WithoutRequest(r, b)]
    /\ UNCHANGED <<available, pc, want, lastBlock, nextBlock>>
CompleteFails(r, b) ==
    /\ Completing(r)
    /\ b \in Done(r)
    /\ requestsInFlight[r][b] = "failed" \/ "store" \in Faults
    /\ requestsInFlight' = [requestsInFlight EXCEPT ![r] = WithoutRequest(r, b)]
    /\ Return(r)
    /\ UNCHANGED available

\* The loop in retrieveBlock: the requests done have been completed.
Collected(r) ==
    /\ Done(r) = {}
    /\ Goto(r, "collect", "wait")
    /\ UNCHANGED <<available, want, requestsInFlight, lastBlock, nextBlock>>

\* The loop ends: the block is no longer in flight.
WaitIsOver(r) ==
    /\ want[r] \notin InFlight(r)
    /\ Goto(r, "wait", "fetch")
    /\ UNCHANGED <<available, want, requestsInFlight, lastBlock, nextBlock>>

\* A reader calls sync when its block is in flight, or when no slot is free
\* and nothing is done.
Syncing(r) ==
    \/ pc[r] = "wait" /\ want[r] \in InFlight(r)
    \/ pc[r] = "slot" /\ HasMaxRequestsInFlight(r) /\ Done(r) = {}

\* sync: poll for a second and let libiscsi deliver the answers, and the
\* time-outs, of the requests in answered.
Sync(r, answered) ==
    /\ Syncing(r)
    /\ pc' = [pc EXCEPT ![r] = IF @ = "wait" THEN "collect" ELSE @]
    /\ \E answer \in [answered -> Status \ {"pending"}] :
          /\ \A b \in answered : answer[b] = "failed" => "read" \in Faults
          /\ requestsInFlight' = [requestsInFlight EXCEPT ![r] =
                [b \in InFlight(r) |->
                    IF b \in answered THEN answer[b] ELSE @[b]]]
    /\ UNCHANGED <<available, want, lastBlock, nextBlock>>

\* poll or iscsi_service fails; the requests stay in flight.
SyncFails(r) ==
    /\ "service" \in Faults
    /\ Syncing(r)
    /\ Return(r)
    /\ UNCHANGED <<available, requestsInFlight>>

\* The evidence store returns the block, or the exception of retrieveBlock
\* for a block that is not available.
Fetch(r) ==
    /\ pc[r] = "fetch"
    /\ Return(r)
    /\ UNCHANGED <<available, requestsInFlight>>

\* The client closes the file and opens it again: another connection and
\* another table of requests, on the same store.
Reopen(r) ==
    /\ pc[r] = "idle"
    /\ requestsInFlight' = [requestsInFlight EXCEPT ![r] = NoRequests]
    /\ UNCHANGED <<available, pc, want, lastBlock, nextBlock>>

\* What the thread inside retrieveBlock does without the target's help.
Step(r) ==
    \/ Claim(r)
    \/ SlotIsFree(r)
    \/ SendDemand(r)
    \/ PlanReadAhead(r)
    \/ StartScan(r)
    \/ Scan(r)
    \/ StopScan(r)
    \/ SendFails(r)
    \/ \E b \in Blocks : CompleteRequest(r, b) \/ CompleteFails(r, b)
    \/ Collected(r)
    \/ WaitIsOver(r)
    \/ Fetch(r)

Pending(r) == InFlight(r) \ Done(r)

Next ==
    \E r \in Readers :
        \/ \E b \in Blocks : RetrieveBlock(r, b)
        \/ Step(r)
        \/ \E answered \in SUBSET Pending(r) : Sync(r, answered)
        \/ SyncFails(r)
        \/ Reopen(r)

Spec == Init /\ [][Next]_vars

\* The request for b is answered, among others.
Answered(r, b) ==
    \E answered \in SUBSET Pending(r) : b \in answered /\ Sync(r, answered)

\* Threads run; a request that stays in flight while sync is called again
\* and again is answered, or times out after the five seconds openDevice sets.
Fairness ==
    \A r \in Readers :
        /\ WF_vars(Step(r))
        /\ \A b \in Blocks : SF_vars(Answered(r, b))

FairSpec == Spec /\ Fairness

-----------------------------------------------------------------------------
(* Properties *)

(***************************************************************************)
(* Every variable holds values of its kind; the read-ahead stays within    *)
(* the device.                                                             *)
(***************************************************************************)
TypeOK ==
    /\ available \in SUBSET Blocks
    /\ pc \in [Readers -> Labels]
    /\ want \in [Readers -> Nat]
    /\ \A r \in Readers : pc[r] # "idle" => want[r] \in Blocks
    /\ requestsInFlight \in
           [Readers -> UNION {[D -> Status] : D \in SUBSET Blocks}]
    /\ lastBlock \in [Readers -> (-1 .. TotalBlockCount - 1) \cup {0}]
    /\ nextBlock \in [Readers -> 0 .. TotalBlockCount]

(***************************************************************************)
(* The comment at the end of retrieveBlock: "The block should now be       *)
(* available in the evidence store".  Whatever was sent, answered, failed  *)
(* or stored by another reader meanwhile, a call that was not ended by an  *)
(* exception finds its block there.                                        *)
(***************************************************************************)
AvailableOnFetch ==
    \A r \in Readers : pc[r] = "fetch" => want[r] \in available

(***************************************************************************)
(* No reader has more than MAX_REQUESTS_IN_FLIGHT requests, read-ahead     *)
(* included.                                                               *)
(***************************************************************************)
InFlightWithinLimit ==
    \A r \in Readers : Cardinality(InFlight(r)) <= MaxRequestsInFlight

(***************************************************************************)
(* A request does not vanish: when it leaves the table its block is in the *)
(* store, or it is the only one to leave and the call that was running     *)
(* ends; a request is otherwise dropped only with its connection.          *)
(***************************************************************************)
RequestsSettled ==
    [][\A r \in Readers :
          LET gone == InFlight(r) \ InFlight(r)'
          IN  \/ gone \subseteq available'
              \/ Cardinality(gone) = 1 /\ pc[r] # "idle" /\ pc'[r] = "idle"
              \/ Reopen(r)]_vars

(***************************************************************************)
(* Every call of retrieveBlock ends, however full the table is and         *)
(* whatever the other readers do.                                          *)
(***************************************************************************)
ReadTerminates == \A r \in Readers : pc[r] # "idle" ~> pc[r] = "idle"

=============================================================================
