----------------------------- MODULE RemoteFile -----------------------------
(***************************************************************************)
(* One open file of the share (org.raqet.smb.RemoteNetworkFile), with the  *)
(* input data behind it (iscsi.IScsiInputData) and the way a device is     *)
(* opened (remote.RemoteDeviceManager.openDevice).                         *)
(*                                                                         *)
(* The SMB server handles the packets of a session on several threads.     *)
(* readFile is synchronized; seekFile and closeFile are not, and every use *)
(* of the field _inputData reads it again.  The device is connected by the *)
(* first read or seek.  A byte of the device is named by its position.     *)
(***************************************************************************)
EXTENDS Integers, Sequences, FiniteSets

CONSTANTS
    Threads,     \* threads of the SMB server
    Sessions,    \* numbers of sessions; bounds those that leaks collect
    None,
    Sizes,       \* sizes of a device in sectors of one byte
    BlockSize,   \* READ_BLOCK_SIZE
    IntLimit,    \* 2^32
    Offsets,     \* positions clients read at and seek to
    Counts,      \* numbers of bytes they ask for
    FaultSets    \* what may go wrong in a behaviour, and who calls

ASSUME FileAssumption ==
    /\ IsFiniteSet(Threads)
    /\ Sessions \subseteq Nat
    /\ None \notin Threads \cup Sessions
    /\ BlockSize \in Nat \ {0}
    /\ IntLimit \in Nat \ {0}
    /\ Sizes \subseteq 1 .. IntLimit   \* READ CAPACITY (10) counts in 32 bits
    /\ Offsets \subseteq Nat
    /\ Counts \subseteq Nat
    /\ FaultSets \subseteq
          SUBSET {"seek", "closes", "open", "leak", "read", "destroy", "sync"}

VARIABLES
    faults,      \* the faults of this behaviour
    size,        \* _size
    inputData,   \* _inputData: the session behind it, or None
    live,        \* sessions whose libiscsi context exists
    references,  \* references of each to the evidence store
    open,        \* input data that are open
    position,    \* _position of each
    monitor,     \* the thread inside readFile
    call,        \* what each thread does
    overlapped   \* reads that ran at the same time as a seek

device == <<live, references, open, position>>
fixed  == <<faults, size>>
vars   == <<fixed, inputData, device, monitor, call, overlapped>>

Idle == [kind |-> "none", at |-> "idle", offset |-> 0, count |-> 0,
         session |-> None, left |-> 0, block |-> 0, last |-> 0, got |-> 0,
         data |-> <<>>]

Init ==
    /\ faults \in FaultSets
    /\ size \in Sizes
    /\ inputData = None
    /\ live = {}
    /\ references = [s \in Sessions |-> 0]
    /\ open = {}
    /\ position = [s \in Sessions |-> 0]
    /\ monitor = None
    /\ call = [t \in Threads |-> Idle]
    /\ overlapped = {}

At(t, here) == call[t].at = here
Becomes(t, c) == call' = [call EXCEPT ![t] = c]
Goto(t, there) == Becomes(t, [call[t] EXCEPT !.at = there])

\* The call ends, with a value or an exception.
End(t) ==
    /\ Becomes(t, Idle)
    /\ monitor' = IF monitor = t THEN None ELSE monitor
    /\ overlapped' = overlapped \ {t}

Running(kind) == {t \in Threads : call[t].kind = kind}

Smaller(a, b) == IF a < b THEN a ELSE b
ToInt(n) == LET m == n % IntLimit
            IN  IF 2 * m >= IntLimit THEN m - IntLimit ELSE m

\* Sessions nobody knows of any more; a call may begin while each running
\* call could still open one.
Free == {s \in Sessions : /\ s \notin live /\ references[s] = 0
                          /\ s # inputData
                          /\ \A t \in Threads : call[t].session # s}
Room == Cardinality(Free) > Cardinality({t \in Threads : ~At(t, "idle")})

-----------------------------------------------------------------------------
(* Opening the device: the first thing a read or a seek does. *)

\* openFile: another thread may have opened it since the caller looked.
OpenFile(t) ==
    /\ At(t, "open")
    /\ \/ /\ inputData # None
          /\ Goto(t, IF call[t].kind = "read" THEN "compare" ELSE "move")
          /\ UNCHANGED live
       \/ /\ inputData = None
          /\ \E s \in Free :
                /\ \A x \in Free : s <= x
                /\ live' = live \cup {s}
                /\ Becomes(t, [call[t] EXCEPT !.at = "connect", !.session = s])
    /\ UNCHANGED <<fixed, inputData, references, open, position, monitor,
                   overlapped>>

OpenDevice(t) ==
    LET s == call[t].session
    IN  /\ At(t, "connect")
        /\ references' = [references EXCEPT ![s] = @ + 1]
        /\ open' = open \cup {s}
        /\ position' = [position EXCEPT ![s] = 0]
        /\ inputData' = s
        /\ Becomes(t, [call[t] EXCEPT
              !.at = IF call[t].kind = "read" THEN "compare" ELSE "move",
              !.session = None])
        /\ UNCHANGED <<fixed, live, monitor, overlapped>>

\* Only an IScsiException closes the context.  A unit that is not ready, or a
\* store that cannot be opened, leaves it behind; a sector size the block
\* reader refuses leaves a reference to the store as well.
OpenFailsOpen(t) ==
    /\ At(t, "connect")
    /\ faults \cap {"open", "leak"} # {}
    /\ End(t)
    /\ UNCHANGED <<fixed, inputData, device>>
OpenFails(t) ==
    LET s == call[t].session
    IN  /\ At(t, "connect")
        /\ \/ /\ "open" \in faults
              /\ live' = live \ {s}
              /\ UNCHANGED references
           \/ /\ "leak" \in faults
              /\ references' \in {references, [references EXCEPT ![s] = @ + 1]}
              /\ UNCHANGED live
        /\ End(t)
        /\ UNCHANGED <<fixed, inputData, open, position>>

-----------------------------------------------------------------------------
(* readFile. *)

BeginRead(t, offset, count) ==
    /\ At(t, "idle")
    /\ Room
    /\ Becomes(t, [Idle EXCEPT !.kind = "read", !.at = "enter",
                               !.offset = offset, !.count = count])
    /\ overlapped' = IF Running("seek") = {} THEN overlapped
                     ELSE overlapped \cup {t}
    /\ UNCHANGED <<fixed, inputData, device, monitor>>

EnterUnsynchronized(t) ==
    /\ At(t, "enter")
    /\ Goto(t, IF inputData = None THEN "open" ELSE "compare")
    /\ UNCHANGED <<fixed, inputData, device, monitor, overlapped>>
Enter(t) ==
    /\ At(t, "enter")
    /\ monitor = None
    /\ monitor' = t
    /\ Goto(t, IF inputData = None THEN "open" ELSE "compare")
    /\ UNCHANGED <<fixed, inputData, device, overlapped>>

\* A close may have cleared the field: a NullPointerException.
Cleared(t, label) ==
    /\ At(t, label)
    /\ inputData = None
    /\ End(t)
    /\ UNCHANGED <<fixed, inputData, device>>

CompareSize(t) ==
    \/ Cleared(t, "compare")
    \/ /\ At(t, "compare")
       /\ inputData # None
       /\ Goto(t, IF call[t].offset > size THEN "leave" ELSE "seek")
       /\ UNCHANGED <<fixed, inputData, device, monitor, overlapped>>

SeekTo(t) ==
    \/ Cleared(t, "seek")
    \/ /\ At(t, "seek")
       /\ inputData # None
       /\ position' = [position EXCEPT ![inputData] = call[t].offset]
       /\ Goto(t, "read")
       /\ UNCHANGED <<fixed, inputData, live, references, open, monitor,
                      overlapped>>

\* read, on the input data the field has now: not on closed data, nothing at
\* the end; else as many bytes as are there.
Clip(t, left) ==
    IF left <= 0 THEN Goto(t, "leave")
    ELSE Becomes(t, [call[t] EXCEPT !.at = "first", !.session = inputData,
                                    !.left = left])
StartReadUnclipped(t) ==
    \/ Cleared(t, "read")
    \/ /\ At(t, "read")
       /\ inputData # None
       /\ Clip(t, IF position[inputData] < size THEN call[t].count ELSE 0)
       /\ UNCHANGED <<fixed, inputData, device, monitor, overlapped>>
StartRead(t) ==
    \/ Cleared(t, "read")
    \/ /\ At(t, "read")
       /\ inputData # None
       /\ inputData \notin open
       /\ End(t)
       /\ UNCHANGED <<fixed, inputData, device>>
    \/ /\ At(t, "read")
       /\ inputData # None
       /\ inputData \in open
       /\ Clip(t, Smaller(call[t].count, size - position[inputData]))
       /\ UNCHANGED <<fixed, inputData, device, monitor, overlapped>>

\* The blocks it spans: _position is read again for each.  A seek since may
\* put them beyond the device, or the last one before the first.
FirstBlock(t) ==
    LET first == position[call[t].session] \div BlockSize
    IN  /\ At(t, "first")
        /\ Becomes(t, [call[t] EXCEPT !.at = "last", !.block = first])
        /\ UNCHANGED <<fixed, inputData, device, monitor, overlapped>>
LastBlock(t) ==
    LET last == (position[call[t].session] + call[t].left - 1) \div BlockSize
    IN  /\ At(t, "last")
        /\ Becomes(t, [call[t] EXCEPT
              !.at = IF call[t].block <= last THEN "retrieve" ELSE "leave",
              !.last = last])
        /\ UNCHANGED <<fixed, inputData, device, monitor, overlapped>>

\* Where the next byte lies in the block that is read.
OffsetInBlock(t) == position[call[t].session] - call[t].block * BlockSize

\* Bytes of the device, and those of a read that are there.
Bytes(from, n) == [i \in 1 .. n |-> from + i - 1]
There(c) == Smaller(c.count, size - c.offset)

\* A block the device has: retrieveBlock refuses every other number.
OnDevice(block) == block * BlockSize < size

\* retrieveBlock, and Block.read of what is left or what the block has.
Retrieve(t) ==
    LET c == call[t]
        here == OffsetInBlock(t)
        got == IF here >= BlockSize THEN 0 ELSE Smaller(c.left, BlockSize - here)
    IN  /\ At(t, "retrieve")
        /\ OnDevice(c.block)
        /\ ToInt(c.block * BlockSize) >= 0
        /\ here >= 0
        /\ Becomes(t, [c EXCEPT
              !.at = "advance",
              !.got = got,
              !.left = @ - got,
              !.data = @ \o Bytes(position[c.session], got)])
        /\ UNCHANGED <<fixed, inputData, device, monitor, overlapped>>

\* The target fails; a seek moved the position, and the block lies beyond the
\* device or the position before the block; the address is beyond the int
\* range; a close has destroyed the context or the store.
RetrieveFailsInside(t) ==
    /\ At(t, "retrieve")
    /\ call[t].session \notin live
    /\ Becomes(t, Idle)
    /\ overlapped' = overlapped \ {t}
    /\ UNCHANGED <<fixed, inputData, device, monitor>>
RetrieveFails(t) ==
    LET c == call[t]
    IN  /\ At(t, "retrieve")
        /\ \/ "read" \in faults
           \/ c.session \notin live
           \/ references[c.session] < 1
           \/ ~OnDevice(c.block)
           \/ ToInt(c.block * BlockSize) < 0
           \/ OffsetInBlock(t) < 0
        /\ End(t)
        /\ UNCHANGED <<fixed, inputData, device>>

\* _position is read again, and increased; the loop is over block numbers.
Advance(t) ==
    LET s == call[t].session
        done == call[t].block = call[t].last
    IN  /\ At(t, "advance")
        /\ position' = [position EXCEPT ![s] = @ + call[t].got]
        /\ Becomes(t, [call[t] EXCEPT !.at = IF done THEN "leave" ELSE "retrieve",
                                      !.block = IF done THEN @ ELSE @ + 1])
        /\ UNCHANGED <<fixed, inputData, live, references, open, monitor,
                       overlapped>>

Leave(t) ==
    /\ At(t, "leave")
    /\ End(t)
    /\ UNCHANGED <<fixed, inputData, device>>

-----------------------------------------------------------------------------
(* seekFile, outside the monitor. *)

BeginSeek(t) ==
    /\ "seek" \in faults
    /\ At(t, "idle")
    /\ Room
    /\ Becomes(t, [Idle EXCEPT !.kind = "seek",
                       !.at = IF inputData = None THEN "open" ELSE "move"])
    /\ overlapped' = overlapped \cup Running("read")
    /\ UNCHANGED <<fixed, inputData, device, monitor>>

\* Any position of the file; one outside it is refused.
Move(t) ==
    /\ At(t, "move")
    /\ \/ UNCHANGED position
       \/ /\ inputData # None
          /\ \E p \in Offsets :
                /\ p <= size
                /\ position' = [position EXCEPT ![inputData] = p]
    /\ End(t)
    /\ UNCHANGED <<fixed, inputData, live, references, open>>

-----------------------------------------------------------------------------
(* closeFile, outside the monitor. *)

BeginClose(t) ==
    /\ At(t, "idle")
    /\ Room
    /\ inputData # None
    /\ "closes" \in faults \/ Running("close") = {}
    /\ Becomes(t, [Idle EXCEPT !.kind = "close", !.at = "isOpen"])
    /\ UNCHANGED <<fixed, inputData, device, monitor, overlapped>>

CloseInputAlways(t) ==
    \/ Cleared(t, "isOpen")
    \/ /\ At(t, "isOpen")
       /\ inputData # None
       /\ Becomes(t, [call[t] EXCEPT !.at = "destroy", !.session = inputData])
       /\ UNCHANGED <<fixed, inputData, device, monitor, overlapped>>
CloseInput(t) ==
    \/ Cleared(t, "isOpen")
    \/ /\ At(t, "isOpen")
       /\ inputData # None
       /\ IF inputData \in open
          THEN Becomes(t, [call[t] EXCEPT !.at = "destroy", !.session = inputData])
          ELSE Goto(t, "clear")
       /\ UNCHANGED <<fixed, inputData, device, monitor, overlapped>>

DestroyContext(t) ==
    /\ At(t, "destroy")
    /\ live' = live \ {call[t].session}
    /\ Goto(t, "closeStore")
    /\ UNCHANGED <<fixed, inputData, references, open, position, monitor,
                   overlapped>>

CloseStore(t) ==
    LET s == call[t].session
    IN  /\ At(t, "closeStore")
        /\ references' = [references EXCEPT ![s] = @ - 1]
        /\ open' = open \ {s}
        /\ Becomes(t, [call[t] EXCEPT !.at = "clear", !.session = None])
        /\ UNCHANGED <<fixed, inputData, live, position, monitor, overlapped>>

\* Either part may throw: the data count as closed, the field keeps them.
CloseFails(t) ==
    /\ \/ At(t, "destroy") /\ "destroy" \in faults
       \/ At(t, "destroy") /\ call[t].session \notin live
       \/ At(t, "closeStore") /\ "sync" \in faults
    /\ open' = open \ {call[t].session}
    /\ End(t)
    /\ UNCHANGED <<fixed, inputData, live, references, position>>

Clear(t) ==
    /\ At(t, "clear")
    /\ inputData' = None
    /\ End(t)
    /\ UNCHANGED <<fixed, device>>

-----------------------------------------------------------------------------

\* The server is killed, or the use of a destroyed context takes it down; it
\* starts again without the file.
Crash ==
    /\ inputData' = None
    /\ live' = {}
    /\ references' = [s \in Sessions |-> 0]
    /\ open' = {}
    /\ position' = [s \in Sessions |-> 0]
    /\ monitor' = None
    /\ call' = [t \in Threads |-> Idle]
    /\ overlapped' = {}
    /\ UNCHANGED fixed

Step(t) ==
    \/ OpenFile(t) \/ OpenDevice(t) \/ OpenFails(t)
    \/ Enter(t) \/ CompareSize(t) \/ SeekTo(t) \/ StartRead(t)
    \/ FirstBlock(t) \/ LastBlock(t)
    \/ Retrieve(t) \/ RetrieveFails(t) \/ Advance(t) \/ Leave(t)
    \/ Move(t)
    \/ CloseInput(t) \/ DestroyContext(t) \/ CloseStore(t) \/ CloseFails(t)
    \/ Clear(t)

Next ==
    \/ \E t \in Threads :
          \/ \E o \in Offsets, n \in Counts : BeginRead(t, o, n)
          \/ BeginSeek(t)
          \/ BeginClose(t)
          \/ Step(t)
    \/ Crash

Spec == Init /\ [][Next]_vars

\* Threads run; a block that is retrieved arrives or fails.
Fairness == \A t \in Threads : WF_vars(Step(t))

FairSpec == Spec /\ Fairness

-----------------------------------------------------------------------------
(* Properties *)

Labels == {"idle", "enter", "open", "connect", "compare", "seek", "read",
           "first", "last", "retrieve", "advance", "leave", "move", "isOpen",
           "destroy", "closeStore", "clear"}

(***************************************************************************)
(* Every variable holds values of its kind.  No read collects more bytes   *)
(* than it was asked for, also if a seek moves the position under it; the  *)
(* blocks a read goes over are the device's unless a seek overlapped it    *)
(* (one between the three times read takes _position may put them beyond). *)
(***************************************************************************)
TypeOK ==
    /\ inputData \in Sessions \cup {None}
    /\ live \subseteq Sessions
    /\ references \in [Sessions -> -Cardinality(Threads) .. 1]
    /\ open \subseteq Sessions
    /\ position \in [Sessions -> Nat]
    /\ monitor \in Threads \cup {None}
    /\ overlapped \subseteq Running("read")
    /\ \A t \in Threads :
          /\ call[t].at \in Labels
          /\ call[t].session \in Sessions \cup {None}
          /\ Len(call[t].data) + call[t].left <= call[t].count
          /\ At(t, "retrieve") /\ t \notin overlapped =>
                OnDevice(call[t].block) /\ OnDevice(call[t].last)

(***************************************************************************)
(* A read that returns, and that no seek overlapped, has the bytes of the  *)
(* device at its offset, as many as were asked for and are there: whatever *)
(* other reads and closes run, opens and reads fail, however the range     *)
(* lies over blocks and the end of the device.  On a device with more      *)
(* blocks than the int address reaches, the read fails instead.            *)
(***************************************************************************)
ReadsDevice ==
    \A t \in Threads \ overlapped :
        At(t, "leave") =>
            call[t].data = Bytes(call[t].offset, There(call[t]))

(***************************************************************************)
(* Reads open the device once, and one close gives the session and the     *)
(* reference to the evidence store back: nothing is connected or counted   *)
(* that the file, or a call that opens or closes it, does not know of.     *)
(* Seeks outside the monitor, closes at the same time, an open that fails  *)
(* with anything but an IScsiException, and a failing close may break it.  *)
(***************************************************************************)
NoSessionLost ==
    faults \cap {"seek", "closes", "leak", "destroy", "sync"} = {} =>
        /\ Cardinality(live) <= 1
        /\ \A s \in live \cup {x \in Sessions : references[x] # 0} :
              \/ s = inputData
              \/ \E t \in Threads : /\ call[t].kind # "none"
                                    /\ call[t].session = s

(***************************************************************************)
(* A close that destroys a context finds it alive, and still has its       *)
(* reference to the store to drop: neither is given back twice, also not   *)
(* by a second close after one that failed, as long as closes do not run   *)
(* at the same time.                                                       *)
(***************************************************************************)
GivenBackOnce ==
    "closes" \notin faults =>
        \A t \in Threads :
            /\ At(t, "destroy") => call[t].session \in live
            /\ At(t, "closeStore") => references[call[t].session] = 1

(***************************************************************************)
(* A thread inside readFile leaves the monitor, also when a close or a     *)
(* seek disturbs it: the other reads of the file get their turn.           *)
(***************************************************************************)
MonitorIsFreed == (monitor # None) ~> (monitor = None)

=============================================================================
