-------------------------- MODULE RemoteFileProofs --------------------------
(***************************************************************************)
(* Theorems about RemoteFile, for every set of threads, every geometry of  *)
(* device and blocks, and every set of faults.                             *)
(*                                                                         *)
(* Base is inductive by itself: the types, and where calls of each kind    *)
(* are.  Accounted is about the session and the reference of each open,    *)
(* for closes that do not run at the same time; Known follows them for     *)
(* behaviours without seeks, leaks and failing closes.  Reading is about   *)
(* the reads that no seek overlapped, Counted and Clipped about the bounds *)
(* of references and of what a read collects, whatever runs with it.       *)
(***************************************************************************)
EXTENDS RemoteFile, FiniteSetTheorems, SequenceTheorems, TLAPS

Kinds == {"none", "read", "seek", "close"}

Calls == [kind : Kinds, at : Labels, offset : Nat, count : Nat,
          session : Sessions \cup {None}, left : Nat, block : Nat, last : Nat,
          got : Nat, data : Seq(Nat)]

Types ==
    /\ faults \in FaultSets
    /\ size \in Sizes
    /\ inputData \in Sessions \cup {None}
    /\ live \in SUBSET Sessions
    /\ references \in [Sessions -> Int]
    /\ open \in SUBSET Sessions
    /\ position \in [Sessions -> Nat]
    /\ monitor \in Threads \cup {None}
    /\ call \in [Threads -> Calls]
    /\ overlapped \in SUBSET Threads

ReadLabels  == {"enter", "open", "connect", "compare", "seek", "read",
                "first", "last", "retrieve", "advance", "leave"}
SeekLabels  == {"open", "connect", "move"}
CloseLabels == {"isOpen", "destroy", "closeStore", "clear"}
WithSession == {"connect", "first", "last", "retrieve", "advance", "destroy",
                "closeStore"}

\* Where a call is, what it holds there, and who is in the monitor.
Placed(t) ==
    /\ call[t].kind = "none" <=> call[t].at = "idle"
    /\ call[t].kind = "read" => call[t].at \in ReadLabels
    /\ call[t].kind = "seek" => call[t].at \in SeekLabels
    /\ call[t].kind = "close" => call[t].at \in CloseLabels
    /\ call[t].at \in WithSession => call[t].session \in Sessions
    /\ call[t].at \in {"first", "last"} => call[t].left > 0
    /\ call[t].kind = "read" /\ call[t].at # "enter" => monitor = t
    /\ t \in overlapped => call[t].kind = "read"

Base == Types /\ \A t \in Threads : Placed(t)

-----------------------------------------------------------------------------

\* A session that is being connected is new, and one thread's.
Connecting(t) ==
    call[t].at = "connect" =>
        /\ call[t].session \in live
        /\ references[call[t].session] = 0
        /\ inputData # call[t].session
        /\ \A u \in Threads \ {t} : call[u].session # call[t].session

Opened == \A s \in open : references[s] = 1

OneClose ==
    \A t, u \in Threads : call[t].kind = "close" /\ call[u].kind = "close" => t = u

\* Open data have a context, but for the close that has just destroyed it.
Alive ==
    \A s \in open \ live :
        \E t \in Threads : call[t].at = "closeStore" /\ call[t].session = s

Closing(t) ==
    /\ call[t].at = "destroy" => call[t].session \in open \cap live
    /\ call[t].at = "closeStore" => call[t].session \in open

Accounted ==
    /\ \A t \in Threads : Connecting(t)
    /\ Opened
    /\ "closes" \notin faults =>
          OneClose /\ Alive /\ \A t \in Threads : Closing(t)

-----------------------------------------------------------------------------

Orderly == faults \cap {"seek", "closes", "leak", "destroy", "sync"} = {}

\* What a close has done to the data of the field.
Undone(t) ==
    /\ call[t].kind = "close" => inputData # None
    /\ call[t].at \in {"destroy", "closeStore"} => call[t].session = inputData
    /\ call[t].at = "closeStore" => call[t].session \notin live
    /\ call[t].at = "clear" => inputData \notin live /\ references[inputData] = 0

Known ==
    /\ \A t \in Threads : /\ call[t].kind # "seek"
                          /\ call[t].at = "connect" => inputData = None
                          /\ Undone(t)
    /\ \A s \in live : \/ s = inputData
                       \/ \E t \in Threads : call[t].at = "connect" /\ call[t].session = s
    /\ \A s \in Sessions : references[s] # 0 => s = inputData
    /\ inputData # None /\ (\A t \in Threads : call[t].at \notin {"closeStore", "clear"})
          => inputData \in open

-----------------------------------------------------------------------------

\* The block a position lies in.
Holds(b, p) == b * BlockSize <= p /\ p < b * BlockSize + BlockSize

InLoop(t) ==
    LET c == call[t]
    IN  /\ c.offset <= size
        /\ c.data = Bytes(c.offset, Len(c.data))
        /\ Len(c.data) + c.left = There(c)

OnTheDevice(t) ==
    LET c == call[t]
        p == position[c.session]
    IN  /\ c.at \in {"enter", "open", "connect", "compare", "seek", "read"} => c.data = <<>>
        /\ c.at \in {"seek", "read"} => c.offset <= size
        /\ c.at = "read" /\ inputData # None => position[inputData] = c.offset
        /\ c.at \in {"first", "last"} =>
              /\ InLoop(t) /\ c.data = <<>> /\ c.left > 0
              /\ p = c.offset + Len(c.data)
        /\ c.at = "last" => Holds(c.block, p)
        /\ c.at = "retrieve" =>
              /\ InLoop(t) /\ c.left > 0
              /\ p = c.offset + Len(c.data)
              /\ Holds(c.block, p)
              /\ Holds(c.last, p + c.left - 1)
        /\ c.at = "advance" =>
              /\ InLoop(t) /\ c.got > 0
              /\ p + c.got = c.offset + Len(c.data)
              /\ Holds(c.block, p + c.got - 1)
              /\ Holds(c.last, p + c.got + c.left - 1)
              /\ c.left = 0 \/ p + c.got = c.block * BlockSize + BlockSize
        /\ c.at = "leave" => c.data = Bytes(c.offset, There(c))

Reading ==
    \A t \in Threads \ overlapped :
        call[t].kind = "read" =>
            /\ \A u \in Threads : call[u].kind # "seek"
            /\ OnTheDevice(t)

-----------------------------------------------------------------------------

Closers(s) == {t \in Threads : /\ call[t].at \in {"destroy", "closeStore"}
                               /\ call[t].session = s}

Counted == \A s \in Sessions :
              /\ references[s] <= 1
              /\ references[s] >= Cardinality(Closers(s)) - Cardinality(Threads)

BeforeLoop == {"enter", "open", "connect", "compare", "seek", "read"}

Clipped(t) ==
    LET c == call[t]
    IN  /\ c.at \in BeforeLoop => c.data = <<>>
        /\ Len(c.data) + c.left <= c.count

AllClipped == \A t \in Threads : Clipped(t)

-----------------------------------------------------------------------------
(* Types, and where calls are. *)

LEMMA IdleCall == Idle \in Calls /\ Idle.at = "idle" /\ Idle.kind = "none"
<1>1. <<>> \in Seq(Nat)
  BY EmptySeq
<1> QED
  BY <1>1 DEF Idle, Calls, Kinds, Labels

\* A call goes on: at another place, with other locals.
GoesOn(t) ==
    /\ call' \in [Threads -> Calls]
    /\ \A u \in Threads \ {t} : call'[u] = call[u]

LEMMA Became ==
    ASSUME Types, NEW t \in Threads, NEW c \in Calls, Becomes(t, c)
    PROVE  GoesOn(t) /\ call'[t] = c
  BY DEF Types, Becomes, GoesOn

LEMMA Ended ==
    ASSUME Types, NEW t \in Threads, End(t)
    PROVE  /\ call' \in [Threads -> Calls] /\ call'[t] = Idle
           /\ \A u \in Threads \ {t} : call'[u] = call[u]
           /\ monitor' \in Threads \cup {None}
           /\ \A u \in Threads \ {t} : monitor = u => monitor' = u
           /\ overlapped' = overlapped \ {t}
  BY IdleCall DEF End, Becomes, Types

LEMMA Gone ==
    ASSUME Types, NEW t \in Threads, NEW l \in Labels, Goto(t, l)
    PROVE  GoesOn(t) /\ call'[t] = [call[t] EXCEPT !.at = l]
<1>1. [call[t] EXCEPT !.at = l] \in Calls
  BY DEF Types, Calls
<1> QED
  BY <1>1, Became DEF Goto

\* A step leaves the other calls where they are.
LEMMA BaseOfStep ==
    ASSUME Base, NEW t \in Threads, Types',
           \A u \in Threads \ {t} : call'[u] = call[u],
           \A u \in Threads \ {t} : monitor = u => monitor' = u,
           overlapped' \cap (Threads \ {t}) \subseteq
               overlapped \cup {u \in Threads : call[u].kind = "read"},
           Placed(t)'
    PROVE  Base'
<1>1. ASSUME NEW u \in Threads, u # t PROVE Placed(u)'
  BY <1>1 DEF Base, Placed
<1> QED
  BY <1>1 DEF Base

LEMMA EndedBase ==
    ASSUME Base, NEW t \in Threads, End(t), UNCHANGED fixed,
           inputData' \in Sessions \cup {None}, live' \in SUBSET Sessions,
           references' \in [Sessions -> Int], open' \in SUBSET Sessions,
           position' \in [Sessions -> Nat]
    PROVE  Base'
<1>1. Types'
  BY Ended DEF Base, Types, fixed
<1>2. Placed(t)'
  BY Ended, IdleCall DEF Base, Placed, WithSession
<1> QED
  BY <1>1, <1>2, Ended, BaseOfStep DEF Base

LEMMA OpenBase ==
    ASSUME Base, NEW t \in Threads, OpenFile(t) \/ OpenDevice(t) \/ OpenFails(t)
    PROVE  Base'
<1>1. CASE OpenFile(t)
  <2>1. CASE inputData # None /\ UNCHANGED live
             /\ Goto(t, IF call[t].kind = "read" THEN "compare" ELSE "move")
    <3>1. GoesOn(t) /\ call'[t] = [call[t] EXCEPT
             !.at = IF call[t].kind = "read" THEN "compare" ELSE "move"]
      BY <2>1, Gone DEF Base, Labels
    <3>2. Types'
      BY <1>1, <2>1, <3>1 DEF Base, Types, OpenFile, fixed, GoesOn
    <3>3. Placed(t)'
      BY <1>1, <3>1 DEF Base, Types, Calls, Kinds, OpenFile, At, Placed, ReadLabels,
                        SeekLabels, CloseLabels, WithSession
    <3> QED
      BY <1>1, <3>1, <3>2, <3>3, BaseOfStep DEF OpenFile, GoesOn
  <2>2. ASSUME NEW s \in Free, live' = live \cup {s},
               Becomes(t, [call[t] EXCEPT !.at = "connect", !.session = s])
        PROVE  Base'
    <3>1. s \in Sessions
      BY DEF Free
    <3>2. GoesOn(t) /\ call'[t] = [call[t] EXCEPT !.at = "connect", !.session = s]
      <4>1. [call[t] EXCEPT !.at = "connect", !.session = s] \in Calls
        BY <3>1 DEF Base, Types, Calls, Labels
      <4> QED
        BY <2>2, <4>1, Became DEF Base
    <3>3. Types'
      BY <1>1, <2>2, <3>1, <3>2 DEF Base, Types, OpenFile, fixed, GoesOn
    <3>4. Placed(t)'
      BY <1>1, <3>1, <3>2 DEF Base, Types, Calls, Kinds, OpenFile, At, Placed,
                        ReadLabels, SeekLabels, CloseLabels, WithSession
    <3> QED
      BY <1>1, <3>2, <3>3, <3>4, BaseOfStep DEF OpenFile, GoesOn
  <2> QED
    BY <1>1, <2>1, <2>2 DEF OpenFile
<1>2. CASE OpenDevice(t)
  <2>1. call[t].session \in Sessions /\ call[t].kind \in {"read", "seek"}
    BY <1>2 DEF OpenDevice, At, Base, Types, Calls, Kinds, Placed, WithSession, CloseLabels
  <2>2. GoesOn(t) /\ call'[t] = [call[t] EXCEPT
            !.at = IF call[t].kind = "read" THEN "compare" ELSE "move", !.session = None]
    <3>1. [call[t] EXCEPT !.at = IF call[t].kind = "read" THEN "compare" ELSE "move",
                          !.session = None] \in Calls
      BY DEF Base, Types, Calls, Labels
    <3> QED
      BY <1>2, <3>1, Became DEF OpenDevice, Base
  <2>3. Types'
    BY <1>2, <2>1, <2>2 DEF OpenDevice, Base, Types, fixed, GoesOn
  <2>4. /\ call'[t].kind = call[t].kind
        /\ call'[t].at = IF call[t].kind = "read" THEN "compare" ELSE "move"
    BY <2>2 DEF Base, Types, Calls
  <2>5. /\ call[t].at = "connect" /\ monitor' = monitor /\ overlapped' = overlapped
        /\ call[t].kind = "read" => monitor = t
        /\ t \in overlapped => call[t].kind = "read"
    BY <1>2 DEF OpenDevice, At, Base, Placed
  <2>6. Placed(t)'
    BY <2>1, <2>4, <2>5 DEF Placed, ReadLabels, SeekLabels, WithSession
  <2> QED
    BY <1>2, <2>2, <2>3, <2>6, BaseOfStep DEF OpenDevice, GoesOn
<1>3. CASE OpenFails(t)
  <2>1. call[t].session \in Sessions
    BY <1>3 DEF OpenFails, At, Base, Placed, WithSession
  <2>2. live' \in SUBSET Sessions /\ references' \in [Sessions -> Int]
    BY <1>3, <2>1 DEF OpenFails, Base, Types
  <2> QED
    BY <1>3, <2>2, EndedBase DEF OpenFails, Base, Types, fixed
<1> QED
  BY <1>1, <1>2, <1>3

LEMMA Quotient ==
    ASSUME NEW n \in Nat
    PROVE  n \div BlockSize \in Nat /\ Holds(n \div BlockSize, n)
  BY FileAssumption DEF Holds

LEMMA BytesAreNumbers ==
    ASSUME NEW from \in Nat, NEW n \in Nat
    PROVE  Bytes(from, n) \in Seq(Nat) /\ Len(Bytes(from, n)) = n
<1>1. Bytes(from, n) \in [1 .. n -> Nat]
  BY DEF Bytes
<1> QED
  BY <1>1, IsASeq, LenProperties

\* A read that has bytes to read takes the numbers of its blocks.
LEMMA Clipping ==
    ASSUME Types, NEW t \in Threads, NEW left \in Nat \ {0}, inputData # None,
           Clip(t, left)
    PROVE  /\ GoesOn(t) /\ call'[t].kind = call[t].kind /\ call'[t].at = "first"
           /\ call'[t].offset = call[t].offset /\ call'[t].count = call[t].count
           /\ call'[t].data = call[t].data
           /\ call'[t].session = inputData /\ call'[t].left = left
<1> DEFINE c == [call[t] EXCEPT !.at = "first", !.session = inputData, !.left = left]
<1>1. /\ c \in Calls
      /\ c.kind = call[t].kind /\ c.at = "first" /\ c.offset = call[t].offset
      /\ c.count = call[t].count /\ c.data = call[t].data
      /\ c.session = inputData /\ c.left = left
  BY DEF Types, Calls, Labels
<1>2. Becomes(t, c)
  BY DEF Clip
<1> HIDE DEF c
<1>3. GoesOn(t) /\ call'[t] = c
  BY <1>1, <1>2, Became
<1> QED
  BY <1>1, <1>3

LEMMA BlocksTaken ==
    ASSUME Base, NEW t \in Threads, FirstBlock(t) \/ LastBlock(t)
    PROVE  /\ GoesOn(t) /\ call'[t].kind = call[t].kind
           /\ call'[t].offset = call[t].offset /\ call'[t].count = call[t].count
           /\ call'[t].data = call[t].data /\ call'[t].session = call[t].session
           /\ call'[t].left = call[t].left /\ call[t].left \in Nat \ {0}
           /\ position[call[t].session] \in Nat
           /\ \/ /\ call[t].at = "first" /\ call'[t].at = "last"
                 /\ call'[t].block = position[call[t].session] \div BlockSize
              \/ /\ call[t].at = "last"
                 /\ call'[t].at = IF call[t].block <= call'[t].last
                                  THEN "retrieve" ELSE "leave"
                 /\ call'[t].block = call[t].block
                 /\ call'[t].last =
                       (position[call[t].session] + call[t].left - 1) \div BlockSize
<1> DEFINE p == position[call[t].session]
<1>1. call[t].at \in {"first", "last"}
  BY DEF FirstBlock, LastBlock, At
<1>2. call[t].session \in Sessions
  BY <1>1 DEF Base, Placed, WithSession
<1>3. p \in Nat /\ call[t].left \in Nat \ {0} /\ call[t] \in Calls
  BY <1>1, <1>2 DEF Base, Types, Calls, Placed
<1>4. CASE FirstBlock(t)
  <2> DEFINE first == p \div BlockSize
             c == [call[t] EXCEPT !.at = "last", !.block = first]
  <2>1. first \in Nat
    BY <1>3, Quotient
  <2>2. Becomes(t, c) /\ call[t].at = "first"
    BY <1>4 DEF FirstBlock, At
  <2> HIDE DEF first
  <2>3. /\ c \in Calls /\ c.kind = call[t].kind /\ c.at = "last" /\ c.block = first
        /\ c.offset = call[t].offset /\ c.count = call[t].count
        /\ c.data = call[t].data /\ c.session = call[t].session
        /\ c.left = call[t].left
    BY <1>3, <2>1 DEF Calls, Labels
  <2> HIDE DEF c
  <2>4. GoesOn(t) /\ call'[t] = c
    BY <2>2, <2>3, Became DEF Base
  <2> QED
    BY <1>3, <2>2, <2>3, <2>4 DEF first
<1>5. CASE LastBlock(t)
  <2> DEFINE last == (p + call[t].left - 1) \div BlockSize
             there == IF call[t].block <= last THEN "retrieve" ELSE "leave"
             c == [call[t] EXCEPT !.at = there, !.last = last]
  <2>1. last \in Nat
    <3>1. p + call[t].left - 1 \in Nat
      BY <1>3
    <3> QED
      BY <3>1, Quotient
  <2>2. Becomes(t, c) /\ call[t].at = "last" /\ there \in {"retrieve", "leave"}
    BY <1>5 DEF LastBlock, At
  <2> HIDE DEF last, there
  <2>3. /\ c \in Calls /\ c.kind = call[t].kind /\ c.at = there /\ c.last = last
        /\ c.block = call[t].block
        /\ c.offset = call[t].offset /\ c.count = call[t].count
        /\ c.data = call[t].data /\ c.session = call[t].session
        /\ c.left = call[t].left
    BY <1>3, <2>1, <2>2 DEF Calls, Labels
  <2> HIDE DEF c
  <2>4. GoesOn(t) /\ call'[t] = c
    BY <2>2, <2>3, Became DEF Base
  <2> QED
    BY <1>3, <2>2, <2>3, <2>4 DEF last, there
<1> QED
  BY <1>4, <1>5

\* A block's part of a read.
LEMMA BlockRead ==
    ASSUME Base, NEW t \in Threads, Retrieve(t)
    PROVE  \E s \in Sessions, here \in Nat, got \in Nat :
              /\ s = call[t].session
              /\ here = position[s] - call[t].block * BlockSize
              /\ got = IF here >= BlockSize THEN 0
                       ELSE Smaller(call[t].left, BlockSize - here)
              /\ got <= call[t].left
              /\ GoesOn(t)
              /\ call'[t].kind = call[t].kind /\ call'[t].at = "advance"
              /\ call'[t].offset = call[t].offset /\ call'[t].count = call[t].count
              /\ call'[t].session = s
              /\ call'[t].block = call[t].block /\ call'[t].last = call[t].last
              /\ call'[t].got = got /\ call'[t].left = call[t].left - got
              /\ call'[t].data = call[t].data \o Bytes(position[s], got)
<1>1. PICK s \in Sessions : s = call[t].session
  BY DEF Retrieve, At, Base, Placed, WithSession
<1>2. /\ call[t] \in Calls /\ call[t].left \in Nat /\ call[t].block \in Nat
      /\ call[t].data \in Seq(Nat) /\ position[s] \in Nat
  BY <1>1 DEF Base, Types, Calls
<1>3. PICK here : here = position[s] - call[t].block * BlockSize
  OBVIOUS
<1>4. here \in Nat /\ here = OffsetInBlock(t)
  <2>1. here = OffsetInBlock(t)
    BY <1>1, <1>3 DEF OffsetInBlock
  <2>2. here >= 0
    BY <2>1 DEF Retrieve
  <2>3. here \in Int
    BY <1>2, <1>3, FileAssumption
  <2> QED
    BY <2>1, <2>2, <2>3
<1>5. PICK got : got = IF here >= BlockSize THEN 0 ELSE Smaller(call[t].left, BlockSize - here)
  OBVIOUS
<1>6. got \in Nat /\ got <= call[t].left
  BY <1>2, <1>4, <1>5, FileAssumption DEF Smaller
<1> DEFINE left == call[t].left - got
           data == call[t].data \o Bytes(position[s], got)
           c == [call[t] EXCEPT !.at = "advance", !.got = got, !.left = left,
                                !.data = data]
<1>7. left \in Nat /\ data \in Seq(Nat)
  <2>1. left \in Nat
    BY <1>2, <1>6
  <2>2. data \in Seq(Nat)
    BY <1>2, <1>6, BytesAreNumbers, ConcatProperties
  <2> QED
    BY <2>1, <2>2
<1>8. c \in Calls
  <2> HIDE DEF left, data
  <2> QED
    BY <1>2, <1>6, <1>7 DEF Calls, Labels
<1>9. /\ c.kind = call[t].kind /\ c.at = "advance"
      /\ c.offset = call[t].offset /\ c.count = call[t].count
      /\ c.session = call[t].session
      /\ c.block = call[t].block /\ c.last = call[t].last
      /\ c.got = got /\ c.left = call[t].left - got
      /\ c.data = call[t].data \o Bytes(position[s], got)
  BY <1>2 DEF Calls
<1>10. Becomes(t, c)
  BY <1>1, <1>4, <1>5 DEF Retrieve
<1> HIDE DEF c
<1>11. GoesOn(t) /\ call'[t] = c
  BY <1>8, <1>10, Became DEF Base
<1> QED
  BY <1>1, <1>3, <1>4, <1>5, <1>6, <1>9, <1>11

LEMMA ReadBase ==
    ASSUME Base, NEW t \in Threads,
           \/ Enter(t) \/ CompareSize(t) \/ SeekTo(t) \/ StartRead(t)
           \/ FirstBlock(t) \/ LastBlock(t) \/ Retrieve(t) \/ RetrieveFails(t) \/ Advance(t) \/ Leave(t)
    PROVE  Base'
<1>1. CASE End(t) /\ UNCHANGED <<fixed, inputData, device>>
  BY <1>1, EndedBase DEF Base, Types, device
<1>2. CASE Enter(t)
  <2>1. call[t].kind = "read"
    BY <1>2 DEF Enter, At, Base, Types, Calls, Kinds, Placed, SeekLabels, CloseLabels
  <2>2. GoesOn(t) /\ call'[t] = [call[t] EXCEPT
                        !.at = IF inputData = None THEN "open" ELSE "compare"]
    BY <1>2, Gone DEF Enter, Base, Labels
  <2>3. Types'
    BY <1>2, <2>2 DEF Enter, Base, Types, fixed, device, GoesOn
  <2>4. Placed(t)'
    BY <1>2, <2>1, <2>2 DEF Enter, Base, Types, Calls, Placed, ReadLabels, WithSession
  <2> QED
    BY <1>2, <2>2, <2>3, <2>4, BaseOfStep, FileAssumption DEF Enter, GoesOn
<1>3. ASSUME NEW here \in {"compare", "seek", "read"}, At(t, here),
             NEW there \in {"seek", "read", "leave"}, Goto(t, there),
             UNCHANGED <<fixed, inputData, live, references, open, monitor, overlapped>>,
             position' \in [Sessions -> Nat]
      PROVE  Base'
  <2>1. call[t].kind = "read"
    BY <1>3 DEF At, Base, Types, Calls, Kinds, Placed, SeekLabels, CloseLabels
  <2>2. GoesOn(t) /\ call'[t] = [call[t] EXCEPT !.at = there]
    BY <1>3, Gone DEF Base, Labels
  <2>3. Types'
    BY <1>3, <2>2 DEF Base, Types, fixed, GoesOn
  <2>4. Placed(t)'
    BY <1>3, <2>1, <2>2 DEF Base, Types, Calls, Placed, At, ReadLabels, WithSession
  <2> QED
    BY <1>3, <2>2, <2>3, <2>4, BaseOfStep DEF GoesOn
<1>4. CASE CompareSize(t)
  BY <1>1, <1>3, <1>4 DEF CompareSize, Cleared, device, Base, Types
<1>5. CASE SeekTo(t)
  <2>1. CASE Cleared(t, "seek")
    BY <1>1, <2>1 DEF Cleared
  <2>2. CASE ~Cleared(t, "seek")
    <3>1. call[t].offset \in Nat
      BY DEF Base, Types, Calls
    <3>2. position' \in [Sessions -> Nat]
      BY <1>5, <2>2, <3>1 DEF SeekTo, Base, Types
    <3> QED
      BY <1>3, <1>5, <2>2, <3>2 DEF SeekTo
  <2> QED
    BY <2>1, <2>2
<1>6. CASE StartRead(t)
  <2>1. CASE End(t) /\ UNCHANGED <<fixed, inputData, device>>
    BY <1>1, <2>1
  <2>2. ASSUME At(t, "read"), inputData # None, inputData \in open,
               NEW left, left = Smaller(call[t].count, size - position[inputData]),
               Clip(t, left),
               UNCHANGED <<fixed, inputData, device, monitor, overlapped>>
        PROVE  Base'
    <3>1. left \in Int
      BY <2>2, FileAssumption DEF Base, Types, Calls, Smaller
    <3>2. CASE left <= 0
      BY <1>3, <2>2, <3>2 DEF Clip, device, Base, Types
    <3>3. CASE ~(left <= 0)
      <4>1. left \in Nat \ {0}
        BY <3>1, <3>3
      <4>2. /\ GoesOn(t) /\ call'[t].kind = call[t].kind /\ call'[t].at = "first"
            /\ call'[t].session = inputData /\ call'[t].left > 0
        BY <2>2, <4>1, Clipping DEF Base
      <4>3. call[t].kind = "read" /\ monitor = t
        BY <2>2 DEF At, Base, Types, Calls, Kinds, Placed, SeekLabels, CloseLabels
      <4>4. Types'
        BY <2>2, <4>2 DEF Base, Types, fixed, device, GoesOn
      <4>5. Placed(t)'
        BY <2>2, <4>2, <4>3 DEF Base, Types, Placed, ReadLabels
      <4> QED
        BY <2>2, <4>2, <4>4, <4>5, BaseOfStep DEF GoesOn
    <3> QED
      BY <3>2, <3>3
  <2> QED
    BY <1>6, <2>1, <2>2 DEF StartRead, Cleared
<1>7. CASE Retrieve(t)
  <2>1. /\ GoesOn(t) /\ call'[t].kind = call[t].kind /\ call'[t].at = "advance"
        /\ call'[t].session \in Sessions
    BY <1>7, BlockRead
  <2>2. call[t].kind = "read" /\ monitor = t
    BY <1>7 DEF Retrieve, At, Base, Types, Calls, Kinds, Placed, SeekLabels, CloseLabels
  <2>3. Types'
    BY <1>7, <2>1 DEF Retrieve, Base, Types, fixed, device, GoesOn
  <2>4. Placed(t)'
    BY <1>7, <2>1, <2>2 DEF Retrieve, Base, Types, Placed, ReadLabels
  <2> QED
    BY <1>7, <2>1, <2>3, <2>4, BaseOfStep DEF Retrieve, GoesOn
<1>8. CASE Advance(t)
  <2>1. call[t].kind = "read" /\ monitor = t /\ call[t].session \in Sessions
    BY <1>8 DEF Advance, At, Base, Types, Calls, Kinds, Placed, SeekLabels, CloseLabels,
                WithSession
  <2> DEFINE done == call[t].block = call[t].last
             there == IF done THEN "leave" ELSE "retrieve"
             block == IF done THEN call[t].block ELSE call[t].block + 1
             c == [call[t] EXCEPT !.at = there, !.block = block]
  <2>2. /\ c \in Calls /\ c.kind = "read" /\ c.at \in {"leave", "retrieve"}
        /\ c.session = call[t].session
    <3>1. call[t] \in Calls /\ block \in Nat /\ there \in {"leave", "retrieve"}
      BY DEF Base, Types, Calls
    <3> HIDE DEF block, there
    <3> QED
      BY <2>1, <3>1 DEF Calls, Labels
  <2>3. Becomes(t, c)
    BY <1>8 DEF Advance
  <2> HIDE DEF c
  <2>4. GoesOn(t) /\ call'[t] = c
    BY <2>2, <2>3, Became DEF Base
  <2>5. position' \in [Sessions -> Nat]
    BY <1>8, <2>1 DEF Advance, Base, Types, Calls
  <2>6. Types'
    BY <1>8, <2>4, <2>5 DEF Advance, Base, Types, fixed, GoesOn
  <2>7. Placed(t)'
    BY <1>8, <2>1, <2>2, <2>4 DEF Advance, Base, Types, Placed, ReadLabels
  <2> QED
    BY <1>8, <2>4, <2>6, <2>7, BaseOfStep DEF Advance, GoesOn
<1>9. CASE FirstBlock(t) \/ LastBlock(t)
  <2>1. /\ call[t].kind = "read" /\ monitor = t /\ call[t].session \in Sessions
        /\ call[t].at \in {"first", "last"}
    BY <1>9 DEF FirstBlock, LastBlock, At, Base, Types, Calls, Kinds, Placed, SeekLabels,
                CloseLabels, WithSession
  <2>2. /\ GoesOn(t) /\ call'[t].kind = "read" /\ call'[t].session \in Sessions
        /\ call'[t].at \in {"last", "retrieve", "leave"} /\ call'[t].left > 0
    BY <1>9, <2>1, BlocksTaken
  <2>3. UNCHANGED <<fixed, inputData, device, monitor, overlapped>>
    BY <1>9 DEF FirstBlock, LastBlock
  <2>4. Types'
    BY <2>2, <2>3 DEF Base, Types, fixed, device, GoesOn
  <2>5. Placed(t)'
    BY <2>1, <2>2, <2>3 DEF Placed, ReadLabels
  <2> QED
    BY <2>2, <2>3, <2>4, <2>5, BaseOfStep DEF GoesOn
<1> QED
  BY <1>1, <1>2, <1>4, <1>5, <1>6, <1>7, <1>8, <1>9 DEF RetrieveFails, Leave

LEMMA SeekCloseBase ==
    ASSUME Base, NEW t \in Threads,
           \/ Move(t) \/ CloseInput(t) \/ DestroyContext(t) \/ CloseStore(t)
           \/ CloseFails(t) \/ Clear(t)
    PROVE  Base'
<1>1. CASE Move(t)
  <2>1. position' \in [Sessions -> Nat]
    BY <1>1, FileAssumption DEF Move, Base, Types
  <2> QED
    BY <1>1, <2>1, EndedBase DEF Move, Base, Types
<1>2. CASE CloseInput(t)
  <2>1. CASE End(t) /\ UNCHANGED <<fixed, inputData, device>>
    BY <2>1, EndedBase DEF Base, Types, device
  <2>2. ASSUME At(t, "isOpen"), inputData # None,
               NEW c \in Calls, GoesOn(t), call'[t] = c, c.kind = call[t].kind,
               c.at \in {"destroy", "clear"}, c.at = "destroy" => c.session = inputData,
               UNCHANGED <<fixed, inputData, device, monitor, overlapped>>
        PROVE  Base'
    <3>1. call[t].kind = "close"
      BY <2>2 DEF At, Base, Types, Calls, Kinds, Placed, SeekLabels, ReadLabels
    <3>2. Types'
      BY <2>2 DEF Base, Types, fixed, device, GoesOn
    <3>3. Placed(t)'
      BY <2>2, <3>1 DEF Base, Types, Placed, CloseLabels, WithSession
    <3> QED
      BY <2>2, <3>2, <3>3, BaseOfStep DEF GoesOn
  <2>3. CASE inputData # None /\ Becomes(t, [call[t] EXCEPT !.at = "destroy",
                                                            !.session = inputData])
    <3> DEFINE c == [call[t] EXCEPT !.at = "destroy", !.session = inputData]
    <3>1. /\ c \in Calls /\ c.kind = call[t].kind /\ c.at = "destroy"
          /\ c.session = inputData
      BY <2>3 DEF Base, Types, Calls, Labels
    <3>2. Becomes(t, c)
      BY <2>3
    <3> HIDE DEF c
    <3>3. GoesOn(t) /\ call'[t] = c
      BY <3>1, <3>2, Became DEF Base
    <3> QED
      BY <1>2, <2>1, <2>2, <3>1, <3>3 DEF CloseInput, Cleared
  <2>4. CASE inputData # None /\ Goto(t, "clear")
    <3>1. GoesOn(t) /\ call'[t] = [call[t] EXCEPT !.at = "clear"]
      BY <2>4, Gone DEF Base, Labels
    <3>2. /\ call'[t] \in Calls /\ call'[t].kind = call[t].kind
          /\ call'[t].at = "clear"
      BY <3>1 DEF GoesOn, Base, Types, Calls
    <3> QED
      BY <1>2, <2>1, <2>2, <2>4, <3>1, <3>2 DEF CloseInput, Cleared
  <2> QED
    BY <1>2, <2>1, <2>3, <2>4 DEF CloseInput, Cleared
<1>3. CASE DestroyContext(t)
  <2>1. call[t].kind = "close" /\ call[t].session \in Sessions
    BY <1>3 DEF DestroyContext, At, Base, Types, Calls, Kinds, Placed, SeekLabels,
                ReadLabels, WithSession
  <2>2. GoesOn(t) /\ call'[t] = [call[t] EXCEPT !.at = "closeStore"]
    BY <1>3, Gone DEF DestroyContext, Base, Labels
  <2>3. Types'
    BY <1>3, <2>2 DEF DestroyContext, Base, Types, fixed, GoesOn
  <2>4. Placed(t)'
    BY <1>3, <2>1, <2>2 DEF DestroyContext, Base, Types, Calls, Placed, CloseLabels
  <2> QED
    BY <1>3, <2>2, <2>3, <2>4, BaseOfStep DEF DestroyContext, GoesOn
<1>4. CASE CloseStore(t)
  <2>1. call[t].kind = "close" /\ call[t].session \in Sessions
    BY <1>4 DEF CloseStore, At, Base, Types, Calls, Kinds, Placed, SeekLabels,
                ReadLabels, WithSession
  <2> DEFINE c == [call[t] EXCEPT !.at = "clear", !.session = None]
  <2>2. c \in Calls /\ c.kind = "close" /\ c.at = "clear"
    BY <2>1 DEF Base, Types, Calls, Labels
  <2>3. Becomes(t, c)
    BY <1>4 DEF CloseStore
  <2> HIDE DEF c
  <2>4. GoesOn(t) /\ call'[t] = c
    BY <2>2, <2>3, Became DEF Base
  <2>5. references' \in [Sessions -> Int]
    BY <1>4, <2>1 DEF CloseStore, Base, Types
  <2>6. Types'
    BY <1>4, <2>4, <2>5 DEF CloseStore, Base, Types, fixed, GoesOn
  <2>7. Placed(t)'
    BY <1>4, <2>1, <2>2, <2>4 DEF CloseStore, Base, Types, Placed, CloseLabels, WithSession
  <2> QED
    BY <1>4, <2>4, <2>6, <2>7, BaseOfStep DEF CloseStore, GoesOn
<1>5. CASE CloseFails(t)
  BY <1>5, EndedBase DEF CloseFails, Base, Types
<1>6. CASE Clear(t)
  BY <1>6, EndedBase DEF Clear, Base, Types, device
<1> QED
  BY <1>1, <1>2, <1>3, <1>4, <1>5, <1>6

\* A call as it begins.
LEMMA Begun ==
    ASSUME Types, NEW t \in Threads, NEW c \in Calls, Becomes(t, c), At(t, "idle"),
           Base, c.kind # "none", c.at \in {"enter", "open", "move", "isOpen"},
           c.kind = "read" => c.at = "enter",
           c.kind = "seek" => c.at \in {"open", "move"},
           c.kind = "close" => c.at = "isOpen",
           UNCHANGED <<fixed, inputData, device, monitor>>,
           overlapped' \in SUBSET Threads,
           \/ overlapped' \subseteq overlapped \cup Running("read")
           \/ /\ c.kind = "read"
              /\ overlapped' \subseteq overlapped \cup {t}
    PROVE  Base'
<1>1. GoesOn(t) /\ call'[t] = c
  BY Became
<1>2. Types'
  BY <1>1 DEF Types, fixed, device, GoesOn
<1>3. call[t].kind = "none" /\ t \notin overlapped
  BY DEF Base, Placed, At
<1>4. Placed(t)'
  BY <1>1, <1>3 DEF Placed, ReadLabels, SeekLabels, CloseLabels, WithSession, Running
<1>5. overlapped' \cap (Threads \ {t}) \subseteq
          overlapped \cup {u \in Threads : call[u].kind = "read"}
  BY DEF Running
<1> QED
  BY <1>1, <1>2, <1>4, <1>5, BaseOfStep DEF GoesOn

LEMMA BeginBase ==
    ASSUME Base, NEW t \in Threads,
           \/ \E o \in Offsets, n \in Counts : BeginRead(t, o, n)
           \/ BeginSeek(t)
           \/ BeginClose(t)
    PROVE  Base'
<1>1. ASSUME NEW o \in Offsets, NEW n \in Counts, BeginRead(t, o, n) PROVE Base'
  <2> DEFINE c == [Idle EXCEPT !.kind = "read", !.at = "enter", !.offset = o, !.count = n]
  <2>1. c \in Calls /\ c.kind = "read" /\ c.at = "enter"
    BY IdleCall, FileAssumption DEF Calls, Kinds, Labels
  <2>2. Becomes(t, c)
    BY <1>1 DEF BeginRead
  <2> HIDE DEF c
  <2> QED
    BY <1>1, <2>1, <2>2, Begun DEF BeginRead, Base, Types
<1>2. CASE BeginSeek(t)
  <2> DEFINE c == [Idle EXCEPT !.kind = "seek",
                               !.at = IF inputData = None THEN "open" ELSE "move"]
  <2>1. c \in Calls /\ c.kind = "seek" /\ c.at \in {"open", "move"}
    BY IdleCall DEF Calls, Kinds, Labels
  <2>2. Becomes(t, c)
    BY <1>2 DEF BeginSeek
  <2> HIDE DEF c
  <2> QED
    <3>1. overlapped' \in SUBSET Threads
      BY <1>2 DEF BeginSeek, Base, Types, Running
    <3>2. overlapped' \subseteq overlapped \cup Running("read")
      BY <1>2 DEF BeginSeek
    <3>3. /\ At(t, "idle") /\ Types
          /\ UNCHANGED <<fixed, inputData, device, monitor>>
      BY <1>2 DEF BeginSeek, Base
    <3>4. c.kind # "none" /\ c.kind # "read" /\ c.kind # "close"
      BY <2>1
    <3> QED
      BY <2>1, <2>2, <3>1, <3>2, <3>3, <3>4, Begun
<1>3. CASE BeginClose(t)
  <2> DEFINE c == [Idle EXCEPT !.kind = "close", !.at = "isOpen"]
  <2>1. c \in Calls /\ c.kind = "close" /\ c.at = "isOpen"
    BY IdleCall DEF Calls, Kinds, Labels
  <2>2. Becomes(t, c)
    BY <1>3 DEF BeginClose
  <2> HIDE DEF c
  <2> QED
    BY <1>3, <2>1, <2>2, Begun DEF BeginClose, Base, Types
<1> QED
  BY <1>1, <1>2, <1>3

LEMMA InitBase == Init => Base
  BY IdleCall DEF Init, Base, Types, Placed, WithSession

LEMMA NextBase == Base /\ [Next]_vars => Base'
<1> SUFFICES ASSUME Base, [Next]_vars PROVE Base'
  OBVIOUS
<1>1. CASE UNCHANGED vars
  BY <1>1 DEF vars, fixed, device, Base, Types, Placed
<1>2. CASE Crash
  BY <1>2, IdleCall DEF Crash, fixed, Base, Types, Placed, WithSession
<1>3. ASSUME NEW t \in Threads, Step(t) PROVE Base'
  BY <1>3, OpenBase, ReadBase, SeekCloseBase DEF Step
<1> QED
  BY <1>1, <1>2, <1>3, BeginBase DEF Next

LEMMA AlwaysBase == Spec => []Base
  BY InitBase, NextBase, PTL DEF Spec

-----------------------------------------------------------------------------
(* Sessions and references. *)

\* Steps that connect, close and count nothing.
LEMMA QuietAccounted ==
    ASSUME Base, Accounted, NEW t \in Threads,
           faults' = faults, live' = live, references' = references, open' = open,
           inputData' \in {inputData, None},
           \A u \in Threads \ {t} : call'[u] = call[u],
           call'[t].at \notin {"connect", "destroy", "closeStore"},
           call[t].at # "closeStore",
           call'[t].session \in {None, inputData, call[t].session},
           call'[t].kind = "close" => call[t].kind = "close"
    PROVE  Accounted'
<1>1. ASSUME NEW u \in Threads PROVE Connecting(u)'
  <2>1. CASE u = t
    BY <2>1 DEF Connecting
  <2>2. CASE u # t
    <3>1. call[u].at = "connect" =>
             /\ call[u].session \in Sessions
             /\ \A v \in Threads \ {u} : call'[v].session # call[u].session
      BY <2>2, FileAssumption DEF Accounted, Connecting, Base, Types, Placed, WithSession
    <3> QED
      BY <2>2, <3>1, FileAssumption DEF Accounted, Connecting
  <2> QED
    BY <2>1, <2>2
<1>2. Opened'
  BY DEF Accounted, Opened
<1>3. ASSUME "closes" \notin faults
      PROVE  OneClose' /\ Alive' /\ \A u \in Threads : Closing(u)'
  <2>1. OneClose'
    BY <1>3 DEF Accounted, OneClose
  <2>2. Alive'
    BY <1>3 DEF Accounted, Alive
  <2>3. ASSUME NEW u \in Threads PROVE Closing(u)'
    BY <1>3 DEF Accounted, Closing
  <2> QED
    BY <2>1, <2>2, <2>3
<1> QED
  BY <1>1, <1>2, <1>3 DEF Accounted

LEMMA OpenAccounted ==
    ASSUME Base, Accounted, NEW t \in Threads,
           OpenFile(t) \/ OpenDevice(t) \/ OpenFails(t)
    PROVE  Accounted'
<1>1. CASE OpenFile(t)
  <2>1. CASE inputData # None /\ UNCHANGED live
             /\ Goto(t, IF call[t].kind = "read" THEN "compare" ELSE "move")
    <3>1. GoesOn(t) /\ call'[t] = [call[t] EXCEPT
             !.at = IF call[t].kind = "read" THEN "compare" ELSE "move"]
      BY <2>1, Gone DEF Base, Labels
    <3>2. /\ call'[t].at \in {"compare", "move"} /\ call'[t].session = call[t].session
          /\ call'[t].kind = call[t].kind
      BY <3>1 DEF Base, Types, Calls
    <3> QED
      BY <1>1, <2>1, <3>1, <3>2, QuietAccounted DEF OpenFile, At, fixed, GoesOn
  <2>2. ASSUME NEW s \in Free, live' = live \cup {s},
               Becomes(t, [call[t] EXCEPT !.at = "connect", !.session = s])
        PROVE  Accounted'
    <3>1. /\ s \in Sessions /\ s \notin live /\ references[s] = 0 /\ s # inputData
          /\ \A u \in Threads : call[u].session # s
      BY DEF Free
    <3>2. GoesOn(t) /\ call'[t].at = "connect" /\ call'[t].session = s
          /\ call'[t].kind = call[t].kind
      <4> DEFINE c == [call[t] EXCEPT !.at = "connect", !.session = s]
      <4>1. /\ c \in Calls /\ c.at = "connect" /\ c.session = s
            /\ c.kind = call[t].kind
        BY <3>1 DEF Base, Types, Calls, Labels
      <4> HIDE DEF c
      <4> QED
        BY <2>2, <4>1, Became DEF Base, c
    <3>3. /\ references' = references /\ open' = open /\ inputData' = inputData
          /\ faults' = faults /\ call[t].at = "open"
      BY <1>1 DEF OpenFile, fixed, At
    <3>4. \A u \in Threads \ {t} : call'[u] = call[u]
      BY <3>2 DEF GoesOn
    <3>5. ASSUME NEW u \in Threads PROVE Connecting(u)'
      BY <2>2, <3>1, <3>2, <3>3, <3>4 DEF Accounted, Connecting
    <3>6. Opened'
      BY <3>3 DEF Accounted, Opened
    <3>7. ASSUME "closes" \notin faults
          PROVE  OneClose' /\ Alive' /\ \A u \in Threads : Closing(u)'
      <4>1. OneClose'
        BY <3>2, <3>4, <3>7 DEF Accounted, OneClose
      <4>2. Alive'
        BY <2>2, <3>2, <3>3, <3>4, <3>7 DEF Accounted, Alive
      <4>3. ASSUME NEW u \in Threads PROVE Closing(u)'
        BY <2>2, <3>2, <3>3, <3>4, <3>7 DEF Accounted, Closing
      <4> QED
        BY <4>1, <4>2, <4>3
    <3> QED
      BY <3>3, <3>5, <3>6, <3>7 DEF Accounted
  <2> QED
    BY <1>1, <2>1, <2>2 DEF OpenFile
<1>2. CASE OpenDevice(t)
  <2> DEFINE s == call[t].session
  <2>1. /\ call[t].at = "connect" /\ s \in Sessions /\ s \in live /\ references[s] = 0
        /\ \A u \in Threads \ {t} : call[u].session # s
    BY <1>2 DEF OpenDevice, At, Base, Placed, WithSession, Accounted, Connecting
  <2>2. GoesOn(t) /\ call'[t].at \in {"compare", "move"} /\ call'[t].session = None
        /\ call'[t].kind = call[t].kind
    <3> DEFINE there == IF call[t].kind = "read" THEN "compare" ELSE "move"
               c == [call[t] EXCEPT !.at = there, !.session = None]
    <3>1. there \in {"compare", "move"}
      OBVIOUS
    <3> HIDE DEF there
    <3>2. /\ c \in Calls /\ c.at = there /\ c.session = None
          /\ c.kind = call[t].kind
      BY <3>1 DEF Base, Types, Calls, Labels
    <3>3. Becomes(t, c)
      BY <1>2 DEF OpenDevice, there
    <3> HIDE DEF c
    <3> QED
      BY <3>1, <3>2, <3>3, Became DEF Base
  <2>3. /\ faults' = faults /\ live' = live /\ inputData' = s
        /\ references' = [references EXCEPT ![s] = @ + 1] /\ open' = open \cup {s}
    BY <1>2 DEF OpenDevice, fixed
  <2>4. references'[s] = 1 /\ \A x \in Sessions \ {s} : references'[x] = references[x]
    BY <2>1, <2>3 DEF Base, Types
  <2>5. \A u \in Threads \ {t} : call'[u] = call[u]
    BY <2>2 DEF GoesOn
  <2> HIDE DEF s
  <2>6. ASSUME NEW u \in Threads PROVE Connecting(u)'
    <3>1. CASE u = t
      BY <2>2, <3>1 DEF Connecting
    <3>2. CASE u # t /\ call[u].at = "connect"
      <4>1. call[u].session \in Sessions \ {s} /\ call[u].session # None
        BY <2>1, <3>2, FileAssumption DEF Base, Placed, WithSession
      <4> QED
        BY <2>2, <2>3, <2>4, <2>5, <3>2, <4>1 DEF Accounted, Connecting
    <3> QED
      BY <2>5, <3>1, <3>2 DEF Connecting
  <2>7. Opened'
    BY <2>3, <2>4 DEF Accounted, Opened, Base, Types
  <2>8. ASSUME "closes" \notin faults
        PROVE  OneClose' /\ Alive' /\ \A u \in Threads : Closing(u)'
    <3>1. OneClose'
      BY <2>2, <2>5, <2>8 DEF Accounted, OneClose
    <3>2. Alive'
      BY <2>1, <2>3, <2>5, <2>8 DEF Accounted, Alive
    <3>3. ASSUME NEW u \in Threads PROVE Closing(u)'
      BY <2>2, <2>3, <2>5, <2>8 DEF Accounted, Closing
    <3> QED
      BY <3>1, <3>2, <3>3
  <2> QED
    BY <2>3, <2>6, <2>7, <2>8 DEF Accounted
<1>3. CASE OpenFails(t)
  <2> DEFINE s == call[t].session
  <2>1. /\ call[t].at = "connect" /\ s \in Sessions /\ s \in live /\ references[s] = 0
        /\ \A u \in Threads \ {t} : call[u].session # s
    BY <1>3 DEF OpenFails, At, Base, Placed, WithSession, Accounted, Connecting
  <2>2. s \notin open
    BY <2>1 DEF Accounted, Opened
  <2>3. call'[t] = Idle /\ \A u \in Threads \ {t} : call'[u] = call[u]
    BY <1>3, Ended DEF OpenFails, Base
  <2>4. faults' = faults /\ inputData' = inputData /\ open' = open
    BY <1>3 DEF OpenFails, fixed
  <2>5. /\ \A x \in Sessions \ {s} : references'[x] = references[x]
        /\ live' \in {live, live \ {s}}
    BY <1>3 DEF OpenFails, Base, Types
  <2> HIDE DEF s
  <2>6. ASSUME NEW u \in Threads PROVE Connecting(u)'
    <3>1. CASE u = t
      BY <2>3, <3>1, IdleCall DEF Connecting
    <3>2. CASE u # t /\ call[u].at = "connect"
      <4>1. call[u].session \in Sessions \ {s} /\ call[u].session # None
        BY <2>1, <3>2, FileAssumption DEF Base, Placed, WithSession
      <4> QED
        BY <2>3, <2>4, <2>5, <3>2, <4>1 DEF Accounted, Connecting, Idle
    <3> QED
      BY <2>3, <3>1, <3>2 DEF Connecting
  <2>7. Opened'
    BY <2>2, <2>4, <2>5 DEF Accounted, Opened, Base, Types
  <2>8. ASSUME "closes" \notin faults
        PROVE  OneClose' /\ Alive' /\ \A u \in Threads : Closing(u)'
    <3>1. OneClose'
      BY <2>3, <2>8, IdleCall DEF Accounted, OneClose
    <3>2. Alive'
      BY <2>1, <2>2, <2>3, <2>4, <2>5, <2>8 DEF Accounted, Alive
    <3>3. ASSUME NEW u \in Threads PROVE Closing(u)'
      BY <2>2, <2>3, <2>4, <2>5, <2>8, IdleCall DEF Accounted, Closing
    <3> QED
      BY <3>1, <3>2, <3>3
  <2> QED
    BY <2>4, <2>6, <2>7, <2>8 DEF Accounted
<1> QED
  BY <1>1, <1>2, <1>3

\* A call that ends without giving anything back.
LEMMA EndedAccounted ==
    ASSUME Base, Accounted, NEW t \in Threads, End(t),
           faults' = faults, live' = live, references' = references, open' = open,
           inputData' \in {inputData, None}, call[t].at # "closeStore"
    PROVE  Accounted'
<1>1. /\ call'[t].at = "idle" /\ call'[t].session = None /\ call'[t].kind = "none"
      /\ \A u \in Threads \ {t} : call'[u] = call[u]
  BY Ended DEF Base, Idle
<1> QED
  BY <1>1, QuietAccounted

LEMMA ReadAccounted ==
    ASSUME Base, Accounted, NEW t \in Threads,
           \/ Enter(t) \/ CompareSize(t) \/ SeekTo(t) \/ StartRead(t)
           \/ FirstBlock(t) \/ LastBlock(t) \/ Retrieve(t) \/ RetrieveFails(t) \/ Advance(t) \/ Leave(t) \/ Move(t)
           \/ Clear(t)
    PROVE  Accounted'
<1>1. CASE End(t) /\ UNCHANGED <<faults, live, references, open>>
           /\ inputData' \in {inputData, None}
           /\ call[t].at \in Labels \ {"closeStore"}
  BY <1>1, EndedAccounted
<1>2. ASSUME NEW there \in Labels \ {"connect", "destroy", "closeStore"},
             Goto(t, there), call[t].at \in ReadLabels,
             UNCHANGED <<faults, live, references, open, inputData>>
      PROVE  Accounted'
  <2>1. GoesOn(t) /\ call'[t] = [call[t] EXCEPT !.at = there]
    BY <1>2, Gone DEF Base
  <2>2. /\ call'[t].at = there /\ call'[t].session = call[t].session
        /\ call'[t].kind = call[t].kind
        /\ call[t].at # "closeStore"
    BY <1>2, <2>1 DEF Base, Types, Calls, ReadLabels
  <2> QED
    BY <1>2, <2>1, <2>2, QuietAccounted DEF GoesOn
<1>3. CASE Enter(t)
  BY <1>2, <1>3 DEF Enter, At, fixed, device, Labels, ReadLabels
<1>4. CASE CompareSize(t)
  BY <1>1, <1>2, <1>4 DEF CompareSize, Cleared, At, fixed, device, Labels, ReadLabels
<1>5. CASE SeekTo(t)
  BY <1>1, <1>2, <1>5 DEF SeekTo, Cleared, At, fixed, device, Labels, ReadLabels
<1>6. CASE StartRead(t)
  <2>1. CASE End(t) /\ UNCHANGED <<fixed, inputData, device>>
    BY <1>1, <1>6, <2>1 DEF StartRead, Cleared, At, fixed, device, Labels
  <2>2. ASSUME At(t, "read"), inputData # None,
               NEW left, left = Smaller(call[t].count, size - position[inputData]),
               Clip(t, left),
               UNCHANGED <<fixed, inputData, device, monitor, overlapped>>
        PROVE  Accounted'
    <3>1. left \in Int
      BY <2>2, FileAssumption DEF Base, Types, Calls, Smaller
    <3>2. CASE left <= 0
      BY <1>2, <2>2, <3>2 DEF Clip, At, fixed, device, Labels, ReadLabels
    <3>3. CASE ~(left <= 0)
      <4>1. left \in Nat \ {0}
        BY <3>1, <3>3
      <4>2. /\ GoesOn(t) /\ call'[t].kind = call[t].kind /\ call'[t].at = "first"
            /\ call'[t].session = inputData
        BY <2>2, <4>1, Clipping DEF Base
      <4> QED
        BY <2>2, <4>2, QuietAccounted DEF At, fixed, device, GoesOn
    <3> QED
      BY <3>2, <3>3
  <2> QED
    BY <1>6, <2>1, <2>2 DEF StartRead, Cleared
<1>7. CASE Retrieve(t)
  <2>1. /\ GoesOn(t) /\ call'[t].kind = call[t].kind /\ call'[t].at = "advance"
        /\ call'[t].session = call[t].session
    BY <1>7, BlockRead
  <2> QED
    BY <1>7, <2>1, QuietAccounted DEF Retrieve, At, fixed, device, GoesOn
<1>8. CASE Advance(t)
  <2> DEFINE done == call[t].block = call[t].last
             there == IF done THEN "leave" ELSE "retrieve"
             block == IF done THEN call[t].block ELSE call[t].block + 1
             c == [call[t] EXCEPT !.at = there, !.block = block]
  <2>1. block \in Nat /\ there \in {"leave", "retrieve"}
    BY DEF Base, Types, Calls
  <2>2. Becomes(t, c)
    BY <1>8 DEF Advance
  <2> HIDE DEF block, there
  <2>3. c \in Calls /\ c.kind = call[t].kind /\ c.at = there /\ c.session = call[t].session
    BY <2>1 DEF Base, Types, Calls, Labels
  <2> HIDE DEF c
  <2>4. GoesOn(t) /\ call'[t] = c
    BY <2>2, <2>3, Became DEF Base
  <2> QED
    BY <1>8, <2>1, <2>3, <2>4, QuietAccounted DEF Advance, At, fixed, GoesOn
<1>9. CASE RetrieveFails(t) \/ Leave(t) \/ Move(t) \/ Clear(t)
  BY <1>1, <1>9 DEF RetrieveFails, Leave, Move, Clear, At, fixed, device, Labels
<1>10. CASE FirstBlock(t) \/ LastBlock(t)
  <2>1. /\ GoesOn(t) /\ call'[t].kind = call[t].kind
        /\ call'[t].at \in {"last", "retrieve", "leave"}
        /\ call'[t].session = call[t].session /\ call[t].at \in {"first", "last"}
    BY <1>10, BlocksTaken
  <2> QED
    BY <1>10, <2>1, QuietAccounted DEF FirstBlock, LastBlock, fixed, device, GoesOn
<1> QED
  BY <1>3, <1>4, <1>5, <1>6, <1>7, <1>8, <1>9, <1>10

\* A close goes to the context, or finds the data closed.
LEMMA CloseInputAccounted ==
    ASSUME Base, Accounted, NEW t \in Threads, CloseInput(t)
    PROVE  Accounted'
<1>1. CASE Cleared(t, "isOpen")
  BY <1>1, EndedAccounted DEF Cleared, At, fixed, device
<1>2. CASE inputData \notin open /\ Goto(t, "clear") /\ ~Cleared(t, "isOpen")
  <2>1. GoesOn(t) /\ call'[t] = [call[t] EXCEPT !.at = "clear"]
    BY <1>2, Gone DEF Base, Labels
  <2>2. /\ call'[t].at = "clear" /\ call'[t].session = call[t].session
        /\ call'[t].kind = call[t].kind
    BY <2>1 DEF Base, Types, Calls
  <2> QED
    BY <1>2, <2>1, <2>2, QuietAccounted DEF CloseInput, At, fixed, device, GoesOn
<1>3. CASE /\ inputData \in open /\ ~Cleared(t, "isOpen")
           /\ Becomes(t, [call[t] EXCEPT !.at = "destroy", !.session = inputData])
  <2> DEFINE c == [call[t] EXCEPT !.at = "destroy", !.session = inputData]
  <2>1. /\ c \in Calls /\ c.kind = call[t].kind /\ c.at = "destroy"
        /\ c.session = inputData
    BY <1>3 DEF Base, Types, Calls, Labels
  <2>2. Becomes(t, c)
    BY <1>3
  <2> HIDE DEF c
  <2>3. GoesOn(t) /\ call'[t] = c
    BY <2>1, <2>2, Became DEF Base
  <2>4. /\ call[t].at = "isOpen" /\ faults' = faults /\ inputData' = inputData
        /\ live' = live /\ references' = references /\ open' = open
    BY <1>3 DEF CloseInput, At, fixed, device
  <2>5. call[t].kind = "close"
    BY <2>4 DEF Base, Types, Calls, Kinds, Placed, SeekLabels, ReadLabels
  <2>6. \A u \in Threads \ {t} : call'[u] = call[u]
    BY <2>3 DEF GoesOn
  <2>7. ASSUME NEW u \in Threads PROVE Connecting(u)'
    BY <2>1, <2>3, <2>4, <2>6 DEF Accounted, Connecting
  <2>8. Opened'
    BY <2>4 DEF Accounted, Opened
  <2>9. ASSUME "closes" \notin faults
        PROVE  OneClose' /\ Alive' /\ \A u \in Threads : Closing(u)'
    <3>1. OneClose'
      BY <2>1, <2>3, <2>6, <2>9 DEF Accounted, OneClose
    <3>2. Alive'
      BY <2>1, <2>3, <2>4, <2>6, <2>9 DEF Accounted, Alive
    <3>3. \A u \in Threads : call[u].at # "closeStore"
      BY <2>4, <2>5, <2>9 DEF Accounted, OneClose, Base, Types, Calls, Kinds, Placed,
                              SeekLabels, ReadLabels
    <3>4. inputData \in live
      BY <1>3, <2>9, <3>3 DEF Accounted, Alive
    <3>5. ASSUME NEW u \in Threads PROVE Closing(u)'
      BY <1>3, <2>1, <2>3, <2>4, <2>6, <2>9, <3>4 DEF Accounted, Closing
    <3> QED
      BY <3>1, <3>2, <3>5
  <2> QED
    BY <2>4, <2>7, <2>8, <2>9 DEF Accounted
<1> QED
  BY <1>1, <1>2, <1>3 DEF CloseInput

\* The parts of a close.
LEMMA CloseAccounted ==
    ASSUME Base, Accounted, NEW t \in Threads,
           DestroyContext(t) \/ CloseStore(t) \/ CloseFails(t)
    PROVE  Accounted'
<1> DEFINE s == call[t].session
<1>1. /\ call[t].at \in {"destroy", "closeStore"} /\ s \in Sessions
      /\ faults' = faults /\ inputData' = inputData
  BY DEF DestroyContext, CloseStore, CloseFails, At, Base, Placed, WithSession, fixed
<1>2. call[t].kind = "close"
  BY <1>1 DEF Base, Types, Calls, Kinds, Placed, SeekLabels, ReadLabels
<1>3. \A u \in Threads \ {t} : call[u].at = "connect" => call[u].session # s
  BY DEF Accounted, Connecting
<1>4. \A u \in Threads \ {t} : call'[u] = call[u]
  <2>1. CASE DestroyContext(t)
    BY <2>1, Gone DEF DestroyContext, Base, Labels, GoesOn
  <2>2. CASE CloseStore(t)
    BY <2>2 DEF CloseStore, Becomes, Base, Types
  <2>3. CASE CloseFails(t)
    BY <2>3, Ended DEF CloseFails, Base
  <2> QED
    BY <2>1, <2>2, <2>3
<1>5. CASE DestroyContext(t)
  <2>1. /\ call[t].at = "destroy" /\ live' = live \ {s} /\ references' = references
        /\ open' = open
    BY <1>5 DEF DestroyContext, At
  <2>2. call'[t].at = "closeStore" /\ call'[t].session = s /\ call'[t].kind = "close"
    <3>1. call'[t] = [call[t] EXCEPT !.at = "closeStore"]
      BY <1>5, Gone DEF DestroyContext, Base, Labels
    <3> QED
      BY <1>2, <3>1 DEF Base, Types, Calls
  <2> HIDE DEF s
  <2>3. ASSUME NEW u \in Threads PROVE Connecting(u)'
    BY <1>1, <1>3, <1>4, <2>1, <2>2 DEF Accounted, Connecting
  <2>4. Opened'
    BY <2>1 DEF Accounted, Opened
  <2>5. ASSUME "closes" \notin faults
        PROVE  OneClose' /\ Alive' /\ \A u \in Threads : Closing(u)'
    <3>1. OneClose'
      BY <1>2, <1>4, <2>5 DEF Accounted, OneClose
    <3>2. Alive'
      BY <1>4, <2>1, <2>2, <2>5 DEF Accounted, Alive
    <3>3. \A u \in Threads \ {t} : call[u].at \notin {"destroy", "closeStore"}
      BY <1>2, <2>5 DEF Accounted, OneClose, Base, Types, Calls, Kinds, Placed,
                        SeekLabels, ReadLabels
    <3>4. s \in open
      BY <2>1, <2>5 DEF Accounted, Closing, s
    <3>5. ASSUME NEW u \in Threads PROVE Closing(u)'
      BY <1>4, <2>1, <2>2, <3>3, <3>4 DEF Closing
    <3> QED
      BY <3>1, <3>2, <3>5
  <2> QED
    BY <1>1, <2>3, <2>4, <2>5 DEF Accounted
<1>6. CASE CloseStore(t)
  <2>1. /\ call[t].at = "closeStore" /\ live' = live /\ open' = open \ {s}
        /\ \A x \in Sessions \ {s} : references'[x] = references[x]
    BY <1>1, <1>6 DEF CloseStore, At, Base, Types
  <2>2. call'[t].at = "clear" /\ call'[t].session = None
    BY <1>6 DEF CloseStore, Becomes, Base, Types, Calls
  <2> HIDE DEF s
  <2>3. ASSUME NEW u \in Threads PROVE Connecting(u)'
    <3>1. CASE u # t /\ call[u].at = "connect"
      <4>1. call[u].session \in Sessions \ {s} /\ call[u].session # None
        BY <1>3, <3>1, FileAssumption DEF Base, Placed, WithSession
      <4> QED
        BY <1>1, <1>4, <2>1, <2>2, <3>1, <4>1 DEF Accounted, Connecting
    <3> QED
      BY <1>4, <2>2, <3>1 DEF Connecting
  <2>4. Opened'
    BY <2>1 DEF Accounted, Opened, Base, Types
  <2>5. ASSUME "closes" \notin faults
        PROVE  OneClose' /\ Alive' /\ \A u \in Threads : Closing(u)'
    <3>1. OneClose'
      BY <1>2, <1>4, <2>5 DEF Accounted, OneClose
    <3>2. Alive'
      BY <1>4, <2>1, <2>5 DEF Accounted, Alive, s
    <3>3. \A u \in Threads \ {t} : call[u].at \notin {"destroy", "closeStore"}
      BY <1>2, <2>5 DEF Accounted, OneClose, Base, Types, Calls, Kinds, Placed,
                        SeekLabels, ReadLabels
    <3>4. ASSUME NEW u \in Threads PROVE Closing(u)'
      BY <1>4, <2>2, <3>3 DEF Closing
    <3> QED
      BY <3>1, <3>2, <3>4
  <2> QED
    BY <1>1, <2>3, <2>4, <2>5 DEF Accounted
<1>7. CASE CloseFails(t)
  <2>1. /\ live' = live /\ open' = open \ {s} /\ references' = references
        /\ call'[t] = Idle
    BY <1>7, Ended DEF CloseFails, Base
  <2> HIDE DEF s
  <2>2. ASSUME NEW u \in Threads PROVE Connecting(u)'
    <3>1. CASE u # t /\ call[u].at = "connect"
      <4>1. call[u].session \in Sessions \ {s} /\ call[u].session # None
        BY <1>3, <3>1, FileAssumption DEF Base, Placed, WithSession
      <4> QED
        BY <1>1, <1>4, <2>1, <3>1, <4>1 DEF Accounted, Connecting, Idle
    <3> QED
      BY <1>4, <2>1, <3>1, IdleCall DEF Connecting
  <2>3. Opened'
    BY <2>1 DEF Accounted, Opened
  <2>4. ASSUME "closes" \notin faults
        PROVE  OneClose' /\ Alive' /\ \A u \in Threads : Closing(u)'
    <3>1. OneClose'
      BY <1>2, <1>4, <2>4 DEF Accounted, OneClose
    <3>2. Alive'
      BY <1>4, <2>1, <2>4 DEF Accounted, Alive, s
    <3>3. \A u \in Threads \ {t} : call[u].at \notin {"destroy", "closeStore"}
      BY <1>2, <2>4 DEF Accounted, OneClose, Base, Types, Calls, Kinds, Placed,
                        SeekLabels, ReadLabels
    <3>4. ASSUME NEW u \in Threads PROVE Closing(u)'
      BY <1>4, <2>1, <3>3, IdleCall DEF Closing
    <3> QED
      BY <3>1, <3>2, <3>4
  <2> QED
    BY <1>1, <2>2, <2>3, <2>4 DEF Accounted
<1> QED
  BY <1>5, <1>6, <1>7

LEMMA BeginAccounted ==
    ASSUME Base, Accounted, NEW t \in Threads,
           \/ \E o \in Offsets, n \in Counts : BeginRead(t, o, n)
           \/ BeginSeek(t)
           \/ BeginClose(t)
    PROVE  Accounted'
<1>1. /\ faults' = faults /\ live' = live /\ references' = references
      /\ open' = open /\ inputData' = inputData /\ call[t].at = "idle"
      /\ \A u \in Threads \ {t} : call'[u] = call[u]
  BY DEF BeginRead, BeginSeek, BeginClose, Becomes, fixed, device, At, Base, Types
<1>2. CASE (\E o \in Offsets, n \in Counts : BeginRead(t, o, n)) \/ BeginSeek(t)
  <2>1. /\ call'[t].at \in {"enter", "open", "move"} /\ call'[t].kind # "close"
        /\ call'[t].session = None
    <3>1. ASSUME NEW o \in Offsets, NEW n \in Counts, BeginRead(t, o, n)
          PROVE  /\ call'[t].at = "enter" /\ call'[t].kind = "read"
                 /\ call'[t].session = None
      BY <3>1 DEF BeginRead, Becomes, Idle, Base, Types
    <3>2. CASE BeginSeek(t)
      <4> DEFINE there == IF inputData = None THEN "open" ELSE "move"
      <4>1. there \in {"open", "move"}
        OBVIOUS
      <4>2. Becomes(t, [Idle EXCEPT !.kind = "seek", !.at = there])
        BY <3>2 DEF BeginSeek
      <4> HIDE DEF there
      <4> QED
        BY <4>1, <4>2 DEF Becomes, Idle, Base, Types
    <3> QED
      BY <1>2, <3>1, <3>2
  <2> QED
    BY <1>1, <2>1, QuietAccounted
<1>3. CASE BeginClose(t)
  <2>1. /\ call'[t].at = "isOpen" /\ call'[t].kind = "close"
        /\ call'[t].session = None
    BY <1>3 DEF BeginClose, Becomes, Idle, Base, Types
  <2>2. ASSUME NEW u \in Threads PROVE Connecting(u)'
    BY <1>1, <2>1, FileAssumption DEF Accounted, Connecting, Base, Placed, WithSession
  <2>3. Opened'
    BY <1>1 DEF Accounted, Opened
  <2>4. ASSUME "closes" \notin faults
        PROVE  OneClose' /\ Alive' /\ \A u \in Threads : Closing(u)'
    <3>1. \A u \in Threads : call[u].kind # "close"
      BY <1>3, <2>4 DEF BeginClose, Running
    <3>2. OneClose'
      BY <1>1, <3>1 DEF OneClose
    <3>3. Alive'
      BY <1>1, <2>4 DEF Accounted, Alive
    <3>4. ASSUME NEW u \in Threads PROVE Closing(u)'
      BY <1>1, <2>1, <2>4 DEF Accounted, Closing
    <3> QED
      BY <3>2, <3>3, <3>4
  <2> QED
    BY <1>1, <2>2, <2>3, <2>4 DEF Accounted
<1> QED
  BY <1>2, <1>3

LEMMA InitAccounted == Init => Accounted
  BY IdleCall DEF Init, Accounted, Connecting, Opened, OneClose, Alive, Closing

LEMMA NextAccounted == Base /\ Accounted /\ [Next]_vars => Accounted'
<1> SUFFICES ASSUME Base, Accounted, [Next]_vars PROVE Accounted'
  OBVIOUS
<1>1. CASE UNCHANGED vars
  BY <1>1 DEF vars, fixed, device, Accounted, Connecting, Opened, OneClose, Alive, Closing
<1>2. CASE Crash
  BY <1>2, IdleCall DEF Crash, fixed, Accounted, Connecting, Opened, OneClose, Alive,
                        Closing
<1>3. ASSUME NEW t \in Threads, Step(t) PROVE Accounted'
  BY <1>3, OpenAccounted, ReadAccounted, CloseInputAccounted, CloseAccounted DEF Step
<1> QED
  BY <1>1, <1>2, <1>3, BeginAccounted DEF Next

LEMMA AlwaysAccounted == Spec => [](Base /\ Accounted)
  BY AlwaysBase, InitAccounted, NextAccounted, PTL DEF Spec

(***************************************************************************)
(* While closes do not run at the same time, no close destroys a context   *)
(* or drops a reference that another has given back, whatever opens, reads *)
(* and seeks run with it and whatever part of an earlier close failed.     *)
(***************************************************************************)
THEOREM GivenBackAtMostOnce == Spec => []GivenBackOnce
<1>1. ASSUME Base, Accounted, "closes" \notin faults, NEW t \in Threads
      PROVE  /\ At(t, "destroy") => call[t].session \in live
             /\ At(t, "closeStore") => references[call[t].session] = 1
  BY <1>1 DEF Accounted, Closing, Opened, At
<1>2. Base /\ Accounted => GivenBackOnce
  BY <1>1 DEF GivenBackOnce
<1> QED
  BY <1>2, AlwaysAccounted, PTL

-----------------------------------------------------------------------------
(* No session is lost. *)

\* Of the calls that may run here, only reads connect, and only one of them.
LEMMA OneConnects ==
    ASSUME Base, Known, NEW t \in Threads, NEW u \in Threads,
           call[t].at = "connect", call[u].at = "connect"
    PROVE  t = u
  BY DEF Known, Base, Placed, Types, Calls, Kinds, CloseLabels

LEMMA ClosesAlone ==
    ASSUME Base, Accounted, Orderly
    PROVE  \A t, u \in Threads : call[t].at \in CloseLabels /\ call[u].at \in CloseLabels
                                     => t = u
<1>1. \A t \in Threads : call[t].at \in CloseLabels => call[t].kind = "close"
  BY DEF Base, Placed, Types, Calls, Kinds, CloseLabels, ReadLabels, SeekLabels
<1> QED
  BY <1>1 DEF Accounted, Orderly, OneClose

\* Steps that connect, close and count nothing.
LEMMA QuietKnown ==
    ASSUME Base, Known, NEW t \in Threads,
           live' = live, references' = references, open' = open, inputData' = inputData,
           \A u \in Threads \ {t} : call'[u] = call[u],
           call'[t].at \notin {"connect", "destroy", "closeStore", "clear"},
           call[t].at \notin {"connect", "closeStore", "clear"},
           call'[t].kind # "seek",
           call'[t].kind = "close" => inputData # None
    PROVE  Known'
<1>1. ASSUME NEW u \in Threads
      PROVE  /\ call'[u].kind # "seek"
             /\ call'[u].at = "connect" => inputData' = None
             /\ Undone(u)'
  <2>1. CASE u = t
    BY <2>1 DEF Undone
  <2>2. CASE u # t
    BY <2>2 DEF Known, Undone
  <2> QED
    BY <2>1, <2>2
<1>2. ASSUME NEW s \in live
      PROVE  s = inputData \/ \E u \in Threads : call'[u].at = "connect" /\ call'[u].session = s
  BY DEF Known
<1>3. inputData # None /\ (\A u \in Threads : call'[u].at \notin {"closeStore", "clear"})
          => inputData \in open
  BY DEF Known
<1>4. \A s \in Sessions : references[s] # 0 => s = inputData
  BY DEF Known
<1> QED
  BY <1>1, <1>2, <1>3, <1>4 DEF Known

LEMMA OpenKnown ==
    ASSUME Base, Accounted, Orderly, Known, NEW t \in Threads,
           OpenFile(t) \/ OpenDevice(t) \/ OpenFails(t)
    PROVE  Known'
<1>1. call[t].kind = "read" /\ call[t].at \in {"open", "connect"}
  BY DEF OpenFile, OpenDevice, OpenFails, At, Known, Base, Types, Calls, Kinds, Placed,
         CloseLabels
<1>2. CASE OpenFile(t)
  <2>1. CASE inputData # None /\ UNCHANGED live
             /\ Goto(t, IF call[t].kind = "read" THEN "compare" ELSE "move")
    <3>1. GoesOn(t) /\ call'[t] = [call[t] EXCEPT !.at = "compare"]
      BY <1>1, <2>1, Gone DEF Base, Labels
    <3>2. call'[t].at = "compare" /\ call'[t].kind = "read"
      BY <1>1, <3>1 DEF Base, Types, Calls
    <3> QED
      BY <1>2, <2>1, <3>1, <3>2, QuietKnown DEF OpenFile, At, GoesOn
  <2>2. ASSUME NEW s \in Free, live' = live \cup {s}, inputData = None,
               Becomes(t, [call[t] EXCEPT !.at = "connect", !.session = s])
        PROVE  Known'
    <3>1. GoesOn(t) /\ call'[t].at = "connect" /\ call'[t].session = s
          /\ call'[t].kind = "read"
      <4> DEFINE c == [call[t] EXCEPT !.at = "connect", !.session = s]
      <4>1. /\ c \in Calls /\ c.at = "connect" /\ c.session = s
            /\ c.kind = "read"
        BY <1>1 DEF Base, Types, Calls, Labels, Free
      <4> HIDE DEF c
      <4> QED
        BY <2>2, <4>1, Became DEF Base, c
    <3>2. /\ references' = references /\ open' = open /\ inputData' = None
          /\ \A u \in Threads \ {t} : call'[u] = call[u]
      BY <1>2, <2>2, <3>1 DEF OpenFile, GoesOn
    <3>3. ASSUME NEW u \in Threads
          PROVE  /\ call'[u].kind # "seek"
                 /\ call'[u].at = "connect" => inputData' = None
                 /\ Undone(u)'
      <4>1. call[u].kind # "close" /\ call[u].kind # "seek"
        BY <2>2 DEF Known, Undone
      <4>2. call'[u].kind # "close" /\ call'[u].kind # "seek"
        BY <3>1, <3>2, <4>1
      <4>3. call'[u].at \notin {"destroy", "closeStore", "clear"}
        <5>1. call[u].at \notin {"destroy", "closeStore", "clear"}
          BY <4>1 DEF Base, Types, Calls, Kinds, Placed, ReadLabels, SeekLabels
        <5> QED
          BY <3>1, <3>2, <5>1
      <4> QED
        BY <3>2, <4>2, <4>3 DEF Undone
    <3>4. ASSUME NEW x \in live'
          PROVE  \E u \in Threads : call'[u].at = "connect" /\ call'[u].session = x
      <4>1. CASE x = s
        BY <3>1, <4>1
      <4>2. CASE x \in live
        <5>1. x # None
          BY <4>2, FileAssumption DEF Base, Types
        <5>2. PICK u \in Threads : call[u].at = "connect" /\ call[u].session = x
          BY <2>2, <4>2, <5>1 DEF Known
        <5>3. u # t
          BY <1>2, <5>2 DEF OpenFile, At
        <5> QED
          BY <3>2, <5>2, <5>3
      <4> QED
        BY <2>2, <3>4, <4>1, <4>2
    <3> QED
      BY <2>2, <3>2, <3>3, <3>4 DEF Known
  <2> QED
    BY <1>2, <2>1, <2>2 DEF OpenFile
<1>3. CASE OpenDevice(t)
  <2> DEFINE s == call[t].session
  <2>1. /\ call[t].at = "connect" /\ inputData = None /\ s \in Sessions /\ s # None
    BY <1>3, FileAssumption DEF OpenDevice, At, Known, Base, Placed, WithSession
  <2>2. \A u \in Threads : call[u].kind # "close" /\ call[u].kind # "seek"
    BY <2>1 DEF Known, Undone
  <2>3. \A x \in live : x = s
    BY <2>1, OneConnects, FileAssumption DEF Known, Base, Types
  <2>4. \A x \in Sessions : references[x] = 0
    BY <2>1, FileAssumption DEF Known
  <2>5. /\ live' = live /\ inputData' = s /\ open' = open \cup {s}
        /\ \A x \in Sessions \ {s} : references'[x] = 0
    BY <1>3, <2>4 DEF OpenDevice, Base, Types
  <2>6. /\ \A u \in Threads \ {t} : call'[u] = call[u]
        /\ call'[t].at = "compare" /\ call'[t].kind = "read"
    <3> DEFINE c == [call[t] EXCEPT !.at = "compare", !.session = None]
    <3>1. /\ c \in Calls /\ c.at = "compare" /\ c.kind = "read"
      BY <1>1 DEF Base, Types, Calls, Labels
    <3>2. Becomes(t, c)
      BY <1>1, <1>3 DEF OpenDevice
    <3> HIDE DEF c
    <3> QED
      BY <3>1, <3>2, Became DEF Base, GoesOn
  <2> HIDE DEF s
  <2>7. \A u \in Threads : call'[u].kind # "close" /\ call'[u].kind # "seek"
                           /\ call'[u].at # "connect"
    BY <2>1, <2>2, <2>6, OneConnects
  <2>8. \A u \in Threads : call'[u].at \notin {"destroy", "closeStore", "clear"}
    BY <2>2, <2>6 DEF Base, Types, Calls, Kinds, Placed, ReadLabels, SeekLabels
  <2> QED
    BY <2>3, <2>5, <2>7, <2>8 DEF Known, Undone
<1>4. CASE OpenFails(t)
  <2> DEFINE s == call[t].session
  <2>1. call[t].at = "connect" /\ inputData = None
    BY <1>4 DEF OpenFails, At, Known
  <2>2. /\ live' = live \ {s} /\ references' = references /\ open' = open
        /\ inputData' = inputData
    BY <1>4 DEF OpenFails, Orderly
  <2>3. call'[t] = Idle /\ \A u \in Threads \ {t} : call'[u] = call[u]
    BY <1>4, Ended DEF OpenFails, Base
  <2>4. ASSUME NEW u \in Threads
        PROVE  /\ call'[u].kind # "seek"
               /\ call'[u].at = "connect" => inputData' = None
               /\ Undone(u)'
    BY <2>2, <2>3, IdleCall DEF Known, Undone
  <2>5. live' = {}
    <3> SUFFICES ASSUME NEW x \in live PROVE x = s
      BY <2>2
    <3>1. x # inputData
      BY <2>1, FileAssumption DEF Base, Types
    <3>2. PICK u \in Threads : call[u].at = "connect" /\ call[u].session = x
      BY <3>1 DEF Known
    <3> QED
      BY <2>1, <3>2, OneConnects
  <2> QED
    BY <2>1, <2>2, <2>4, <2>5 DEF Known
<1> QED
  BY <1>2, <1>3, <1>4

LEMMA ReadKnown ==
    ASSUME Base, Known, NEW t \in Threads,
           \/ Enter(t) \/ CompareSize(t) \/ SeekTo(t) \/ StartRead(t)
           \/ FirstBlock(t) \/ LastBlock(t) \/ Retrieve(t) \/ RetrieveFails(t) \/ Advance(t) \/ Leave(t) \/ Move(t)
    PROVE  Known'
<1>1. CASE End(t) /\ UNCHANGED <<inputData, live, references, open>>
           /\ call[t].at \in Labels \ {"connect", "closeStore", "clear"}
  <2>1. /\ call'[t].at = "idle" /\ call'[t].kind = "none"
        /\ \A u \in Threads \ {t} : call'[u] = call[u]
    BY <1>1, Ended, IdleCall DEF Base
  <2> QED
    BY <1>1, <2>1, QuietKnown
<1>2. ASSUME GoesOn(t), call'[t].kind = call[t].kind,
             call'[t].at \in ReadLabels \ {"enter", "connect"},
             call[t].at \in ReadLabels \ {"connect"},
             UNCHANGED <<live, references, open, inputData>>
      PROVE  Known'
  <2>1. call[t].kind = "read"
    BY <1>2 DEF Known, Base, Types, Calls, Kinds, Placed, ReadLabels, CloseLabels
  <2> QED
    BY <1>2, <2>1, QuietKnown DEF GoesOn, ReadLabels
<1>3. ASSUME NEW there \in {"open", "compare", "seek", "read", "leave"}, Goto(t, there),
             call[t].at \in ReadLabels \ {"connect"},
             UNCHANGED <<live, references, open, inputData>>
      PROVE  Known'
  <2>1. GoesOn(t) /\ call'[t] = [call[t] EXCEPT !.at = there]
    <3>1. there \in Labels
      BY <1>3 DEF Labels
    <3> QED
      BY <1>3, <3>1, Gone DEF Base
  <2>2. call'[t].at = there /\ call'[t].kind = call[t].kind
    BY <2>1 DEF Base, Types, Calls
  <2> QED
    BY <1>2, <1>3, <2>1, <2>2 DEF ReadLabels
<1>4. CASE Enter(t)
  BY <1>3, <1>4 DEF Enter, At, device, ReadLabels
<1>5. CASE CompareSize(t)
  BY <1>1, <1>3, <1>5 DEF CompareSize, Cleared, At, device, Labels, ReadLabels
<1>6. CASE SeekTo(t)
  BY <1>1, <1>3, <1>6 DEF SeekTo, Cleared, At, device, Labels, ReadLabels
<1>7. CASE StartRead(t)
  <2>1. CASE End(t) /\ UNCHANGED <<fixed, inputData, device>>
    BY <1>1, <1>7, <2>1 DEF StartRead, Cleared, At, device, Labels
  <2>2. ASSUME At(t, "read"), inputData # None,
               NEW left, left = Smaller(call[t].count, size - position[inputData]),
               Clip(t, left),
               UNCHANGED <<fixed, inputData, device, monitor, overlapped>>
        PROVE  Known'
    <3>1. left \in Int
      BY <2>2, FileAssumption DEF Base, Types, Calls, Smaller
    <3>2. CASE left <= 0
      BY <1>3, <2>2, <3>2 DEF Clip, At, device, ReadLabels
    <3>3. CASE ~(left <= 0)
      <4>1. left \in Nat \ {0}
        BY <3>1, <3>3
      <4>2. /\ GoesOn(t) /\ call'[t].kind = call[t].kind /\ call'[t].at = "first"
        BY <2>2, <4>1, Clipping DEF Base
      <4> QED
        BY <1>2, <2>2, <4>2 DEF At, device, ReadLabels
    <3> QED
      BY <3>2, <3>3
  <2> QED
    BY <1>7, <2>1, <2>2 DEF StartRead, Cleared
<1>8. CASE Retrieve(t)
  <2>1. GoesOn(t) /\ call'[t].kind = call[t].kind /\ call'[t].at = "advance"
    BY <1>8, BlockRead
  <2> QED
    BY <1>2, <1>8, <2>1 DEF Retrieve, At, device, ReadLabels
<1>9. CASE Advance(t)
  <2> DEFINE done == call[t].block = call[t].last
             there == IF done THEN "leave" ELSE "retrieve"
             block == IF done THEN call[t].block ELSE call[t].block + 1
             c == [call[t] EXCEPT !.at = there, !.block = block]
  <2>1. block \in Nat /\ there \in {"leave", "retrieve"}
    BY DEF Base, Types, Calls
  <2>2. Becomes(t, c)
    BY <1>9 DEF Advance
  <2> HIDE DEF block, there
  <2>3. c \in Calls /\ c.kind = call[t].kind /\ c.at = there
    BY <2>1 DEF Base, Types, Calls, Labels
  <2> HIDE DEF c
  <2>4. GoesOn(t) /\ call'[t] = c
    BY <2>2, <2>3, Became DEF Base
  <2> QED
    BY <1>2, <1>9, <2>1, <2>3, <2>4 DEF Advance, At, ReadLabels
<1>10. CASE RetrieveFails(t) \/ Leave(t) \/ Move(t)
  BY <1>1, <1>10 DEF RetrieveFails, Leave, Move, At, device, Labels
<1>11. CASE FirstBlock(t) \/ LastBlock(t)
  <2>1. /\ GoesOn(t) /\ call'[t].kind = call[t].kind
        /\ call'[t].at \in {"last", "retrieve", "leave"} /\ call[t].at \in {"first", "last"}
    BY <1>11, BlocksTaken
  <2> QED
    BY <1>2, <1>11, <2>1 DEF FirstBlock, LastBlock, device, ReadLabels
<1> QED
  BY <1>4, <1>5, <1>6, <1>7, <1>8, <1>9, <1>10, <1>11

LEMMA CloseKnown ==
    ASSUME Base, Accounted, Orderly, Known, NEW t \in Threads,
           \/ CloseInput(t) \/ DestroyContext(t) \/ CloseStore(t) \/ CloseFails(t)
           \/ Clear(t)
    PROVE  Known'
<1> DEFINE s == inputData
<1>1. /\ call[t].at \in CloseLabels /\ call[t].kind = "close"
      /\ s \in Sessions /\ s # None
  <2>1. call[t].at \in CloseLabels
    BY DEF CloseInput, Cleared, DestroyContext, CloseStore, CloseFails, Clear, At, CloseLabels
  <2>2. call[t].kind = "close"
    BY <2>1 DEF Base, Types, Calls, Kinds, Placed, ReadLabels, SeekLabels, CloseLabels
  <2> QED
    BY <2>1, <2>2 DEF Known, Undone, Base, Types
<1>2. \A u \in Threads \ {t} : call[u].at \notin CloseLabels /\ call[u].at # "connect"
                               /\ call[u].kind \notin {"seek", "close"}
  BY <1>1, ClosesAlone DEF Known, Base, Placed
<1>3. call[t].at \in {"destroy", "closeStore"} => call[t].session = s
  BY DEF Known, Undone
<1>4. /\ \A x \in live : x = s
      /\ \A x \in Sessions \ {s} : references[x] = 0
  BY <1>1, <1>2 DEF Known, CloseLabels
<1>5. ASSUME GoesOn(t), call'[t].kind = "close", call'[t].at \in CloseLabels,
             inputData' = s, live' \subseteq live,
             \A x \in Sessions \ {s} : references'[x] = references[x],
             call'[t].at \in {"destroy", "closeStore"} => call'[t].session = s,
             call'[t].at \in {"closeStore", "clear"} => s \notin live',
             call'[t].at = "clear" => references'[s] = 0,
             call'[t].at = "destroy" => s \in open', call'[t].at # "isOpen"
      PROVE  Known'
  <2>1. \A u \in Threads \ {t} : call'[u] = call[u]
    BY <1>5 DEF GoesOn
  <2>2. ASSUME NEW u \in Threads
        PROVE  /\ call'[u].kind # "seek"
               /\ call'[u].at # "connect"
               /\ Undone(u)'
    <3>1. CASE u = t
      BY <1>1, <1>5, <3>1 DEF Undone, CloseLabels
    <3>2. CASE u # t
      BY <1>2, <2>1, <3>2 DEF Undone, CloseLabels
    <3> QED
      BY <3>1, <3>2
  <2>3. (\A u \in Threads : call'[u].at \notin {"closeStore", "clear"})
            => call'[t].at = "destroy"
    BY <1>5 DEF CloseLabels
  <2> QED
    BY <1>1, <1>4, <1>5, <2>2, <2>3 DEF Known
<1>6. CASE CloseInput(t)
  <2>1. call[t].at = "isOpen"
    BY <1>6 DEF CloseInput, Cleared, At
  <2>2. s \in open
    BY <1>1, <1>2, <2>1 DEF Known, CloseLabels
  <2> DEFINE c == [call[t] EXCEPT !.at = "destroy", !.session = s]
  <2>3. c \in Calls /\ c.at = "destroy" /\ c.session = s /\ c.kind = "close"
    BY <1>1 DEF Base, Types, Calls, Labels
  <2>4. Becomes(t, c) /\ UNCHANGED <<fixed, inputData, device>>
    BY <1>1, <1>6, <2>2 DEF CloseInput, Cleared
  <2> HIDE DEF c
  <2>5. GoesOn(t) /\ call'[t] = c
    BY <2>3, <2>4, Became DEF Base
  <2> QED
    BY <1>5, <2>2, <2>3, <2>4, <2>5 DEF device, CloseLabels
<1>7. CASE DestroyContext(t)
  <2>1. GoesOn(t) /\ call'[t] = [call[t] EXCEPT !.at = "closeStore"]
    BY <1>7, Gone DEF DestroyContext, Base, Labels
  <2>2. call'[t].at = "closeStore" /\ call'[t].kind = "close" /\ call'[t].session = s
    BY <1>1, <1>3, <1>7, <2>1 DEF DestroyContext, At, Base, Types, Calls
  <2>3. live' = live \ {s} /\ references' = references /\ inputData' = s
    BY <1>3, <1>7 DEF DestroyContext, At
  <2> QED
    BY <1>5, <2>1, <2>2, <2>3 DEF CloseLabels
<1>8. CASE CloseStore(t)
  <2> DEFINE c == [call[t] EXCEPT !.at = "clear", !.session = None]
  <2>1. c \in Calls /\ c.at = "clear" /\ c.kind = "close"
    BY <1>1 DEF Base, Types, Calls, Labels
  <2>2. Becomes(t, c)
    BY <1>8 DEF CloseStore
  <2> HIDE DEF c
  <2>3. GoesOn(t) /\ call'[t] = c
    BY <2>1, <2>2, Became DEF Base
  <2>4. call[t].at = "closeStore" /\ call[t].session = s
    BY <1>3, <1>8 DEF CloseStore, At
  <2>5. references[s] = 1 /\ s \notin live
    BY <2>4 DEF Accounted, Orderly, Closing, Opened, Known, Undone
  <2>6. /\ references'[s] = 0 /\ \A x \in Sessions \ {s} : references'[x] = references[x]
        /\ live' = live /\ inputData' = s
    BY <1>1, <1>8, <2>4, <2>5 DEF CloseStore, Base, Types
  <2> QED
    BY <1>5, <2>1, <2>3, <2>5, <2>6 DEF CloseLabels
<1>9. CASE CloseFails(t)
  <2>1. call[t].at = "destroy" => call[t].session \in live
    BY DEF Accounted, Orderly, Closing
  <2> QED
    BY <1>9, <2>1 DEF CloseFails, At, Orderly
<1>10. CASE Clear(t)
  <2>1. call[t].at = "clear"
    BY <1>10 DEF Clear, At
  <2>2. live = {} /\ \A x \in Sessions : references[x] = 0
    BY <1>1, <1>4, <2>1 DEF Known, Undone
  <2>3. /\ live' = live /\ references' = references /\ inputData' = None
        /\ call'[t] = Idle /\ \A u \in Threads \ {t} : call'[u] = call[u]
    BY <1>10, Ended DEF Clear, device, Base
  <2>4. ASSUME NEW u \in Threads
        PROVE  call'[u].kind \notin {"seek", "close"} /\ Undone(u)'
    <3>1. CASE u = t
      BY <2>3, <3>1, IdleCall DEF Undone
    <3>2. CASE u # t
      BY <1>2, <2>3, <3>2 DEF Undone, CloseLabels
    <3> QED
      BY <3>1, <3>2
  <2> QED
    BY <2>2, <2>3, <2>4 DEF Known
<1> QED
  BY <1>6, <1>7, <1>8, <1>9, <1>10

LEMMA BeginKnown ==
    ASSUME Base, Orderly, Known, NEW t \in Threads,
           \/ \E o \in Offsets, n \in Counts : BeginRead(t, o, n)
           \/ BeginSeek(t)
           \/ BeginClose(t)
    PROVE  Known'
<1>1. /\ live' = live /\ references' = references /\ open' = open
      /\ inputData' = inputData /\ call[t].at = "idle"
      /\ \A u \in Threads \ {t} : call'[u] = call[u]
  BY DEF BeginRead, BeginSeek, BeginClose, Becomes, device, At, Base, Types
<1>2. ASSUME NEW o \in Offsets, NEW n \in Counts, BeginRead(t, o, n)
      PROVE  call'[t].at = "enter" /\ call'[t].kind = "read"
  BY <1>2 DEF BeginRead, Becomes, Idle, Base, Types
<1>3. ~BeginSeek(t)
  BY DEF BeginSeek, Orderly
<1>4. ASSUME BeginClose(t)
      PROVE  call'[t].at = "isOpen" /\ call'[t].kind = "close" /\ inputData # None
  BY <1>4 DEF BeginClose, Becomes, Idle, Base, Types
<1> QED
  BY <1>1, <1>2, <1>3, <1>4, QuietKnown

LEMMA InitKnown == Init => Known
  BY IdleCall DEF Init, Known, Undone

LEMMA NextKnown == Base /\ Accounted /\ (Orderly => Known) /\ [Next]_vars => (Orderly => Known)'
<1> SUFFICES ASSUME Base, Accounted, Orderly => Known, [Next]_vars, Orderly'
             PROVE  Known'
  OBVIOUS
<1>1. CASE UNCHANGED vars
  BY <1>1 DEF vars, fixed, device, Orderly, Known, Undone
<1>2. CASE Crash
  BY <1>2, IdleCall DEF Crash, Known, Undone
<1>3. ASSUME NEW t \in Threads, Step(t) PROVE faults' = faults
  BY <1>3 DEF Step, OpenFile, OpenDevice, OpenFails, Enter, CompareSize, SeekTo, StartRead,
              FirstBlock, LastBlock, Cleared, Retrieve, RetrieveFails, Advance, Leave, Move, CloseInput,
              DestroyContext, CloseStore, CloseFails, Clear, fixed
<1>4. ASSUME NEW t \in Threads, Step(t) PROVE Known'
  <2>1. Orderly
    BY <1>3, <1>4 DEF Orderly
  <2> QED
    BY <1>4, <2>1, OpenKnown, ReadKnown, CloseKnown DEF Step
<1>5. ASSUME NEW t \in Threads,
             \/ \E o \in Offsets, n \in Counts : BeginRead(t, o, n)
             \/ BeginSeek(t)
             \/ BeginClose(t)
      PROVE  Known'
  <2>1. Orderly
    BY <1>5 DEF BeginRead, BeginSeek, BeginClose, fixed, Orderly
  <2> QED
    BY <1>5, <2>1, BeginKnown
<1> QED
  BY <1>1, <1>2, <1>4, <1>5 DEF Next

LEMMA AlwaysKnown == Spec => [](Base /\ (Orderly => Known))
  BY AlwaysAccounted, InitKnown, NextKnown, PTL DEF Spec

(***************************************************************************)
(* Without seeks, leaks and failing closes there is at most one session,   *)
(* and every context and every reference to the evidence store belongs to  *)
(* the field or to the read that is connecting, for any number of threads. *)
(***************************************************************************)
THEOREM NoSessionIsLost == Spec => []NoSessionLost
<1>1. ASSUME Base, Known PROVE Cardinality(live) <= 1
  <2>1. ASSUME NEW x \in live, NEW y \in live PROVE x = y
    <3>1. x # None /\ y # None
      BY <1>1, FileAssumption DEF Base, Types
    <3>2. CASE inputData = None
      <4>1. PICK t \in Threads : call[t].at = "connect" /\ call[t].session = x
        BY <1>1, <3>1, <3>2 DEF Known
      <4>2. PICK u \in Threads : call[u].at = "connect" /\ call[u].session = y
        BY <1>1, <3>1, <3>2 DEF Known
      <4> QED
        BY <1>1, <4>1, <4>2, OneConnects
    <3>3. CASE inputData # None
      BY <1>1, <3>3 DEF Known
    <3> QED
      BY <3>2, <3>3
  <2>2. CASE live = {}
    BY <2>2, FS_EmptySet
  <2>3. CASE live # {}
    <3>1. PICK x \in live : TRUE
      BY <2>3
    <3>2. live = {x}
      BY <2>1, <3>1
    <3> QED
      BY <3>2, FS_Singleton
  <2> QED
    BY <2>2, <2>3
<1>2. ASSUME Base, Known, NEW x \in live \cup {y \in Sessions : references[y] # 0}
      PROVE  \/ x = inputData
             \/ \E t \in Threads : call[t].kind # "none" /\ call[t].session = x
  <2>1. \A t \in Threads : call[t].at = "connect" => call[t].kind # "none"
    BY <1>2 DEF Base, Placed
  <2> QED
    BY <1>2, <2>1 DEF Known
<1>3. Base /\ (Orderly => Known) => NoSessionLost
  BY <1>1, <1>2 DEF NoSessionLost, Orderly
<1> QED
  BY <1>3, AlwaysKnown, PTL

-----------------------------------------------------------------------------
(* Reads return what is on the device. *)

LEMMA NoBytes == ASSUME NEW from \in Int, NEW n \in Int, n <= 0 PROVE Bytes(from, n) = <<>>
  BY DEF Bytes

LEMMA BytesJoin ==
    ASSUME NEW from \in Nat, NEW n \in Nat, NEW m \in Nat
    PROVE  Bytes(from, n) \o Bytes(from + n, m) = Bytes(from, n + m)
<1>1. /\ Bytes(from, n) \in Seq(Nat) /\ Len(Bytes(from, n)) = n
      /\ Bytes(from + n, m) \in Seq(Nat) /\ Len(Bytes(from + n, m)) = m
      /\ Bytes(from, n + m) \in Seq(Nat) /\ Len(Bytes(from, n + m)) = n + m
  <2>1. from + n \in Nat /\ n + m \in Nat
    OBVIOUS
  <2> QED
    BY <2>1, BytesAreNumbers
<1> DEFINE joined == Bytes(from, n) \o Bytes(from + n, m)
<1>2. /\ joined \in Seq(Nat) /\ Len(joined) = n + m
      /\ \A i \in 1 .. n + m : joined[i] = IF i <= n THEN Bytes(from, n)[i]
                                                     ELSE Bytes(from + n, m)[i - n]
  <2>1. ASSUME NEW a \in Seq(Nat), NEW b \in Seq(Nat), Len(a) = n, Len(b) = m
        PROVE  /\ a \o b \in Seq(Nat) /\ Len(a \o b) = n + m
               /\ \A i \in 1 .. n + m : (a \o b)[i] = IF i <= n THEN a[i] ELSE b[i - n]
    BY <2>1, ConcatProperties
  <2> QED
    BY <1>1, <2>1
<1>3. ASSUME NEW i \in 1 .. n + m PROVE joined[i] = Bytes(from, n + m)[i]
  <2>1. Bytes(from, n + m)[i] = from + i - 1
    BY DEF Bytes
  <2>2. CASE i <= n
    <3>1. Bytes(from, n)[i] = from + i - 1
      BY <2>2 DEF Bytes
    <3> HIDE DEF joined
    <3> QED
      BY <1>2, <2>1, <2>2, <3>1
  <2>3. CASE ~(i <= n)
    <3>1. i - n \in 1 .. m
      BY <2>3
    <3>2. Bytes(from + n, m)[i - n] = from + n + (i - n) - 1
      BY <3>1 DEF Bytes
    <3> HIDE DEF joined
    <3> QED
      BY <1>2, <2>1, <2>3, <3>2
  <2> QED
    BY <2>2, <2>3
<1> HIDE DEF joined
<1> QED
  BY <1>1, <1>2, <1>3, SeqEqual DEF joined

LEMMA LaterBlock ==
    ASSUME NEW a \in Nat, NEW b \in Nat, a < b
    PROVE  a * BlockSize + BlockSize <= b * BlockSize
<1>1. PICK k \in Nat : b = a + 1 + k
  <2>1. b - a - 1 \in Nat /\ b = a + 1 + (b - a - 1)
    OBVIOUS
  <2> QED
    BY <2>1
<1>2. k * BlockSize >= 0
  BY FileAssumption
<1>3. b * BlockSize = a * BlockSize + BlockSize + k * BlockSize
  BY <1>1, FileAssumption
<1>4. a * BlockSize \in Nat /\ k * BlockSize \in Nat /\ b * BlockSize \in Nat
  BY FileAssumption
<1> QED
  BY <1>2, <1>3, <1>4, FileAssumption

LEMMA OneBlock ==
    ASSUME NEW a \in Nat, NEW b \in Nat, NEW p \in Nat, Holds(a, p), Holds(b, p)
    PROVE  a = b
<1>1. a * BlockSize \in Nat /\ b * BlockSize \in Nat
  BY FileAssumption
<1>2. ~(a < b)
  BY <1>1, LaterBlock, FileAssumption DEF Holds
<1>3. ~(b < a)
  BY <1>1, LaterBlock, FileAssumption DEF Holds
<1> QED
  BY <1>2, <1>3

\* A step moves no position under a read that no seek overlaps.
LEMMA ReadingOfStep ==
    ASSUME Base, Reading, Base', NEW t \in Threads,
           \A u \in Threads \ {t} : call'[u] = call[u],
           overlapped \ {t} \subseteq overlapped', size' = size,
           \/ position' = position /\ inputData' \in {inputData, None}
           \/ monitor = t
           \/ call[t].kind = "seek",
           call'[t].kind = "seek" => call[t].kind = "seek",
           t \notin overlapped' /\ call'[t].kind = "read" =>
               OnTheDevice(t)' /\ \A u \in Threads : call[u].kind # "seek"
    PROVE  Reading'
<1>1. ASSUME NEW u \in Threads \ {t}, u \notin overlapped', call'[u].kind = "read"
      PROVE  /\ \A v \in Threads : call'[v].kind # "seek"
             /\ OnTheDevice(u)'
  <2>1. u \notin overlapped /\ call'[u] = call[u]
    BY <1>1
  <2>2. OnTheDevice(u) /\ \A v \in Threads : call[v].kind # "seek"
    BY <1>1, <2>1 DEF Reading
  <2>3. \A v \in Threads : call'[v].kind # "seek"
    BY <2>2
  <2>4. CASE position' = position /\ inputData' \in {inputData, None}
    BY <2>1, <2>2, <2>4 DEF OnTheDevice, InLoop, There
  <2>5. CASE monitor = t
    <3>1. call[u].at = "enter"
      BY <1>1, <2>1, <2>5 DEF Base, Placed
    <3> QED
      BY <2>1, <2>2, <3>1 DEF OnTheDevice
  <2> QED
    BY <2>2, <2>3, <2>4, <2>5
<1>2. ASSUME t \notin overlapped', call'[t].kind = "read"
      PROVE  /\ \A v \in Threads : call'[v].kind # "seek"
             /\ OnTheDevice(t)'
  BY <1>2
<1> QED
  BY <1>1, <1>2 DEF Reading

\* The read that ends, or a call of another kind, has nothing to say.
LEMMA OthersReading ==
    ASSUME Base, Reading, Base', NEW t \in Threads,
           OpenFails(t) \/ Leave(t) \/ RetrieveFails(t) \/ Move(t) \/ CloseFails(t)
             \/ Clear(t) \/ Cleared(t, "compare") \/ Cleared(t, "seek") \/ Cleared(t, "read")
             \/ Cleared(t, "isOpen") \/ (End(t) /\ UNCHANGED <<fixed, inputData, device>>)
    PROVE  Reading'
<1>1. End(t)
  BY DEF OpenFails, Leave, RetrieveFails, Move, CloseFails, Clear, Cleared
<1>2. /\ call'[t].kind = "none" /\ \A u \in Threads \ {t} : call'[u] = call[u]
      /\ overlapped' = overlapped \ {t}
  BY <1>1, Ended, IdleCall DEF Base
<1>3. size' = size /\ inputData' \in {inputData, None}
  BY DEF OpenFails, Leave, RetrieveFails, Move, CloseFails, Clear, Cleared, fixed
<1>4. position' = position \/ call[t].kind = "seek"
  BY DEF OpenFails, Leave, RetrieveFails, Move, CloseFails, Clear, Cleared, device, At,
         Base, Types, Calls, Kinds, Placed, ReadLabels, CloseLabels
<1> QED
  BY <1>2, <1>3, <1>4, ReadingOfStep

LEMMA OpenReading ==
    ASSUME Base, Reading, Base', NEW t \in Threads, OpenFile(t) \/ OpenDevice(t)
    PROVE  Reading'
<1>1. /\ overlapped' = overlapped /\ size' = size
  BY DEF OpenFile, OpenDevice, fixed
<1>2. ASSUME NEW c \in Calls, Becomes(t, c), c.kind = call[t].kind, c.data = call[t].data,
             c.kind = "read" => c.at \in {"compare", "connect"},
             call[t].at \in {"open", "connect"},
             \/ position' = position /\ inputData' \in {inputData, None}
             \/ monitor = t
             \/ call[t].kind = "seek"
      PROVE  Reading'
  <2>1. GoesOn(t) /\ call'[t] = c
    BY <1>2, Became DEF Base
  <2>2. t \notin overlapped' /\ call'[t].kind = "read" =>
            OnTheDevice(t)' /\ \A u \in Threads : call[u].kind # "seek"
    BY <1>1, <1>2, <2>1 DEF Reading, OnTheDevice
  <2> QED
    BY <1>1, <1>2, <2>1, <2>2, ReadingOfStep DEF GoesOn
<1>3. call[t].at \in {"open", "connect"}
  BY DEF OpenFile, OpenDevice, At
<1>4. CASE OpenFile(t)
  <2> DEFINE there == IF call[t].kind = "read" THEN "compare" ELSE "move"
             c == [call[t] EXCEPT !.at = there]
  <2>1. CASE Becomes(t, c)
    <3>1. there \in {"compare", "move"} /\ (call[t].kind = "read" => there = "compare")
      OBVIOUS
    <3> HIDE DEF there
    <3>2. /\ c \in Calls /\ c.kind = call[t].kind /\ c.data = call[t].data
          /\ c.at = there
      BY <3>1 DEF Base, Types, Calls, Labels
    <3> HIDE DEF c
    <3> QED
      BY <1>2, <1>3, <1>4, <2>1, <3>1, <3>2 DEF OpenFile
  <2>2. ASSUME NEW s \in Free,
               Becomes(t, [call[t] EXCEPT !.at = "connect", !.session = s])
        PROVE  Reading'
    <3> DEFINE d == [call[t] EXCEPT !.at = "connect", !.session = s]
    <3>1. /\ d \in Calls /\ d.kind = call[t].kind /\ d.data = call[t].data
          /\ d.at = "connect"
      <4>1. s \in Sessions /\ call[t] \in Calls
        BY DEF Free, Base, Types
      <4> QED
        BY <4>1 DEF Calls, Labels
    <3>2. Becomes(t, d)
      BY <2>2
    <3> HIDE DEF d
    <3> QED
      BY <1>2, <1>3, <1>4, <3>1, <3>2 DEF OpenFile
  <2> QED
    BY <1>4, <2>1, <2>2 DEF OpenFile, Goto
<1>5. CASE OpenDevice(t)
  <2> DEFINE there == IF call[t].kind = "read" THEN "compare" ELSE "move"
             c == [call[t] EXCEPT !.at = there, !.session = None]
  <2>1. Becomes(t, c)
    BY <1>5 DEF OpenDevice
  <2>2. there \in {"compare", "move"} /\ (call[t].kind = "read" => there = "compare")
    OBVIOUS
  <2> HIDE DEF there
  <2>3. /\ c \in Calls /\ c.kind = call[t].kind /\ c.data = call[t].data
        /\ c.at = there
    <3>1. there \in Labels /\ call[t] \in Calls
      BY <2>2 DEF Base, Types, Labels
    <3> QED
      BY <3>1 DEF Calls
  <2>4. monitor = t \/ call[t].kind = "seek"
    BY <1>3 DEF Base, Types, Calls, Kinds, Placed, CloseLabels
  <2> HIDE DEF c
  <2> QED
    BY <1>2, <1>3, <2>1, <2>2, <2>3, <2>4
<1> QED
  BY <1>4, <1>5

\* The blocks that hold a byte and a later one are in that order.
LEMMA InOrder ==
    ASSUME NEW a \in Nat, NEW b \in Nat, NEW p \in Nat, NEW q \in Nat, p <= q,
           Holds(a, p), Holds(b, q)
    PROVE  a <= b
<1>1. a * BlockSize \in Nat /\ b * BlockSize \in Nat
  BY FileAssumption
<1>2. ~(b < a)
  BY <1>1, LaterBlock, FileAssumption DEF Holds
<1> QED
  BY <1>2

LEMMA StartReading ==
    ASSUME Base, Reading, Base', NEW t \in Threads,
           Enter(t) \/ CompareSize(t) \/ SeekTo(t) \/ StartRead(t)
    PROVE  Reading'
<1>1. ASSUME GoesOn(t), call'[t].kind = call[t].kind,
             call[t].at \in {"enter", "compare", "seek", "read"},
             overlapped' = overlapped, UNCHANGED <<fixed, inputData>>,
             position' = position \/ monitor = t,
             OnTheDevice(t) => OnTheDevice(t)'
      PROVE  Reading'
  <2>1. call[t].kind = "read"
    BY <1>1 DEF Base, Types, Calls, Kinds, Placed, SeekLabels, CloseLabels
  <2>2. t \notin overlapped' =>
            OnTheDevice(t)' /\ \A u \in Threads : call[u].kind # "seek"
    BY <1>1, <2>1 DEF Reading
  <2> QED
    BY <1>1, <2>1, <2>2, ReadingOfStep DEF GoesOn, fixed
<1>2. ASSUME NEW there \in Labels, Goto(t, there)
      PROVE  /\ GoesOn(t) /\ call'[t].kind = call[t].kind /\ call'[t].at = there
             /\ call'[t].offset = call[t].offset /\ call'[t].count = call[t].count
             /\ call'[t].data = call[t].data
  <2>1. GoesOn(t) /\ call'[t] = [call[t] EXCEPT !.at = there]
    BY <1>2, Gone DEF Base
  <2> QED
    BY <2>1 DEF Base, Types, Calls
<1>3. /\ call[t].offset \in Nat /\ call[t].count \in Nat /\ call[t].data \in Seq(Nat)
      /\ size \in Nat
  <2>1. size \in 1 .. IntLimit /\ IntLimit \in Nat
    BY FileAssumption DEF Base, Types
  <2>2. size \in Nat
    BY <2>1
  <2> QED
    BY <2>2 DEF Base, Types, Calls
<1>4. CASE Enter(t)
  <2> DEFINE there == IF inputData = None THEN "open" ELSE "compare"
  <2>1. there \in {"open", "compare"} /\ Goto(t, there)
    BY <1>4 DEF Enter
  <2> HIDE DEF there
  <2>2. OnTheDevice(t) => OnTheDevice(t)'
    BY <1>2, <1>4, <2>1 DEF Enter, At, OnTheDevice, Labels
  <2> QED
    BY <1>1, <1>2, <1>4, <2>1, <2>2 DEF Enter, At, device, Labels
<1>5. CASE CompareSize(t)
  <2>1. CASE Cleared(t, "compare")
    BY <2>1, OthersReading
  <2>2. CASE ~Cleared(t, "compare")
    <3> DEFINE there == IF call[t].offset > size THEN "leave" ELSE "seek"
    <3>1. Goto(t, there) /\ there \in {"leave", "seek"}
      BY <1>5, <2>2 DEF CompareSize
    <3>2. there = "seek" => call[t].offset <= size
      BY <1>3
    <3>3. there = "leave" => Bytes(call[t].offset, There(call[t])) = <<>>
      BY <1>3, NoBytes DEF There, Smaller
    <3> HIDE DEF there
    <3>4. OnTheDevice(t) => OnTheDevice(t)'
      <4>1. /\ call'[t].at = there /\ call'[t].offset = call[t].offset
            /\ call'[t].count = call[t].count /\ call'[t].data = call[t].data
            /\ call[t].at = "compare" /\ size' = size
        BY <1>2, <1>5, <2>2, <3>1 DEF CompareSize, At, fixed, Labels
      <4>2. There(call[t])' = There(call[t])
        BY <4>1 DEF There
      <4> QED
        BY <3>1, <3>2, <3>3, <4>1, <4>2 DEF OnTheDevice
    <3> QED
      BY <1>1, <1>2, <1>5, <2>2, <3>1, <3>4 DEF CompareSize, At, device, Labels
  <2> QED
    BY <2>1, <2>2
<1>6. CASE SeekTo(t)
  <2>1. CASE Cleared(t, "seek")
    BY <2>1, OthersReading
  <2>2. CASE ~Cleared(t, "seek")
    <3>1. Goto(t, "read") /\ call[t].at = "seek" /\ UNCHANGED <<fixed, inputData, overlapped>>
      BY <1>6, <2>2 DEF SeekTo, At
    <3>2. inputData \in Sessions /\ position'[inputData] = call[t].offset
      BY <1>6, <2>2 DEF SeekTo, Base, Types
    <3>3. OnTheDevice(t) => OnTheDevice(t)'
      BY <1>2, <3>1, <3>2 DEF OnTheDevice, fixed, Labels
    <3>4. monitor = t
      BY <3>1 DEF Base, Types, Calls, Kinds, Placed, SeekLabels, CloseLabels
    <3> QED
      BY <1>1, <1>2, <3>1, <3>3, <3>4 DEF Labels
  <2> QED
    BY <2>1, <2>2
<1>7. CASE StartRead(t)
  <2>1. CASE End(t) /\ UNCHANGED <<fixed, inputData, device>>
    BY <2>1, OthersReading
  <2>2. ASSUME At(t, "read"), inputData # None,
               NEW left, left = Smaller(call[t].count, size - position[inputData]),
               Clip(t, left),
               UNCHANGED <<fixed, inputData, device, monitor, overlapped>>
        PROVE  Reading'
    <3> DEFINE from == position[inputData]
    <3>1. from \in Nat /\ left \in Int /\ inputData \in Sessions
      BY <1>3, <2>2 DEF Base, Types, Smaller
    <3>2. OnTheDevice(t) => /\ call[t].data = <<>> /\ from = call[t].offset
                            /\ call[t].offset <= size /\ left = There(call[t])
      BY <2>2 DEF OnTheDevice, At, There
    <3>3. CASE left <= 0
      <4>0. Goto(t, "leave")
        BY <2>2, <3>3 DEF Clip
      <4>1. OnTheDevice(t) => OnTheDevice(t)'
        <5>1. /\ call'[t].at = "leave" /\ call'[t].offset = call[t].offset
              /\ call'[t].count = call[t].count /\ call'[t].data = call[t].data
              /\ size' = size
          BY <1>2, <2>2, <4>0 DEF fixed, Labels
        <5>2. There(call[t])' = There(call[t])
          BY <5>1 DEF There
        <5>3. left = There(call[t]) => Bytes(call[t].offset, There(call[t])) = <<>>
          BY <1>3, <3>1, <3>3, NoBytes
        <5> QED
          BY <3>2, <5>1, <5>2, <5>3 DEF OnTheDevice
      <4> QED
        BY <1>1, <1>2, <2>2, <4>0, <4>1 DEF At, device, Labels
    <3>4. CASE ~(left <= 0)
      <4>1. left \in Nat \ {0}
        BY <3>1, <3>4
      <4>2. /\ GoesOn(t) /\ call'[t].kind = call[t].kind /\ call'[t].at = "first"
            /\ call'[t].offset = call[t].offset /\ call'[t].count = call[t].count
            /\ call'[t].data = call[t].data
            /\ call'[t].session = inputData /\ call'[t].left = left
        BY <2>2, <4>1, Clipping DEF Base
      <4>4. size' = size /\ position' = position
        BY <2>2 DEF fixed, device
      <4>5. There(call[t])' = There(call[t])
        BY <4>2, <4>4 DEF There
      <4>6. Len(<<>>) = 0 /\ Bytes(call[t].offset, 0) = <<>>
        BY <1>3, NoBytes, EmptySeq
      <4>7. OnTheDevice(t) => InLoop(t)'
        BY <1>3, <3>1, <3>2, <4>2, <4>4, <4>5, <4>6 DEF InLoop
      <4>8. OnTheDevice(t) => OnTheDevice(t)'
        <5>1. /\ position'[call'[t].session] = from /\ call'[t].left > 0
          BY <2>2, <4>1, <4>2, <4>4
        <5>2. OnTheDevice(t) => from = call'[t].offset + Len(call'[t].data)
          BY <1>3, <3>2, <4>2, <4>6
        <5> QED
          BY <3>2, <4>2, <4>7, <5>1, <5>2 DEF OnTheDevice
      <4> QED
        BY <1>1, <2>2, <4>2, <4>8 DEF At, device
    <3> QED
      BY <3>3, <3>4
  <2> QED
    BY <1>7, <2>1, <2>2 DEF StartRead, Cleared
<1> QED
  BY <1>4, <1>5, <1>6, <1>7

LEMMA TakingReading ==
    ASSUME Base, Reading, Base', NEW t \in Threads, FirstBlock(t) \/ LastBlock(t)
    PROVE  Reading'
<1> DEFINE p == position[call[t].session]
           q == p + call[t].left - 1
<1>1. /\ GoesOn(t) /\ call'[t].kind = call[t].kind
      /\ call'[t].offset = call[t].offset /\ call'[t].count = call[t].count
      /\ call'[t].data = call[t].data /\ call'[t].session = call[t].session
      /\ call'[t].left = call[t].left /\ call[t].left \in Nat \ {0} /\ p \in Nat
      /\ \/ /\ call[t].at = "first" /\ call'[t].at = "last"
            /\ call'[t].block = p \div BlockSize
         \/ /\ call[t].at = "last"
            /\ call'[t].at = IF call[t].block <= call'[t].last
                             THEN "retrieve" ELSE "leave"
            /\ call'[t].block = call[t].block /\ call'[t].last = q \div BlockSize
  BY BlocksTaken
<1>2. /\ call[t].kind = "read" /\ call[t].block \in Nat
      /\ size' = size /\ position' = position /\ inputData' = inputData
      /\ overlapped' = overlapped
  BY DEF FirstBlock, LastBlock, At, fixed, device, Base, Types, Calls, Kinds, Placed,
         SeekLabels, CloseLabels
<1>3. There(call[t])' = There(call[t])
  BY <1>1, <1>2 DEF There
<1>4. InLoop(t) => InLoop(t)'
  BY <1>1, <1>2, <1>3 DEF InLoop
<1>5. q \in Nat /\ p <= q
  BY <1>1
<1>6. /\ p \div BlockSize \in Nat /\ Holds(p \div BlockSize, p)
      /\ q \div BlockSize \in Nat /\ Holds(q \div BlockSize, q)
  BY <1>1, <1>5, Quotient
<1>7. /\ position'[call'[t].session] = p
      /\ position'[call'[t].session] + call'[t].left - 1 = q
  BY <1>1, <1>2
<1> HIDE DEF p, q
<1>8. ASSUME OnTheDevice(t) PROVE OnTheDevice(t)'
  <2>1. /\ InLoop(t) /\ call[t].data = <<>> /\ call[t].left > 0
        /\ p = call[t].offset + Len(call[t].data)
    BY <1>1, <1>8 DEF OnTheDevice, p
  <2>2. CASE call[t].at = "first" /\ call'[t].at = "last"
             /\ call'[t].block = p \div BlockSize
    BY <1>1, <1>4, <1>6, <1>7, <2>1, <2>2 DEF OnTheDevice
  <2>3. CASE /\ call[t].at = "last"
             /\ call'[t].at = IF call[t].block <= call'[t].last
                              THEN "retrieve" ELSE "leave"
             /\ call'[t].block = call[t].block /\ call'[t].last = q \div BlockSize
    <3>1. Holds(call[t].block, p)
      BY <1>8, <2>3 DEF OnTheDevice, p
    <3>2. call[t].block <= q \div BlockSize
      BY <1>1, <1>2, <1>5, <1>6, <3>1, InOrder
    <3>3. call'[t].at = "retrieve"
      BY <2>3, <3>2
    <3> QED
      BY <1>1, <1>4, <1>6, <1>7, <2>1, <2>3, <3>1, <3>3 DEF OnTheDevice
  <2> QED
    BY <1>1, <2>2, <2>3
<1>9. t \notin overlapped' => OnTheDevice(t)' /\ \A u \in Threads : call[u].kind # "seek"
  BY <1>2, <1>8 DEF Reading
<1> QED
  BY <1>1, <1>2, <1>9, ReadingOfStep DEF GoesOn

\* The last byte that was read and the last that is left, in blocks.
LEMMA LastOfBlock ==
    ASSUME NEW q \in Nat, NEW first \in Nat, NEW left \in Nat, NEW b \in Nat \ {0},
           first <= q + left - 1, q + left - 1 < first + b,
           left = 0 \/ q = first + b
    PROVE  left = 0
  OBVIOUS

LEMMA RetrieveReading ==
    ASSUME Base, Reading, Base', NEW t \in Threads, Retrieve(t)
    PROVE  Reading'
<1>1. PICK s \in Sessions, here \in Nat, got \in Nat :
              /\ s = call[t].session
              /\ here = position[s] - call[t].block * BlockSize
              /\ got = IF here >= BlockSize THEN 0
                       ELSE Smaller(call[t].left, BlockSize - here)
              /\ got <= call[t].left
              /\ GoesOn(t)
              /\ call'[t].kind = call[t].kind /\ call'[t].at = "advance"
              /\ call'[t].offset = call[t].offset /\ call'[t].count = call[t].count
              /\ call'[t].session = s
              /\ call'[t].block = call[t].block /\ call'[t].last = call[t].last
              /\ call'[t].got = got /\ call'[t].left = call[t].left - got
              /\ call'[t].data = call[t].data \o Bytes(position[s], got)
  BY BlockRead
<1>2. /\ call[t].at = "retrieve" /\ call[t].kind = "read"
      /\ size' = size /\ position' = position /\ inputData' = inputData
      /\ overlapped' = overlapped
  BY DEF Retrieve, At, fixed, device, Base, Types, Calls, Kinds, Placed, SeekLabels,
         CloseLabels
<1> DEFINE p == position[s]
           left == call[t].left
           data == call[t].data
           first == call[t].block * BlockSize
<1>3. /\ p \in Nat /\ left \in Nat /\ data \in Seq(Nat) /\ call[t].offset \in Nat
      /\ first \in Nat /\ call[t].last * BlockSize \in Nat /\ BlockSize \in Nat \ {0}
      /\ Len(data) \in Nat
  <2>1. call[t].block \in Nat /\ call[t].last \in Nat /\ BlockSize \in Nat \ {0}
    BY FileAssumption DEF Base, Types, Calls
  <2>2. data \in Seq(Nat) /\ p \in Nat /\ left \in Nat /\ call[t].offset \in Nat
    BY DEF Base, Types, Calls
  <2>3. Len(data) \in Nat
    BY <2>2, LenProperties
  <2>4. first \in Nat /\ call[t].last * BlockSize \in Nat
    BY <2>1
  <2> QED
    BY <2>1, <2>2, <2>3, <2>4
<1>4. ASSUME OnTheDevice(t) PROVE OnTheDevice(t)'
  <2>1. /\ InLoop(t) /\ left > 0 /\ p = call[t].offset + Len(data)
        /\ first <= p /\ p < first + BlockSize
        /\ call[t].last * BlockSize <= p + left - 1
        /\ p + left - 1 < call[t].last * BlockSize + BlockSize
    BY <1>1, <1>2, <1>4 DEF OnTheDevice, Holds
  <2>2. /\ got > 0 /\ got <= left
        /\ first <= p + got - 1 /\ p + got - 1 < first + BlockSize
        /\ left - got = 0 \/ p + got = first + BlockSize
    <3>1. got = IF p - first >= BlockSize THEN 0
                ELSE Smaller(left, BlockSize - (p - first))
      BY <1>1
    <3>2. left > 0 /\ first <= p /\ p < first + BlockSize
      BY <2>1
    <3> HIDE DEF p, left, first
    <3>3. p \in Nat /\ first \in Nat /\ left \in Nat /\ BlockSize \in Nat \ {0}
      BY <1>3
    <3> QED
      BY <3>1, <3>2, <3>3 DEF Smaller
  <2>3. call'[t].data = Bytes(call[t].offset, Len(data) + got)
    <3>1. data = Bytes(call[t].offset, Len(data))
      BY <2>1 DEF InLoop
    <3>2. call'[t].data = Bytes(call[t].offset, Len(data)) \o Bytes(call[t].offset + Len(data), got)
      BY <1>1, <2>1, <3>1
    <3>3. call[t].offset \in Nat /\ Len(data) \in Nat
      BY <1>3
    <3> HIDE DEF data
    <3> QED
      BY <3>2, <3>3, BytesJoin
  <2>4. Len(call'[t].data) = Len(data) + got
    <3>1. Len(data) + got \in Nat /\ call[t].offset \in Nat
      <4> HIDE DEF data
      <4> QED
        BY <1>3
    <3> QED
      BY <2>3, <3>1, BytesAreNumbers
  <2>5. There(call[t])' = There(call[t])
    BY <1>1, <1>2 DEF There
  <2>6. InLoop(t)'
    <3> HIDE DEF data, left
    <3>1. /\ call[t].offset <= size /\ Len(data) + left = There(call[t])
      BY <2>1 DEF InLoop, data, left
    <3>2. call'[t].left = left - got
      BY <1>1 DEF left
    <3>3. Len(data) + got + (left - got) = Len(data) + left
      BY <1>3
    <3> QED
      BY <1>1, <1>2, <2>3, <2>4, <2>5, <3>1, <3>2, <3>3 DEF InLoop
  <2>7. p + got = call[t].offset + Len(call'[t].data)
    <3> HIDE DEF p, data
    <3>1. /\ call[t].offset \in Nat /\ Len(data) \in Nat
          /\ p = call[t].offset + Len(data)
      BY <1>3, <2>1
    <3> QED
      BY <2>4, <3>1
  <2>8. Holds(call[t].block, p + got - 1)
    BY <2>2 DEF Holds
  <2>9. Holds(call[t].last, p + got + (left - got) - 1)
    BY <1>3, <2>1 DEF Holds
  <2> HIDE DEF p, left
  <2>10. /\ position'[call'[t].session] = p /\ call'[t].got = got
         /\ call'[t].left = left - got
    BY <1>1, <1>2 DEF p, left
  <2> QED
    BY <1>1, <2>2, <2>6, <2>7, <2>8, <2>9, <2>10 DEF OnTheDevice
<1>5. t \notin overlapped' => OnTheDevice(t)' /\ \A u \in Threads : call[u].kind # "seek"
  BY <1>2, <1>4 DEF Reading
<1> QED
  BY <1>1, <1>2, <1>5, ReadingOfStep DEF GoesOn

LEMMA AdvanceReading ==
    ASSUME Base, Reading, Base', NEW t \in Threads, Advance(t)
    PROVE  Reading'
<1> DEFINE s == call[t].session
           p == position[s]
           got == call[t].got
           left == call[t].left
           done == call[t].block = call[t].last
           there == IF done THEN "leave" ELSE "retrieve"
           block == IF done THEN call[t].block ELSE call[t].block + 1
           c == [call[t] EXCEPT !.at = there, !.block = block]
<1>1. /\ call[t].at = "advance" /\ call[t].kind = "read" /\ s \in Sessions
      /\ size' = size /\ inputData' = inputData /\ overlapped' = overlapped
      /\ monitor = t
  BY DEF Advance, At, fixed, device, Base, Types, Calls, Kinds, Placed, SeekLabels,
         CloseLabels, WithSession
<1>2. /\ p \in Nat /\ left \in Nat /\ got \in Nat /\ call[t].offset \in Nat
      /\ call[t].block \in Nat /\ call[t].last \in Nat /\ BlockSize \in Nat \ {0}
      /\ call[t].block * BlockSize \in Nat
  <2>1. /\ p \in Nat /\ left \in Nat /\ got \in Nat /\ call[t].offset \in Nat
        /\ call[t].block \in Nat /\ call[t].last \in Nat
    BY <1>1 DEF Base, Types, Calls
  <2> QED
    BY <2>1, FileAssumption
<1>3. position'[s] = p + got
  BY <1>1 DEF Advance, Base, Types
<1>4. /\ GoesOn(t) /\ call'[t].kind = "read" /\ call'[t].at = there
      /\ call'[t].offset = call[t].offset /\ call'[t].count = call[t].count
      /\ call'[t].session = s /\ call'[t].left = left
      /\ call'[t].block = block /\ call'[t].last = call[t].last
      /\ call'[t].data = call[t].data
  <2>1. call[t] \in Calls /\ block \in Nat /\ there \in {"leave", "retrieve"}
    BY <1>2 DEF Base, Types
  <2>2. Becomes(t, c)
    BY DEF Advance
  <2> HIDE DEF block, there
  <2>3. /\ c \in Calls /\ c.kind = "read" /\ c.at = there
        /\ c.offset = call[t].offset /\ c.count = call[t].count
        /\ c.session = s /\ c.left = left
        /\ c.block = block /\ c.last = call[t].last
        /\ c.data = call[t].data
    BY <1>1, <2>1 DEF Calls, Labels
  <2> HIDE DEF c
  <2>4. GoesOn(t) /\ call'[t] = c
    BY <2>2, <2>3, Became DEF Base
  <2> QED
    BY <2>3, <2>4
<1>5. ASSUME OnTheDevice(t) PROVE OnTheDevice(t)'
  <2>1. /\ InLoop(t) /\ got > 0 /\ p + got = call[t].offset + Len(call[t].data)
        /\ Holds(call[t].block, p + got - 1)
        /\ Holds(call[t].last, p + got + left - 1)
        /\ left = 0 \/ p + got = call[t].block * BlockSize + BlockSize
    BY <1>1, <1>5 DEF OnTheDevice
  <2>2. There(call[t])' = There(call[t])
    BY <1>1, <1>4 DEF There
  <2>3. InLoop(t)'
    BY <1>1, <1>4, <2>1, <2>2 DEF InLoop
  <2>4. CASE done
    <3>1. left = 0
      <4>1. /\ call[t].block * BlockSize <= p + got + left - 1
            /\ p + got + left - 1 < call[t].block * BlockSize + BlockSize
        BY <2>1, <2>4 DEF Holds
      <4> DEFINE first == call[t].block * BlockSize
                 q == p + got
      <4>2. q \in Nat /\ first \in Nat
        BY <1>2
      <4> HIDE DEF first, q, p, got, left
      <4>3. first <= q + left - 1 /\ q + left - 1 < first + BlockSize
        BY <4>1 DEF first, q
      <4>4. left = 0 \/ q = first + BlockSize
        BY <2>1 DEF first, q
      <4> QED
        BY <1>2, <4>2, <4>3, <4>4, LastOfBlock
    <3>2. Len(call[t].data) \in Nat
      BY LenProperties DEF Base, Types, Calls
    <3>3. call[t].data = Bytes(call[t].offset, There(call[t]))
      BY <2>1, <3>1, <3>2 DEF InLoop
    <3> QED
      BY <1>4, <2>2, <2>4, <3>3 DEF OnTheDevice
  <2>5. CASE ~done
    <3>1. left > 0
      <4>1. left # 0
        <5> SUFFICES ASSUME left = 0 PROVE FALSE
          OBVIOUS
        <5> DEFINE q == p + got - 1
        <5>1. q \in Nat /\ p + got + left - 1 = q
          BY <1>2, <2>1
        <5>2. Holds(call[t].block, q) /\ Holds(call[t].last, q)
          BY <2>1, <5>1
        <5> HIDE DEF q
        <5> QED
          BY <1>2, <2>5, <5>1, <5>2, OneBlock
      <4> QED
        BY <1>2, <4>1
    <3>2. Holds(call[t].block + 1, p + got)
      <4>1. (call[t].block + 1) * BlockSize = call[t].block * BlockSize + BlockSize
        BY <1>2
      <4>2. p + got = call[t].block * BlockSize + BlockSize
        BY <1>2, <2>1, <3>1
      <4> DEFINE first == call[t].block * BlockSize
                 next == (call[t].block + 1) * BlockSize
      <4>3. first \in Nat /\ next = first + BlockSize /\ p + got = first + BlockSize
        BY <1>2, <4>1, <4>2
      <4> HIDE DEF first, next
      <4>4. next <= p + got /\ p + got < next + BlockSize
        BY <1>2, <4>3
      <4> QED
        BY <4>4 DEF Holds, next
    <3> HIDE DEF p, got, left, s
    <3>3. /\ call'[t].at = "retrieve" /\ call'[t].block = call[t].block + 1
          /\ position'[call'[t].session] = p + got
      BY <1>3, <1>4, <2>5
    <3> QED
      BY <1>4, <2>1, <2>3, <3>1, <3>2, <3>3 DEF OnTheDevice
  <2> QED
    BY <2>4, <2>5
<1>6. t \notin overlapped' => OnTheDevice(t)' /\ \A u \in Threads : call[u].kind # "seek"
  BY <1>1, <1>5 DEF Reading
<1> QED
  BY <1>1, <1>4, <1>6, ReadingOfStep DEF GoesOn

LEMMA CloseReading ==
    ASSUME Base, Reading, Base', NEW t \in Threads,
           CloseInput(t) \/ DestroyContext(t) \/ CloseStore(t)
    PROVE  Reading'
<1>1. CASE Cleared(t, "isOpen")
  BY <1>1, OthersReading
<1>2. CASE ~Cleared(t, "isOpen")
  <2>1. call[t].kind = "close"
    BY DEF CloseInput, Cleared, DestroyContext, CloseStore, At, Base, Types, Calls, Kinds,
           Placed, ReadLabels, SeekLabels
  <2>2. /\ overlapped' = overlapped /\ size' = size /\ inputData' = inputData
        /\ position' = position
    BY <1>2 DEF CloseInput, DestroyContext, CloseStore, fixed, device
  <2>3. PICK c : Becomes(t, c)
    BY <1>2 DEF CloseInput, DestroyContext, CloseStore, Goto
  <2>4. \A u \in Threads \ {t} : call'[u] = call[u]
    BY <2>3 DEF Becomes, Base, Types
  <2>5. call'[t].kind = "close"
    <3>1. CASE CloseInput(t)
      BY <1>2, <2>1, <3>1 DEF CloseInput, Becomes, Goto, Base, Types, Calls
    <3>2. CASE DestroyContext(t)
      BY <2>1, <3>2 DEF DestroyContext, Becomes, Goto, Base, Types, Calls
    <3>3. CASE CloseStore(t)
      BY <2>1, <3>3 DEF CloseStore, Becomes, Goto, Base, Types, Calls
    <3> QED
      BY <3>1, <3>2, <3>3
  <2> QED
    BY <2>2, <2>4, <2>5, ReadingOfStep
<1> QED
  BY <1>1, <1>2

LEMMA BeginReading ==
    ASSUME Base, Reading, Base', NEW t \in Threads,
           \/ \E o \in Offsets, n \in Counts : BeginRead(t, o, n)
           \/ BeginSeek(t)
           \/ BeginClose(t)
    PROVE  Reading'
<1>1. /\ size' = size /\ position' = position /\ inputData' = inputData
      /\ \A u \in Threads \ {t} : call'[u] = call[u]
  BY DEF BeginRead, BeginSeek, BeginClose, Becomes, fixed, device, Base, Types
<1>2. ASSUME NEW o \in Offsets, NEW n \in Counts, BeginRead(t, o, n)
      PROVE  Reading'
  <2>1. /\ call'[t].at = "enter" /\ call'[t].kind = "read" /\ call'[t].data = <<>>
    BY <1>2 DEF BeginRead, Becomes, Idle, Base, Types
  <2>2. /\ overlapped \subseteq overlapped'
        /\ t \notin overlapped' => \A u \in Threads : call[u].kind # "seek"
    BY <1>2 DEF BeginRead, Running
  <2> QED
    BY <1>1, <2>1, <2>2, ReadingOfStep DEF OnTheDevice
<1>3. CASE BeginSeek(t)
  <2>1. call'[t].kind = "seek"
    <3> DEFINE there == IF inputData = None THEN "open" ELSE "move"
    <3>1. Becomes(t, [Idle EXCEPT !.kind = "seek", !.at = there])
      BY <1>3 DEF BeginSeek
    <3> HIDE DEF there
    <3> QED
      BY <3>1 DEF Becomes, Idle, Base, Types
  <2>2. \A u \in Threads : call'[u].kind = "read" => u \in overlapped'
    BY <1>1, <1>3, <2>1 DEF BeginSeek, Running
  <2> QED
    BY <2>2 DEF Reading
<1>4. CASE BeginClose(t)
  <2>1. call'[t].kind = "close" /\ overlapped' = overlapped
    BY <1>4 DEF BeginClose, Becomes, Idle, Base, Types
  <2> QED
    BY <1>1, <2>1, ReadingOfStep
<1> QED
  BY <1>2, <1>3, <1>4

LEMMA InitReading == Init => Reading
  BY IdleCall DEF Init, Reading

LEMMA NextReading == Base /\ Reading /\ [Next]_vars => Reading'
<1> SUFFICES ASSUME Base, Reading, [Next]_vars PROVE Reading'
  OBVIOUS
<1>1. Base'
  BY NextBase
<1>2. CASE UNCHANGED vars
  BY <1>2 DEF vars, fixed, device, Reading, OnTheDevice, InLoop, There
<1>3. CASE Crash
  BY <1>3, IdleCall DEF Crash, Reading
<1>4. ASSUME NEW t \in Threads, Step(t) PROVE Reading'
  BY <1>1, <1>4, OpenReading, StartReading, TakingReading, RetrieveReading,
     AdvanceReading, CloseReading, OthersReading DEF Step
<1> QED
  BY <1>1, <1>2, <1>3, <1>4, BeginReading DEF Next

LEMMA AlwaysReading == Spec => []Reading
  BY AlwaysBase, InitReading, NextReading, PTL DEF Spec

(***************************************************************************)
(* A read that no seek overlapped returns the device's bytes at its own    *)
(* offset, as many as were asked for and are there, for every size of      *)
(* device and of block, whatever other reads, closes and crashes run.      *)
(***************************************************************************)
THEOREM ReadsReturnDevice == Spec => []ReadsDevice
<1>1. Base /\ Reading => ReadsDevice
  BY DEF Base, Types, Calls, Kinds, Placed, SeekLabels, CloseLabels, Reading, OnTheDevice,
         ReadsDevice, At
<1> QED
  BY <1>1, AlwaysBase, AlwaysReading, PTL

-----------------------------------------------------------------------------
(* Counts of references, and what a read may still collect. *)

LEMMA SizeAndBlocks ==
    ASSUME Types
    PROVE  /\ size \in Nat \ {0} /\ BlockSize \in Nat \ {0}
           /\ \A t \in Threads : /\ call[t].count \in Nat /\ call[t].left \in Nat
                                 /\ call[t].block \in Nat /\ call[t].last \in Nat
                                 /\ call[t].data \in Seq(Nat)
                                 /\ Len(call[t].data) \in Nat
<1>1. size \in 1 .. IntLimit /\ IntLimit \in Nat /\ BlockSize \in Nat \ {0}
  BY FileAssumption DEF Types
<1>2. size \in Nat \ {0}
  BY <1>1
<1>3. ASSUME NEW t \in Threads
      PROVE  /\ call[t].count \in Nat /\ call[t].left \in Nat
             /\ call[t].block \in Nat /\ call[t].last \in Nat
             /\ call[t].data \in Seq(Nat)
  BY DEF Types, Calls
<1> QED
  BY <1>1, <1>2, <1>3, LenProperties

\* A call that collects nothing, and may still collect as much as before.
LEMMA StillClipped ==
    ASSUME NEW t \in Threads, Clipped(t),
           call'[t].data = call[t].data, call'[t].left = call[t].left,
           call'[t].count = call[t].count,
           call'[t].at \in BeforeLoop => call[t].at \in BeforeLoop
    PROVE  Clipped(t)'
  BY DEF Clipped

LEMMA EndClipped ==
    ASSUME Types, NEW t \in Threads, End(t)
    PROVE  Clipped(t)'
<1>1. call'[t] = Idle
  BY Ended
<1>2. Idle.data = <<>> /\ Idle.left = 0 /\ Idle.count = 0 /\ Len(<<>>) = 0
  BY DEF Idle
<1> QED
  BY <1>1, <1>2 DEF Clipped

LEMMA GoneClipped ==
    ASSUME Types, NEW t \in Threads, NEW l \in Labels, Goto(t, l), Clipped(t),
           l \in BeforeLoop => call[t].at \in BeforeLoop
    PROVE  Clipped(t)'
<1>1. GoesOn(t) /\ call'[t] = [call[t] EXCEPT !.at = l]
  BY Gone
<1>2. /\ call'[t].data = call[t].data /\ call'[t].left = call[t].left
      /\ call'[t].count = call[t].count /\ call'[t].at = l
  BY <1>1 DEF Types, Calls
<1> QED
  BY <1>2, StillClipped

LEMMA BecomesClipped ==
    ASSUME Types, NEW t \in Threads, NEW l \in Labels, NEW s \in Sessions \cup {None},
           Becomes(t, [call[t] EXCEPT !.at = l, !.session = s]), Clipped(t),
           l \in BeforeLoop => call[t].at \in BeforeLoop
    PROVE  Clipped(t)'
<1> DEFINE c == [call[t] EXCEPT !.at = l, !.session = s]
<1>1. /\ c \in Calls /\ c.data = call[t].data /\ c.left = call[t].left
      /\ c.count = call[t].count /\ c.at = l
  BY DEF Types, Calls
<1> HIDE DEF c
<1>2. call'[t] = c
  BY <1>1, Became DEF c
<1> QED
  BY <1>1, <1>2, StillClipped

LEMMA StepClipped ==
    ASSUME Base, NEW t \in Threads, Clipped(t), Step(t)
    PROVE  Clipped(t)'
<1>1. CASE End(t)
  BY <1>1, EndClipped DEF Base
<1>2. CASE OpenFile(t)
  <2>1. ASSUME NEW s \in Free, Becomes(t, [call[t] EXCEPT !.at = "connect", !.session = s])
        PROVE  Clipped(t)'
    BY <1>2, <2>1, BecomesClipped DEF OpenFile, At, Free, Base, Labels, BeforeLoop
  <2>2. CASE Goto(t, IF call[t].kind = "read" THEN "compare" ELSE "move")
    BY <1>2, <2>2, GoneClipped DEF OpenFile, At, Base, Labels, BeforeLoop
  <2> QED
    BY <1>2, <2>1, <2>2 DEF OpenFile
<1>3. CASE OpenDevice(t)
  <2> DEFINE there == IF call[t].kind = "read" THEN "compare" ELSE "move"
  <2>1. there \in Labels /\ call[t].at \in BeforeLoop
    BY <1>3 DEF OpenDevice, At, Labels, BeforeLoop
  <2>2. Becomes(t, [call[t] EXCEPT !.at = there, !.session = None])
    BY <1>3 DEF OpenDevice
  <2> HIDE DEF there
  <2> QED
    BY <2>1, <2>2, BecomesClipped DEF Base
<1>4. CASE Enter(t)
  BY <1>4, GoneClipped DEF Enter, At, Base, Labels, BeforeLoop
<1>5. CASE CompareSize(t)
  BY <1>1, <1>5, GoneClipped DEF CompareSize, Cleared, At, Base, Labels, BeforeLoop
<1>6. CASE SeekTo(t)
  BY <1>1, <1>6, GoneClipped DEF SeekTo, Cleared, At, Base, Labels, BeforeLoop
<1>7. CASE StartRead(t)
  <2>1. ASSUME At(t, "read"), inputData # None,
               NEW left, left = Smaller(call[t].count, size - position[inputData]),
               Clip(t, left)
        PROVE  Clipped(t)'
    <3>1. position[inputData] \in Nat /\ call[t].count \in Nat /\ size \in Nat
      BY <2>1, SizeAndBlocks DEF Base, Types
    <3>2. left \in Int /\ left <= call[t].count
      BY <2>1, <3>1 DEF Smaller
    <3>3. CASE left <= 0
      BY <2>1, <3>3, GoneClipped DEF Clip, Base, Labels, BeforeLoop
    <3>4. CASE ~(left <= 0)
      <4>1. left \in Nat \ {0}
        BY <3>2, <3>4
      <4>2. /\ call'[t].at = "first" /\ call'[t].count = call[t].count
            /\ call'[t].data = call[t].data /\ call'[t].left = left
        BY <2>1, <4>1, Clipping DEF Base
      <4>3. call[t].data = <<>> /\ Len(<<>>) = 0
        BY <2>1 DEF At, Clipped, BeforeLoop
      <4> QED
        BY <3>2, <4>1, <4>2, <4>3 DEF Clipped, BeforeLoop
    <3> QED
      BY <3>3, <3>4
  <2> QED
    BY <1>1, <1>7, <2>1 DEF StartRead, Cleared
<1>8. CASE Retrieve(t)
  <2>1. PICK got \in Nat, from \in Nat :
              /\ got <= call[t].left
              /\ call'[t].at = "advance" /\ call'[t].count = call[t].count
              /\ call'[t].left = call[t].left - got
              /\ call'[t].data = call[t].data \o Bytes(from, got)
    BY <1>8, BlockRead DEF Base, Types
  <2>2. Len(call'[t].data) = Len(call[t].data) + got
    <3>1. /\ call[t].data \in Seq(Nat)
          /\ Bytes(from, got) \in Seq(Nat) /\ Len(Bytes(from, got)) = got
      BY SizeAndBlocks, BytesAreNumbers DEF Base
    <3>2. \A a, b \in Seq(Nat) : Len(a \o b) = Len(a) + Len(b)
      BY ConcatProperties
    <3> QED
      BY <2>1, <3>1, <3>2
  <2>3. /\ call[t].at = "retrieve" /\ Len(call[t].data) \in Nat /\ call[t].left \in Nat
        /\ call[t].count \in Nat
    BY <1>8, SizeAndBlocks DEF Retrieve, At, Base
  <2>4. Len(call'[t].data) + call'[t].left <= call'[t].count
    BY <2>1, <2>2, <2>3 DEF Clipped
  <2> QED
    BY <2>1, <2>3, <2>4 DEF Clipped, BeforeLoop
<1>9. CASE Advance(t)
  <2> DEFINE done == call[t].block = call[t].last
             there == IF done THEN "leave" ELSE "retrieve"
             block == IF done THEN call[t].block ELSE call[t].block + 1
             c == [call[t] EXCEPT !.at = there, !.block = block]
  <2>1. call[t].at = "advance" /\ call[t].block \in Nat
    BY <1>9, SizeAndBlocks DEF Advance, At, Base
  <2>2. Becomes(t, c)
    BY <1>9 DEF Advance
  <2>3. block \in Nat /\ there \in {"leave", "retrieve"}
    BY <2>1
  <2> HIDE DEF block, there
  <2>4. /\ c \in Calls /\ c.at = there /\ c.data = call[t].data
        /\ c.left = call[t].left /\ c.count = call[t].count
    BY <2>3 DEF Base, Types, Calls, Labels
  <2> HIDE DEF c
  <2>5. call'[t] = c
    BY <2>2, <2>4, Became DEF Base
  <2> QED
    BY <2>3, <2>4, <2>5, StillClipped DEF BeforeLoop
<1>10. CASE CloseInput(t)
  BY <1>1, <1>10, GoneClipped, BecomesClipped
     DEF CloseInput, Cleared, Base, Types, Labels, BeforeLoop
<1>11. CASE DestroyContext(t)
  BY <1>11, GoneClipped DEF DestroyContext, Base, Labels, BeforeLoop
<1>12. CASE CloseStore(t)
  BY <1>12, BecomesClipped DEF CloseStore, Base, Labels, BeforeLoop
<1>13. CASE FirstBlock(t) \/ LastBlock(t)
  BY <1>13, BlocksTaken, StillClipped DEF BeforeLoop
<1> QED
  BY <1>1, <1>2, <1>3, <1>4, <1>5, <1>6, <1>7, <1>8, <1>9, <1>10, <1>11, <1>12, <1>13
     DEF Step, OpenFails, RetrieveFails, Leave, Move, CloseFails, Clear

LEMMA NextClipped ==
    Base /\ AllClipped /\ [Next]_vars => AllClipped'
<1> SUFFICES ASSUME Base, \A t \in Threads : Clipped(t), [Next]_vars, NEW u \in Threads
             PROVE  Clipped(u)'
  BY DEF AllClipped
<1>2. CASE UNCHANGED vars
  BY <1>2 DEF vars, Clipped
<1>3. Idle.data = <<>> /\ Idle.left = 0 /\ Idle.count = 0 /\ Idle.at = "idle" /\ Len(<<>>) = 0
  BY DEF Idle
<1>4. CASE Crash
  BY <1>3, <1>4 DEF Crash, Clipped
<1>5. ASSUME NEW t \in Threads, t # u,
             \/ \E o \in Offsets, n \in Counts : BeginRead(t, o, n)
             \/ BeginSeek(t) \/ BeginClose(t) \/ Step(t)
      PROVE  Clipped(u)'
  <2>1. \E c : Becomes(t, c)
    BY <1>5 DEF Step, OpenFile, OpenDevice, OpenFails, Enter, CompareSize, SeekTo, StartRead,
         Clip, FirstBlock, LastBlock, Cleared, Retrieve, RetrieveFails, Advance, Leave, Move, CloseInput,
         DestroyContext, CloseStore, CloseFails, Clear, BeginRead, BeginSeek, BeginClose,
         Goto, End
  <2>2. call'[u] = call[u]
    BY <1>5, <2>1 DEF Becomes, Base, Types
  <2> QED
    BY <2>2 DEF Clipped
<1>6. CASE Step(u)
  BY <1>6, StepClipped
<1>7. ASSUME NEW o \in Offsets, NEW n \in Counts, BeginRead(u, o, n)
      PROVE  Clipped(u)'
  <2>1. /\ call'[u].data = <<>> /\ call'[u].left = 0 /\ call'[u].count = n
    BY <1>7 DEF BeginRead, Becomes, Idle, Base, Types
  <2>2. n \in Nat
    BY FileAssumption
  <2> QED
    BY <1>3, <2>1, <2>2 DEF Clipped
<1>8. CASE BeginSeek(u) \/ BeginClose(u)
  <2>1. PICK l \in {"open", "move", "isOpen"}, k \in Kinds :
            Becomes(u, [Idle EXCEPT !.kind = k, !.at = l])
    BY <1>8, Zenon DEF BeginSeek, BeginClose, Kinds
  <2>2. /\ call'[u].data = <<>> /\ call'[u].left = 0 /\ call'[u].count = 0
    BY <2>1 DEF Becomes, Idle, Base, Types
  <2> QED
    BY <1>3, <2>2 DEF Clipped
<1> QED
  BY <1>2, <1>4, <1>5, <1>6, <1>7, <1>8 DEF Next

\* Calls that drop a reference are threads, so there are finitely many.
LEMMA CloserCount ==
    ASSUME NEW s \in Sessions
    PROVE  /\ IsFiniteSet(Closers(s)) /\ Cardinality(Closers(s)) \in Nat
           /\ IsFiniteSet(Closers(s)') /\ Cardinality(Closers(s)') \in Nat
           /\ Cardinality(Closers(s)') <= Cardinality(Threads)
           /\ Cardinality(Closers(s)) <= Cardinality(Threads)
           /\ Cardinality(Threads) \in Nat
           /\ Closers(s)' \subseteq Closers(s) =>
                 Cardinality(Closers(s)') <= Cardinality(Closers(s))
           /\ \A t \in Closers(s) : Closers(s)' \subseteq Closers(s) \ {t} =>
                 Cardinality(Closers(s)') <= Cardinality(Closers(s)) - 1
<1>1. IsFiniteSet(Threads) /\ Closers(s) \subseteq Threads /\ Closers(s)' \subseteq Threads
  BY FileAssumption DEF Closers
<1>2. /\ IsFiniteSet(Closers(s)) /\ IsFiniteSet(Closers(s)')
      /\ Cardinality(Closers(s)') <= Cardinality(Threads)
      /\ Cardinality(Closers(s)) <= Cardinality(Threads)
  BY <1>1, FS_Subset
<1>3. /\ Cardinality(Threads) \in Nat /\ Cardinality(Closers(s)) \in Nat
      /\ Cardinality(Closers(s)') \in Nat
  BY <1>1, <1>2, FS_CardinalityType
<1>4. Closers(s)' \subseteq Closers(s) => Cardinality(Closers(s)') <= Cardinality(Closers(s))
  BY <1>2, FS_Subset
<1>5. ASSUME NEW t \in Closers(s), Closers(s)' \subseteq Closers(s) \ {t}
      PROVE  Cardinality(Closers(s)') <= Cardinality(Closers(s)) - 1
  <2>1. IsFiniteSet(Closers(s) \ {t}) /\ Cardinality(Closers(s) \ {t}) = Cardinality(Closers(s)) - 1
    BY <1>2, FS_RemoveElement
  <2> QED
    BY <1>5, <2>1, FS_Subset
<1> QED
  BY <1>2, <1>3, <1>4, <1>5

\* A step that touches the references of at most one session.
LEMMA CountedOfStep ==
    ASSUME Base, Counted, NEW t \in Threads,
           \A u \in Threads \ {t} : call'[u] = call[u],
           \A s \in Sessions :
              \/ references'[s] \in {0, 1}
              \/ /\ references'[s] = references[s]
                 /\ call'[t].at \notin {"destroy", "closeStore"}
              \/ /\ references'[s] = references[s]
                 /\ call[t].at \in {"destroy", "closeStore"}
                 /\ call'[t].session = call[t].session
              \/ /\ references'[s] = references[s] - 1
                 /\ call[t].at = "closeStore" /\ call[t].session = s
                 /\ call'[t].at \notin {"destroy", "closeStore"}
    PROVE  Counted'
<1> SUFFICES ASSUME NEW s \in Sessions
             PROVE  /\ references'[s] <= 1
                    /\ references'[s] >= Cardinality(Closers(s)') - Cardinality(Threads)
  BY DEF Counted
<1>1. /\ references[s] \in Int /\ references[s] <= 1
      /\ references[s] >= Cardinality(Closers(s)) - Cardinality(Threads)
  BY DEF Counted, Base, Types
<1>2. CASE references'[s] \in {0, 1}
  BY <1>2, CloserCount
<1>3. CASE /\ references'[s] = references[s]
           /\ \/ call'[t].at \notin {"destroy", "closeStore"}
              \/ /\ call[t].at \in {"destroy", "closeStore"}
                 /\ call'[t].session = call[t].session
  <2>1. Closers(s)' \subseteq Closers(s)
    BY <1>3 DEF Closers
  <2> QED
    BY <1>1, <1>3, <2>1, CloserCount
<1>4. CASE /\ references'[s] = references[s] - 1
           /\ call[t].at = "closeStore" /\ call[t].session = s
           /\ call'[t].at \notin {"destroy", "closeStore"}
  <2>1. t \in Closers(s) /\ Closers(s)' \subseteq Closers(s) \ {t}
    BY <1>4 DEF Closers
  <2>2. Cardinality(Closers(s)') <= Cardinality(Closers(s)) - 1
    BY <2>1, CloserCount
  <2> QED
    BY <1>1, <1>4, <2>2, CloserCount
<1> QED
  BY <1>2, <1>3, <1>4

LEMMA GotoBecomes ==
    ASSUME Types, NEW t \in Threads, NEW l, Goto(t, l)
    PROVE  \E c : Becomes(t, c) /\ c.at = l /\ c.session = call[t].session
<1> DEFINE c == [call[t] EXCEPT !.at = l]
<1>1. Becomes(t, c) /\ c.at = l /\ c.session = call[t].session
  BY DEF Goto, Types, Calls
<1> QED
  BY <1>1

LEMMA NextCounted == Base /\ Accounted /\ Counted /\ [Next]_vars => Counted'
<1> SUFFICES ASSUME Base, Accounted, Counted, [Next]_vars PROVE Counted'
  OBVIOUS
<1>1. CASE UNCHANGED vars
  BY <1>1 DEF vars, device, Counted, Closers
<1>2. CASE Crash
  <2>1. \A s \in Sessions : references'[s] = 0
    BY <1>2 DEF Crash
  <2> QED
    BY <2>1, CloserCount DEF Counted
<1>3. ASSUME NEW t \in Threads, End(t), references' = references
      PROVE  Counted'
  BY <1>3, Ended, IdleCall, CountedOfStep DEF Base
<1>4. ASSUME NEW t \in Threads, NEW c, Becomes(t, c), references' = references,
             \/ c.at \notin {"destroy", "closeStore"}
             \/ call[t].at = "destroy" /\ c.session = call[t].session
             \/ c.session \in open
      PROVE  Counted'
  <2>1. call'[t] = c /\ \A u \in Threads \ {t} : call'[u] = call[u]
    BY <1>4 DEF Becomes, Base, Types
  <2>2. ASSUME c.session \in open PROVE Counted'
    <3> SUFFICES ASSUME NEW s \in Sessions
                 PROVE  /\ references'[s] <= 1
                        /\ references'[s] >= Cardinality(Closers(s)') - Cardinality(Threads)
      BY DEF Counted
    <3>1. CASE s = c.session
      <4>1. references'[s] = 1
        BY <1>4, <2>2, <3>1 DEF Accounted, Opened
      <4> QED
        BY <4>1, CloserCount
    <3>2. CASE s # c.session
      <4>1. Closers(s)' \subseteq Closers(s)
        BY <2>1, <3>2 DEF Closers
      <4>2. /\ references[s] \in Int /\ references[s] <= 1
            /\ references[s] >= Cardinality(Closers(s)) - Cardinality(Threads)
        BY DEF Counted, Base, Types
      <4> QED
        BY <1>4, <4>1, <4>2, CloserCount
    <3> QED
      BY <3>1, <3>2
  <2> QED
    BY <1>4, <2>1, <2>2, CountedOfStep
<1>5. ASSUME NEW t \in Threads,
             \/ \E o \in Offsets, n \in Counts : BeginRead(t, o, n)
             \/ BeginSeek(t)
             \/ BeginClose(t)
      PROVE  Counted'
  <2>1. PICK c : /\ Becomes(t, c) /\ c.at \in {"enter", "open", "move", "isOpen"}
    <3>1. CASE \E o \in Offsets, n \in Counts : BeginRead(t, o, n)
      <4>1. PICK o \in Offsets, n \in Counts : BeginRead(t, o, n)
        BY <3>1
      <4> DEFINE d == [Idle EXCEPT !.kind = "read", !.at = "enter",
                                   !.offset = o, !.count = n]
      <4>2. Becomes(t, d) /\ d.at = "enter"
        BY <4>1 DEF BeginRead, Idle
      <4> QED
        BY <4>2
    <3>2. CASE BeginSeek(t)
      <4> DEFINE there == IF inputData = None THEN "open" ELSE "move"
                 d == [Idle EXCEPT !.kind = "seek", !.at = there]
      <4>1. Becomes(t, d) /\ d.at = there /\ there \in {"open", "move"}
        BY <3>2 DEF BeginSeek, Idle
      <4> HIDE DEF d, there
      <4> QED
        BY <4>1
    <3>3. CASE BeginClose(t)
      <4> DEFINE d == [Idle EXCEPT !.kind = "close", !.at = "isOpen"]
      <4>1. Becomes(t, d) /\ d.at = "isOpen"
        BY <3>3 DEF BeginClose, Idle
      <4> QED
        BY <4>1
    <3> QED
      BY <1>5, <3>1, <3>2, <3>3
  <2> QED
    BY <1>4, <1>5, <2>1 DEF BeginRead, BeginSeek, BeginClose, device
<1>6. ASSUME NEW t \in Threads, OpenFile(t) PROVE Counted'
  <2>1. call'[t].at \notin {"destroy", "closeStore"}
        /\ \A u \in Threads \ {t} : call'[u] = call[u]
    <3>1. ASSUME NEW s \in Free,
                 Becomes(t, [call[t] EXCEPT !.at = "connect", !.session = s])
          PROVE  /\ call'[t].at = "connect"
                 /\ \A u \in Threads \ {t} : call'[u] = call[u]
      BY <3>1 DEF Becomes, Base, Types, Calls
    <3>2. CASE Goto(t, IF call[t].kind = "read" THEN "compare" ELSE "move")
      <4>1. PICK c : Becomes(t, c) /\ c.at \in {"compare", "move"}
        BY <3>2, GotoBecomes DEF Base
      <4> QED
        BY <4>1 DEF Becomes, Base, Types
    <3> QED
      BY <1>6, <3>1, <3>2 DEF OpenFile
  <2> QED
    BY <1>6, <2>1, CountedOfStep DEF OpenFile
<1>7. ASSUME NEW t \in Threads, OpenDevice(t) \/ OpenFails(t) PROVE Counted'
  <2> DEFINE s == call[t].session
  <2>1. call[t].at = "connect" /\ references[s] = 0 /\ s \in Sessions
    BY <1>7 DEF OpenDevice, OpenFails, At, Accounted, Connecting, Base, Placed, WithSession
  <2>2. references'[s] \in {0, 1} /\ \A x \in Sessions \ {s} : references'[x] = references[x]
    BY <1>7, <2>1 DEF OpenDevice, OpenFails, Base, Types
  <2>3. call'[t].at \notin {"destroy", "closeStore"}
        /\ \A u \in Threads \ {t} : call'[u] = call[u]
    <3>1. CASE OpenFails(t)
      BY <3>1, Ended, IdleCall DEF OpenFails, Base
    <3>2. CASE OpenDevice(t)
      BY <3>2 DEF OpenDevice, Becomes, Base, Types, Calls
    <3> QED
      BY <1>7, <3>1, <3>2
  <2> HIDE DEF s
  <2> QED
    BY <2>2, <2>3, CountedOfStep
<1>8. ASSUME NEW t \in Threads,
             \/ Enter(t) \/ CompareSize(t) \/ SeekTo(t) \/ StartRead(t)
             \/ FirstBlock(t) \/ LastBlock(t) \/ Retrieve(t) \/ RetrieveFails(t) \/ Advance(t) \/ Leave(t) \/ Move(t)
             \/ CloseFails(t) \/ Clear(t)
      PROVE  Counted'
  <2>1. references' = references
    BY <1>8 DEF Enter, CompareSize, SeekTo, StartRead, FirstBlock, LastBlock, Cleared, Retrieve, RetrieveFails,
                Advance, Leave, Move, CloseFails, Clear, device
  <2>2. End(t) \/ \E c : Becomes(t, c) /\ c.at \notin {"destroy", "closeStore"}
    <3>1. CASE Retrieve(t)
      <4>1. call'[t].at = "advance" /\ GoesOn(t)
        BY <3>1, BlockRead
      <4>2. \E c : Becomes(t, c)
        BY <3>1 DEF Retrieve
      <4> QED
        BY <4>1, <4>2 DEF Becomes, Base, Types
    <3>2. CASE Enter(t) \/ CompareSize(t) \/ SeekTo(t)
      <4>1. End(t) \/ \E l \in {"open", "compare", "seek", "read", "leave"} : Goto(t, l)
        BY <3>2, Zenon DEF Enter, CompareSize, SeekTo, Cleared
      <4> QED
        BY <4>1, GotoBecomes DEF Base
    <3>3. CASE StartRead(t)
      <4>1. End(t) \/ \E left : Clip(t, left)
        BY <3>3, Zenon DEF StartRead, Cleared
      <4>2. ASSUME NEW left, Clip(t, left)
            PROVE  \E c : Becomes(t, c) /\ c.at \in {"leave", "first"}
        <5> DEFINE c == [call[t] EXCEPT !.at = "first", !.session = inputData, !.left = left]
        <5>1. c.at = "first"
          BY DEF Base, Types, Calls
        <5>2. Goto(t, "leave") \/ Becomes(t, c)
          BY <4>2, Zenon DEF Clip
        <5> HIDE DEF c
        <5> QED
          BY <5>1, <5>2, GotoBecomes DEF Base, Labels
      <4> QED
        BY <4>1, <4>2
    <3>4. CASE Advance(t)
      <4> DEFINE done == call[t].block = call[t].last
                 there == IF done THEN "leave" ELSE "retrieve"
                 block == IF done THEN call[t].block ELSE call[t].block + 1
                 c == [call[t] EXCEPT !.at = there, !.block = block]
      <4>1. Becomes(t, c)
        BY <3>4 DEF Advance
      <4>2. c.at = there /\ there \in {"leave", "retrieve"}
        <5> HIDE DEF block
        <5> QED
          BY DEF Base, Types, Calls
      <4> HIDE DEF c, there
      <4> QED
        BY <4>1, <4>2
    <3>5. CASE RetrieveFails(t) \/ Leave(t) \/ Move(t) \/ CloseFails(t) \/ Clear(t)
      BY <3>5 DEF RetrieveFails, Leave, Move, CloseFails, Clear
    <3>6. CASE FirstBlock(t) \/ LastBlock(t)
      <4>1. GoesOn(t) /\ call'[t].at \in {"last", "retrieve", "leave"}
        BY <3>6, BlocksTaken
      <4>2. \E c : Becomes(t, c)
        BY <3>6 DEF FirstBlock, LastBlock
      <4> QED
        BY <4>1, <4>2 DEF Becomes, Base, Types
    <3> QED
      BY <1>8, <3>1, <3>2, <3>3, <3>4, <3>5, <3>6
  <2> QED
    BY <1>3, <1>4, <2>1, <2>2
<1>9. ASSUME NEW t \in Threads, CloseInput(t) \/ DestroyContext(t) PROVE Counted'
  <2>1. references' = references
    BY <1>9 DEF CloseInput, Cleared, DestroyContext, device
  <2>2. \/ End(t)
        \/ \E c : /\ Becomes(t, c)
                  /\ \/ c.at \notin {"destroy", "closeStore"}
                     \/ call[t].at = "destroy" /\ c.session = call[t].session
                     \/ c.session \in open
    <3>1. CASE DestroyContext(t)
      BY <3>1, GotoBecomes DEF DestroyContext, At, Base
    <3>2. CASE CloseInput(t)
      <4> DEFINE c == [call[t] EXCEPT !.at = "destroy", !.session = inputData]
      <4>1. c.session = inputData
        BY DEF Base, Types, Calls
      <4> HIDE DEF c
      <4>2. End(t) \/ Goto(t, "clear") \/ (Becomes(t, c) /\ inputData \in open)
        BY <3>2 DEF CloseInput, Cleared, c
      <4> QED
        BY <4>1, <4>2, GotoBecomes DEF Base
    <3> QED
      BY <1>9, <3>1, <3>2
  <2> QED
    BY <1>3, <1>4, <1>9, <2>1, <2>2
<1>10. ASSUME NEW t \in Threads, CloseStore(t) PROVE Counted'
  <2> DEFINE s == call[t].session
  <2>1. call[t].at = "closeStore" /\ s \in Sessions
    BY <1>10 DEF CloseStore, At, Base, Placed, WithSession
  <2>2. /\ references'[s] = references[s] - 1
        /\ \A x \in Sessions \ {s} : references'[x] = references[x]
    BY <1>10, <2>1 DEF CloseStore, Base, Types
  <2>3. call'[t].at = "clear" /\ \A u \in Threads \ {t} : call'[u] = call[u]
    BY <1>10 DEF CloseStore, Becomes, Base, Types, Calls
  <2> QED
    BY <2>1, <2>2, <2>3, CountedOfStep
<1> QED
  BY <1>1, <1>2, <1>5, <1>6, <1>7, <1>8, <1>9, <1>10 DEF Next, Step

LEMMA InitCounted == Init => Counted /\ AllClipped
<1> SUFFICES ASSUME Init PROVE Counted /\ \A t \in Threads : Clipped(t)
  BY DEF AllClipped
<1>1. Counted
  BY CloserCount DEF Init, Counted
<1>2. Idle.data = <<>> /\ Idle.left = 0 /\ Idle.count = 0 /\ Len(<<>>) = 0
  BY DEF Idle
<1>3. ASSUME NEW t \in Threads PROVE Clipped(t)
  BY <1>2 DEF Init, Clipped
<1> QED
  BY <1>1, <1>3

LEMMA AlwaysCounted == Spec => [](Counted /\ AllClipped)
  BY AlwaysAccounted, InitCounted, NextCounted, NextClipped, PTL DEF Spec

\* A block that holds a place before the end of a read lies on the device if
\* the read ends there.
LEMMA WithinDevice ==
  ASSUME NEW offset \in Nat, NEW taken \in Nat, NEW left \in Nat, NEW p \in Nat,
         NEW block \in Nat, NEW last \in Nat,
         size \in Nat, BlockSize \in Nat, left > 0,
         p = offset + taken, taken + left <= size - offset,
         Holds(block, p), Holds(last, p + left - 1)
  PROVE  OnDevice(block) /\ OnDevice(last)
<1>1. p + left <= size
  OBVIOUS
<1>2. block * BlockSize \in Nat /\ last * BlockSize \in Nat
  OBVIOUS
<1>3. block * BlockSize <= p /\ last * BlockSize <= p + left - 1
  BY DEF Holds
<1> HIDE DEF Holds
<1>4. block * BlockSize < size /\ last * BlockSize < size
  BY <1>1, <1>2, <1>3
<1> QED
  BY <1>4 DEF OnDevice

(***************************************************************************)
(* Every variable keeps to its kind, no reference count goes over one or   *)
(* further below zero than there are threads, no read collects more than   *)
(* it was asked for, with seeks and closes at any time, and the blocks of  *)
(* a read that no seek overlapped are the device's.                        *)
(***************************************************************************)
THEOREM TypeCorrect == Spec => []TypeOK
<1>1. ASSUME Base, Counted, AllClipped, Reading PROVE TypeOK
  <2>1. ASSUME NEW s \in Sessions
        PROVE  references[s] \in -Cardinality(Threads) .. 1
    <3>1. /\ references[s] \in Int /\ references[s] <= 1
          /\ references[s] >= Cardinality(Closers(s)) - Cardinality(Threads)
      BY <1>1 DEF Counted, Base, Types
    <3> QED
      BY <3>1, CloserCount
  <2>2. references \in [Sessions -> -Cardinality(Threads) .. 1]
    BY <1>1, <2>1 DEF Base, Types
  <2>3. overlapped \subseteq Running("read")
    BY <1>1 DEF Base, Types, Placed, Running
  <2>4. ASSUME NEW t \in Threads
        PROVE  /\ call[t].at \in Labels /\ call[t].session \in Sessions \cup {None}
               /\ Len(call[t].data) + call[t].left <= call[t].count
    BY <1>1 DEF Base, Types, Calls, AllClipped, Clipped
  <2>5. ASSUME NEW t \in Threads, At(t, "retrieve"), t \notin overlapped
        PROVE  OnDevice(call[t].block) /\ OnDevice(call[t].last)
    <3> DEFINE p == position[call[t].session]
    <3>1. call[t].kind = "read" /\ call[t].session \in Sessions
      BY <1>1, <2>5 DEF At, Base, Types, Calls, Kinds, Placed, SeekLabels, CloseLabels,
                        WithSession
    <3>2. /\ InLoop(t) /\ call[t].left > 0
          /\ p = call[t].offset + Len(call[t].data)
          /\ Holds(call[t].block, p) /\ Holds(call[t].last, p + call[t].left - 1)
      BY <1>1, <2>5, <3>1 DEF Reading, OnTheDevice, At
    <3>3. /\ size \in Nat /\ BlockSize \in Nat /\ call[t].left \in Nat
          /\ call[t].block \in Nat /\ call[t].last \in Nat /\ call[t].count \in Nat
          /\ Len(call[t].data) \in Nat /\ call[t].offset \in Nat
      BY <1>1, SizeAndBlocks, LenProperties DEF Base, Types, Calls
    <3> HIDE DEF p
    <3>4. p \in Nat
      BY <3>2, <3>3
    <3>5. Len(call[t].data) + call[t].left <= size - call[t].offset
      BY <3>2, <3>3 DEF InLoop, There, Smaller
    <3> QED
      BY <3>2, <3>3, <3>4, <3>5, WithinDevice
  <2> QED
    BY <1>1, <2>2, <2>3, <2>4, <2>5 DEF TypeOK, Base, Types
<1>2. Base /\ Counted /\ AllClipped /\ Reading => TypeOK
  BY <1>1
<1> QED
  BY <1>2, AlwaysBase, AlwaysCounted, AlwaysReading, PTL

=============================================================================
