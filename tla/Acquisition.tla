---------------------------- MODULE Acquisition ----------------------------
(***************************************************************************)
(* What the evidence store promises to the rest of the acquisition server, *)
(* with its cache, its reference counts and its files hidden.              *)
(*                                                                         *)
(* An acquisition is three growing sets of blocks of one remote device:    *)
(* the blocks whose bytes are in the evidence file, the blocks the server  *)
(* treats as acquired (it serves them without asking the device again),    *)
(* and the blocks a restarted server will find marked as acquired.  The    *)
(* promise is the order between them: nothing is marked before it is       *)
(* there, and closing the device or a restart may forget progress but      *)
(* never invents any.                                                      *)
(***************************************************************************)
EXTENDS Naturals

CONSTANT Blocks

VARIABLES
    written,   \* blocks whose device bytes are in the evidence file
    acquired,  \* blocks the running server treats as available
    recorded   \* blocks marked in the bitmap file

vars == <<written, acquired, recorded>>

Init ==
    /\ written \in SUBSET Blocks
    /\ acquired = {}
    /\ recorded = {}

\* Bytes reach the evidence file; nothing is announced yet.
Write ==
    /\ written' \in SUBSET Blocks
    /\ written \subseteq written'
    /\ UNCHANGED <<acquired, recorded>>

\* A block whose bytes are there becomes available to readers.
Acquire ==
    /\ \E b \in written : acquired' = acquired \cup {b}
    /\ UNCHANGED <<written, recorded>>

\* Some of the available blocks are marked in the bitmap file.
Record ==
    /\ \E S \in SUBSET acquired : recorded' = recorded \cup S
    /\ UNCHANGED <<written, acquired>>

\* The last user leaves, or the server restarts: some of the available blocks
\* are marked on the way, and from then on what is available is what the
\* bitmap file says.
Leave ==
    /\ \E S \in SUBSET acquired : recorded' = recorded \cup S
    /\ acquired' = recorded'
    /\ UNCHANGED written

Next == Write \/ Acquire \/ Record \/ Leave

Spec == Init /\ [][Next]_vars

(***************************************************************************)
(* Nothing is marked, in memory or on disk, before its bytes are in the    *)
(* evidence file.                                                          *)
(***************************************************************************)
MarkedIsWritten == recorded \subseteq acquired /\ acquired \subseteq written

=============================================================================
