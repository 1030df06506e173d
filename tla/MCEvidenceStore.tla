-------------------------- MODULE MCEvidenceStore --------------------------
(***************************************************************************)
(* Small instances of EvidenceStore for TLC.                               *)
(***************************************************************************)
EXTENDS EvidenceStore, TLC

\* A byte is its position on the device plus one; 0 fills extended files.
MCBytes  == 0 .. ImageLength
MCDevice == [p \in 0 .. ImageLength - 1 |-> p + 1]

Symmetry == Permutations(Readers) \cup Permutations(Stores)

=============================================================================
