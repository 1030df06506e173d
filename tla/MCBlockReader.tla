--------------------------- MODULE MCBlockReader ---------------------------
(***************************************************************************)
(* Small instances of BlockReader for TLC.                                 *)
(***************************************************************************)
EXTENDS BlockReader, TLC

Symmetry == Permutations(Readers)

=============================================================================
