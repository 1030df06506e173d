------------------------- MODULE MCDiskInformation -------------------------
(***************************************************************************)
(* Small instances of DiskInformation for TLC, with the machines and disks *)
(* of those of ClientRegistration.                                         *)
(***************************************************************************)
EXTENDS MCClientRegistration, DiskInformation
=============================================================================
