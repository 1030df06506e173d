------------------------ MODULE MCClientRegistration ------------------------
(***************************************************************************)
(* Small instances of ClientRegistration for TLC.                          *)
(***************************************************************************)
EXTENDS ClientRegistration

\* Two machines started from one boot image; the first also under a second
\* address.
MCClientId   == [c \in Clients |-> "image"]
MCHardwareId == [c \in Clients |-> IF c = "other" THEN "machine2" ELSE "machine1"]
MCDisks      == [c \in Clients |-> IF c = "other" THEN {0} ELSE {0, 1}]

=============================================================================
