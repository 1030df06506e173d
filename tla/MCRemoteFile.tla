---------------------------- MODULE MCRemoteFile ----------------------------
(***************************************************************************)
(* Small instances of RemoteFile for TLC.                                  *)
(***************************************************************************)
EXTENDS RemoteFile

\* Nothing, seeks, closes at the same time, failing opens and reads, leaks,
\* failing closes.
MCFaultSets == {{}, {"seek"}, {"closes"}, {"open", "read"}, {"sync"}, {"leak"},
                {"destroy"}}

=============================================================================
