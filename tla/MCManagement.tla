---------------------------- MODULE MCManagement ----------------------------
(***************************************************************************)
(* Small instances of Management for TLC.                                  *)
(***************************************************************************)
EXTENDS Management, TLC

\* escapeName drops special characters and capitals.
MCEscaped ==
    LET c == CHOOSE d \in Cases : TRUE
    IN  [t \in Typed |-> IF t = "Beta" THEN CHOOSE d \in Cases : d # c ELSE c]

MCFaultSets  == {{"database"}, {"concurrent"}, {"crash"}}
MCNoFaults   == {{}}

\* Every case has a path that users type, so cases are interchangeable too.
MCSymmetry ==
    Permutations(Names) \cup Permutations(Numbers) \cup Permutations(Cases)

=============================================================================
