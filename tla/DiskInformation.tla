-------------------------- MODULE DiskInformation --------------------------
(***************************************************************************)
(* What a registered client tells about its disks                          *)
(* (RaqetControl.diskInformation, for a request of AcquisitionClientApi).  *)
(*                                                                         *)
(* A report is accepted for a client in the list.  Where it is stored says *)
(* the client's own object in that list: the computer that its             *)
(* registration found, claimed or created, as it remembers it.  For each   *)
(* disk a file in the computer's folder is written if there is none.  The  *)
(* threads are those of ClientRegistration, and take no lock here either;  *)
(* a restart forgets the list and keeps the files.                         *)
(***************************************************************************)
EXTENDS ClientRegistration

CONSTANT Reported   \* bound: the lists of LUNs that reports hold

VARIABLES
    holder,       \* thread whose object of a client is the first in the list
    assigned,     \* the computer in that object, if it was set
    information,  \* file about each disk in each computer's folder
    report        \* the report each thread handles

reporting == <<holder, assigned, information, report>>
allVars   == <<vars, reporting>>

\* A file says which machine it is about; it may be cut off.
Information == [machine : Hardware, whole : BOOLEAN]

ASSUME InformationAssumption == None \notin Information

NoReport == [at |-> "idle", client |-> None, computer |-> None, todo |-> {},
             disk |-> None]

Reports ==
    {NoReport}
      \cup [at : {"test"}, client : Clients, computer : Computers,
            todo : (SUBSET Luns) \ {{}}, disk : {None}]
      \cup [at : {"open", "print"}, client : Clients, computer : Computers,
            todo : (SUBSET Luns) \ {{}}, disk : Luns]

ReportInit ==
    /\ Init
    /\ holder = [c \in Clients |-> None]
    /\ assigned = [c \in Clients |-> None]
    /\ information = [k \in Computers |-> [d \in Luns |-> None]]
    /\ report = [r \in Requests |-> NoReport]

-----------------------------------------------------------------------------
(* Registrations. *)

\* The client's object enters the list; later, after the computer was found,
\* claimed or created, the object gets it.
RegistrationEarly(r) ==
    /\ report[r] = NoReport
    /\ Request(r)
    /\ holder' = IF clientList' = clientList THEN holder
                 ELSE [holder EXCEPT ![client[r]] = r]
    /\ assigned' = IF /\ pc[r] \in {"find", "findPrepared", "write"}
                      /\ pc'[r] \in {"discover", "truncate"}
                      /\ holder[client[r]] = r
                   THEN [assigned EXCEPT ![client[r]] = computer'[r]]
                   ELSE assigned
    /\ UNCHANGED <<information, report>>
Registration(r) ==
    /\ report[r] = NoReport
    /\ Request(r)
    /\ holder' = IF clientList' = clientList THEN holder
                 ELSE [holder EXCEPT ![client[r]] = r]
    /\ assigned' = IF /\ pc[r] \in {"find", "write"} /\ pc'[r] = "discover"
                      /\ holder[client[r]] = r
                   THEN [assigned EXCEPT ![client[r]] = computer'[r]]
                   ELSE assigned
    /\ UNCHANGED <<information, report>>

-----------------------------------------------------------------------------
(* Reports. *)

\* A client that is not in the list is ignored; one whose object has no
\* computer yet ends in a null pointer, which the request logs.
Reject(r, c) ==
    /\ pc[r] = "idle" /\ report[r] = NoReport
    /\ c \notin clientList \/ assigned[c] = None
    /\ UNCHANGED allVars

AcceptAny(r, c, disks) ==
    /\ pc[r] = "idle" /\ report[r] = NoReport
    /\ c \in clientList
    /\ report' = [report EXCEPT ![r] =
           [at |-> "test", client |-> c, computer |-> assigned[c],
            todo |-> disks, disk |-> None]]
    /\ UNCHANGED <<vars, holder, assigned, information>>

\* The report lists some disks of the client.
Accept(r, c, disks) ==
    /\ pc[r] = "idle" /\ report[r] = NoReport
    /\ c \in clientList
    /\ assigned[c] # None
    /\ report' = [report EXCEPT ![r] =
           [at |-> "test", client |-> c, computer |-> assigned[c],
            todo |-> disks, disk |-> None]]
    /\ UNCHANGED <<vars, holder, assigned, information>>

\* On with the disks that are left.
OnWith(r, disks) ==
    report' = [report EXCEPT ![r] =
        IF disks = {} THEN NoReport
        ELSE [@ EXCEPT !.at = "test", !.todo = disks, !.disk = None]]

\* A file that exists is left alone.
TestNothing(r, d) ==
    /\ report[r].at = "test"
    /\ d \in report[r].todo
    /\ report' = [report EXCEPT ![r].at = "open", ![r].disk = d]
    /\ UNCHANGED <<vars, holder, assigned, information>>
Test(r, d) ==
    /\ report[r].at = "test"
    /\ d \in report[r].todo
    /\ \/ /\ information[report[r].computer][d] # None
          /\ OnWith(r, report[r].todo \ {d})
       \/ /\ information[report[r].computer][d] = None
          /\ report' = [report EXCEPT ![r].at = "open", ![r].disk = d]
    /\ UNCHANGED <<vars, holder, assigned, information>>

\* This thread's file becomes this, on the disk.
Becomes(r, whole) ==
    information' = [information EXCEPT ![report[r].computer][report[r].disk] =
        [machine |-> HardwareId[report[r].client], whole |-> whole]]

\* The PrintWriter creates or empties the file.
Open(r) ==
    /\ report[r].at = "open"
    /\ report' = [report EXCEPT ![r].at = "print"]
    /\ Becomes(r, FALSE)
    /\ UNCHANGED <<vars, holder, assigned>>

WriteAndReturn(r) ==
    /\ report[r].at = "print"
    /\ Becomes(r, TRUE)
    /\ OnWith(r, {})
    /\ UNCHANGED <<vars, holder, assigned>>
WriteUnflushed(r) ==
    /\ report[r].at = "print"
    /\ Becomes(r, FALSE)
    /\ OnWith(r, report[r].todo \ {report[r].disk})
    /\ UNCHANGED <<vars, holder, assigned>>
Write(r) ==
    /\ report[r].at = "print"
    /\ Becomes(r, TRUE)
    /\ OnWith(r, report[r].todo \ {report[r].disk})
    /\ UNCHANGED <<vars, holder, assigned>>

\* Opening or printing fails: it is logged, or not noticed at all.
WriteFails(r) ==
    /\ "database" \in Faults
    /\ report[r].at \in {"open", "print"}
    /\ OnWith(r, report[r].todo \ {report[r].disk})
    /\ UNCHANGED <<vars, holder, assigned, information>>

Restart ==
    /\ Crash
    /\ holder' = [c \in Clients |-> None]
    /\ assigned' = [c \in Clients |-> None]
    /\ report' = [r \in Requests |-> NoReport]
    /\ UNCHANGED information

ReportStep(r) ==
    \/ \E d \in Luns : Test(r, d)
    \/ Open(r)
    \/ Write(r)
    \/ WriteFails(r)

ReportNext ==
    \/ \E r \in Requests :
          \/ Registration(r)
          \/ \E c \in Clients : Reject(r, c)
          \/ \E c \in Clients :
                \E disks \in Reported \cap ((SUBSET Disks[c]) \ {{}}) :
                    Accept(r, c, disks)
          \/ ReportStep(r)
    \/ Restart

ReportSpec == ReportInit /\ [][ReportNext]_allVars

\* Threads run; a discovery returns.
GoesOn(r) == (pc[r] # "idle" /\ Registration(r)) \/ ReportStep(r)

ReportFairSpec == ReportSpec /\ \A r \in Requests : WF_allVars(GoesOn(r))

-----------------------------------------------------------------------------
(* Properties *)

(***************************************************************************)
(* Every variable of this module holds values of its kind; a report that   *)
(* is under way has a client and a computer.                               *)
(***************************************************************************)
ReportTypeOK ==
    /\ holder \in [Clients -> Requests \cup {None}]
    /\ assigned \in [Clients -> Computers \cup {None}]
    /\ information \in [Computers -> [Luns -> Information \cup {None}]]
    /\ report \in [Requests -> Reports]

(***************************************************************************)
(* The evidence files and the information files in a computer's folder are *)
(* of one machine, over restarts: the information goes where the list of   *)
(* clients remembers, the evidence where the entry on disk says, and the   *)
(* names of both hold no machine.                                          *)
(***************************************************************************)
MachinesInformed(k) ==
    {information[k][d].machine : d \in {l \in Luns : information[k][l] # None}}

FolderOfOneMachine ==
    \A k \in Computers : Cardinality(evidence[k] \cup MachinesInformed(k)) <= 1

(***************************************************************************)
(* The computer that a client in the list remembers is not another         *)
(* machine's: its entry on disk, if it can be read, has the client's       *)
(* hardware id, whatever was prepared, claimed or registered since.        *)
(***************************************************************************)
RememberedComputerIsOwn ==
    \A c \in Clients :
        \/ assigned[c] = None
        \/ entry[assigned[c]] = Unreadable
        \/ entry[assigned[c]].hardwareId = HardwareId[c]

(***************************************************************************)
(* As long as nothing fails, a file that is cut off is one that a report   *)
(* is writing: of two reports that find no file, and of which the second   *)
(* empties what the first wrote, each leaves it whole.                     *)
(***************************************************************************)
CutOffIsBeingWritten ==
    \A k \in Computers, d \in Luns :
        \/ information[k][d] = None
        \/ information[k][d].whole
        \/ \E r \in Requests : /\ report[r].at = "print"
                               /\ report[r].computer = k
                               /\ report[r].disk = d

(***************************************************************************)
(* What was first told about a disk stays, over later reports of the same  *)
(* client, registrations and restarts.                                     *)
(***************************************************************************)
FirstInformationStays ==
    [][\A k \in Computers, d \in Luns :
          information[k][d] # None /\ information[k][d].whole =>
              information'[k][d] = information[k][d]]_allVars

(***************************************************************************)
(* A report that was accepted is stored for each of its disks, also when   *)
(* two reports of one client test and write the same files, as long as     *)
(* nothing fails.                                                          *)
(***************************************************************************)
ReportsStored ==
    \A k \in Computers, disks \in Reported :
        (\E r \in Requests : report[r].computer = k /\ report[r].todo = disks) ~>
            \A d \in disks : information[k][d] # None /\ information[k][d].whole

=============================================================================
