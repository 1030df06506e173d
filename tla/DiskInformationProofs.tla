----------------------- MODULE DiskInformationProofs -----------------------
(***************************************************************************)
(* Theorems about DiskInformation, for every set of clients, disks,        *)
(* prepared computers and faults.                                          *)
(*                                                                         *)
(* A behaviour of DiskInformation is one of ClientRegistration, so what is *)
(* proved of registration holds here.  The types hold for any number of    *)
(* threads; what is said of machines for one request at a time             *)
(* (OneAtATime), or for any number if no computer is prepared              *)
(* (NothingPrepared); that no report is lost half way if nothing fails     *)
(* (NothingFails).                                                         *)
(***************************************************************************)
EXTENDS DiskInformation, ClientRegistrationProofs

-----------------------------------------------------------------------------
(* Reports leave registration alone. *)

\* The disks of a report are disks that some client has.
LEMMA ReportedDisks ==
    \A c \in Clients : \A disks \in Reported \cap ((SUBSET Disks[c]) \ {{}}) :
        disks \in (SUBSET Luns) \ {{}}
BY DEF Luns

LEMMA ReportStepsKeepRegistration ==
    ASSUME NEW r \in Requests,
           \/ \E c \in Clients : Reject(r, c)
           \/ \E c \in Clients, disks \in SUBSET Luns : Accept(r, c, disks)
           \/ ReportStep(r)
    PROVE  UNCHANGED <<vars, holder, assigned>>
  BY DEF Reject, Accept, ReportStep, Test, Open, Write, WriteFails, allVars, reporting

LEMMA NextIsNext == [ReportNext]_allVars => [Next]_vars
<1> SUFFICES ASSUME [ReportNext]_allVars PROVE [Next]_vars
  OBVIOUS
<1>1. CASE UNCHANGED allVars
  BY <1>1 DEF allVars
<1>2. ASSUME NEW r \in Requests, Registration(r) PROVE Next
  BY <1>2 DEF Registration, Next
<1>3. CASE Restart
  BY <1>3 DEF Restart, Next
<1> QED
  BY <1>1, <1>2, <1>3, ReportStepsKeepRegistration, ReportedDisks
     DEF ReportNext

LEMMA ReportSpecIsSpec == ReportSpec => Spec
<1>1. ReportInit => Init
  BY DEF ReportInit
<1> QED
  BY <1>1, NextIsNext, PTL DEF ReportSpec, Spec

-----------------------------------------------------------------------------
(* Types. *)

LEMMA InitReports == ReportInit => ReportTypeOK
  BY DEF ReportInit, ReportTypeOK, Reports

LEMMA OnWithTypes ==
    ASSUME ReportTypeOK, NEW r \in Requests, report[r] # NoReport,
           NEW disks \in SUBSET Luns, OnWith(r, disks)
    PROVE  report' \in [Requests -> Reports]
<1>1. report \in [Requests -> Reports]
  BY DEF ReportTypeOK
<1>2. CASE disks = {}
  BY <1>1, <1>2 DEF OnWith, Reports
<1>3. CASE disks # {}
  <2>1. [report[r] EXCEPT !.at = "test", !.todo = disks, !.disk = None] \in Reports
    BY <1>1, <1>3 DEF Reports
  <2> QED
    BY <1>1, <1>3, <2>1 DEF OnWith
<1> QED
  BY <1>2, <1>3

LEMMA AtIsReport ==
    ASSUME ReportTypeOK, NEW r \in Requests, report[r].at \in {"test", "open", "print"}
    PROVE  /\ report[r] # NoReport /\ report[r] \in Reports
           /\ report[r].client \in Clients /\ report[r].computer \in Computers
           /\ report[r].todo \in SUBSET Luns
           /\ report[r].at \in {"open", "print"} => report[r].disk \in Luns
<1>1. report[r] \in Reports
  BY DEF ReportTypeOK
<1>2. report[r] # NoReport
  BY DEF NoReport
<1> QED
  BY <1>1, <1>2 DEF Reports

LEMMA BecomesTypes ==
    ASSUME ReportTypeOK, NEW r \in Requests, report[r].at \in {"open", "print"},
           NEW whole \in BOOLEAN, Becomes(r, whole)
    PROVE  information' \in [Computers -> [Luns -> Information \cup {None}]]
<1>1. HardwareId[report[r].client] \in Hardware
  BY AtIsReport, Facts
<1>2. [machine |-> HardwareId[report[r].client], whole |-> whole] \in Information
  BY <1>1 DEF Information
<1> QED
  BY <1>2 DEF Becomes, ReportTypeOK

LEMMA ReportTypesStep ==
    ASSUME ReportTypeOK, NEW r \in Requests, ReportStep(r)
    PROVE  ReportTypeOK'
<1>1. holder' = holder /\ assigned' = assigned
  BY ReportStepsKeepRegistration
<1>2. ASSUME information' \in [Computers -> [Luns -> Information \cup {None}]],
             report' \in [Requests -> Reports]
      PROVE  ReportTypeOK'
  BY <1>1, <1>2 DEF ReportTypeOK
<1>3. information \in [Computers -> [Luns -> Information \cup {None}]]
  BY DEF ReportTypeOK
<1>4. ASSUME NEW d \in Luns, Test(r, d) PROVE ReportTypeOK'
  <2>1. /\ report[r] # NoReport /\ report[r] \in Reports /\ report[r].at = "test"
        /\ report[r].todo \in SUBSET Luns
    BY <1>4, AtIsReport DEF Test
  <2>2. [report[r] EXCEPT !.at = "open", !.disk = d] \in Reports
    BY <2>1 DEF Reports
  <2>3. report' \in [Requests -> Reports]
    <3>1. CASE OnWith(r, report[r].todo \ {d})
      <4>1. report[r].todo \ {d} \in SUBSET Luns
        BY <2>1
      <4> QED
        BY <2>1, <3>1, <4>1, OnWithTypes
    <3>2. CASE report' = [report EXCEPT ![r].at = "open", ![r].disk = d]
      <4>1. report \in [Requests -> Reports]
        BY DEF ReportTypeOK
      <4>2. report' = [report EXCEPT ![r] = [report[r] EXCEPT !.at = "open", !.disk = d]]
        BY <3>2, <4>1
      <4> QED
        BY <2>2, <4>1, <4>2
    <3> QED
      BY <1>4, <3>1, <3>2 DEF Test
  <2> QED
    BY <1>2, <1>3, <1>4, <2>3 DEF Test
<1>5. CASE Open(r)
  <2>1. report[r] \in Reports /\ report[r].at = "open"
    BY <1>5, AtIsReport DEF Open
  <2>2. [report[r] EXCEPT !.at = "print"] \in Reports
    <3>1. report[r] \in [at : {"open", "print"}, client : Clients,
                         computer : Computers, todo : (SUBSET Luns) \ {{}},
                         disk : Luns]
      BY <2>1 DEF Reports, NoReport
    <3>2. [report[r] EXCEPT !.at = "print"] \in
              [at : {"open", "print"}, client : Clients, computer : Computers,
               todo : (SUBSET Luns) \ {{}}, disk : Luns]
      BY <3>1
    <3> QED
      BY <3>2 DEF Reports
  <2>3. report \in [Requests -> Reports]
    BY DEF ReportTypeOK
  <2>4. report' = [report EXCEPT ![r] = [report[r] EXCEPT !.at = "print"]]
    BY <1>5, <2>3 DEF Open
  <2> QED
    BY <1>2, <1>5, <2>1, <2>2, <2>3, <2>4, BecomesTypes DEF Open
<1>6. CASE Write(r) \/ WriteFails(r)
  <2>1. report[r].at \in {"open", "print"}
    BY <1>6 DEF Write, WriteFails
  <2>2. report[r].todo \ {report[r].disk} \in SUBSET Luns /\ report[r] # NoReport
    BY <2>1, AtIsReport
  <2>3. report' \in [Requests -> Reports]
    BY <1>6, <2>2, OnWithTypes DEF Write, WriteFails
  <2>4. information' \in [Computers -> [Luns -> Information \cup {None}]]
    BY <1>3, <1>6, <2>1, BecomesTypes DEF Write, WriteFails
  <2> QED
    BY <1>2, <2>3, <2>4
<1> QED
  BY <1>4, <1>5, <1>6 DEF ReportStep

LEMMA ReportTypesNext ==
    Types /\ Types' /\ ReportTypeOK /\ [ReportNext]_allVars => ReportTypeOK'
<1> SUFFICES ASSUME Types, Types', ReportTypeOK, [ReportNext]_allVars
             PROVE  ReportTypeOK'
  OBVIOUS
<1>1. CASE UNCHANGED allVars
  BY <1>1 DEF allVars, reporting, ReportTypeOK
<1>2. ASSUME NEW r \in Requests, Registration(r) PROVE ReportTypeOK'
  <2>1. pc'[r] = "discover" => computer'[r] \in Computers
    BY DEF Types, Equipped
  <2> QED
    BY <1>2, <2>1 DEF Registration, ReportTypeOK
<1>3. ASSUME NEW r \in Requests, NEW c \in Clients, Reject(r, c) PROVE ReportTypeOK'
  BY <1>3 DEF Reject, allVars, reporting, ReportTypeOK
<1>4. ASSUME NEW r \in Requests, NEW c \in Clients,
             NEW disks \in (SUBSET Luns) \ {{}}, Accept(r, c, disks)
      PROVE  ReportTypeOK'
  <2>1. assigned[c] \in Computers
    BY <1>4 DEF Accept, ReportTypeOK
  <2> QED
    BY <1>4, <2>1 DEF Accept, ReportTypeOK, Reports
<1>5. CASE Restart
  BY <1>5 DEF Restart, ReportTypeOK, Reports
<1> QED
  BY <1>1, <1>2, <1>3, <1>4, <1>5, ReportTypesStep, ReportedDisks
     DEF ReportNext

(***************************************************************************)
(* However many threads handle requests, a report that is under way is one *)
(* of a client for a computer that a registration found or created, and no *)
(* report works on nothing.                                                *)
(***************************************************************************)
THEOREM ReportTypesCorrect == ReportSpec => []ReportTypeOK
<1>1. ReportInit => ReportTypeOK
  BY InitReports
<1>2. Types /\ Types' /\ ReportTypeOK /\ [ReportNext]_allVars => ReportTypeOK'
  BY ReportTypesNext
<1> QED
  BY <1>1, <1>2, AlwaysTypes, ReportSpecIsSpec, PTL DEF ReportSpec

-----------------------------------------------------------------------------
(* One machine in a folder. *)

\* A machine of which something goes to a computer's folder, or will.
Marked(k, h) ==
    \/ h \in evidence[k]
    \/ \E c \in Clients : assigned[c] # None /\ assigned[c] = k /\ HardwareId[c] = h
    \/ \E d \in Luns : information[k][d] # None /\ information[k][d].machine = h
    \/ \E r \in Requests : /\ report[r] # NoReport /\ report[r].computer = k
                           /\ HardwareId[report[r].client] = h

\* Its folder exists, and the entry in it, and any that is about to be
\* written, is the machine's.
Owned(k, h) ==
    /\ k \in folders
    /\ entry[k] = Unreadable \/ entry[k].hardwareId = h
    /\ \A r \in Requests : pc[r] \in Working /\ computer[r] = k =>
          object[r].hardwareId = h

Marks ==
    \A k \in Computers, h \in Hardware : Marked(k, h) =>
        Owned(k, h) /\ \A g \in Hardware : Marked(k, g) => g = h

LEMMA InitMarks == ReportInit => Marks
  BY DEF ReportInit, Init, Marks, Marked

\* A step that marks nothing new.
LEMMA NothingMarked ==
    ASSUME Marks,
           \A k \in Computers, h \in Hardware :
               /\ Marked(k, h)' => Marked(k, h)
               /\ Marked(k, h) => Owned(k, h)'
    PROVE  Marks'
  BY DEF Marks

LEMMA ReportMarks ==
    ASSUME Marks, UNCHANGED vars,
           \A k \in Computers, h \in Hardware : Marked(k, h)' => Marked(k, h)
    PROVE  Marks'
<1>1. \A k \in Computers, h \in Hardware : Owned(k, h) => Owned(k, h)'
  BY DEF Owned, vars, database, locals
<1>2. \A k \in Computers, h \in Hardware : Marked(k, h) => Owned(k, h)
  BY DEF Marks
<1> QED
  BY <1>1, <1>2, NothingMarked

LEMMA AcceptMarks ==
    ASSUME ReportTypeOK, Marks, NEW r \in Requests, NEW c \in Clients,
           NEW disks \in SUBSET Luns, Accept(r, c, disks)
    PROVE  Marks'
<1>1. /\ UNCHANGED <<vars, holder, assigned, information>>
      /\ assigned[c] # None
      /\ report' = [report EXCEPT ![r] =
             [at |-> "test", client |-> c, computer |-> assigned[c],
              todo |-> disks, disk |-> None]]
  BY DEF Accept
<1>2. /\ report'[r].client = c /\ report'[r].computer = assigned[c]
      /\ \A q \in Requests \ {r} : report'[q] = report[q]
  BY <1>1 DEF ReportTypeOK
<1>3. ASSUME NEW k \in Computers, NEW h \in Hardware, Marked(k, h)'
      PROVE  Marked(k, h)
  <2>1. CASE \E q \in Requests : /\ report'[q] # NoReport /\ report'[q].computer = k
                                 /\ HardwareId[report'[q].client] = h
    BY <1>1, <1>2, <2>1 DEF Marked
  <2>2. CASE ~\E q \in Requests : /\ report'[q] # NoReport /\ report'[q].computer = k
                                  /\ HardwareId[report'[q].client] = h
    BY <1>1, <1>3, <2>2 DEF Marked, vars, database
  <2> QED
    BY <2>1, <2>2
<1> QED
  BY <1>1, <1>3, ReportMarks

\* A report goes on for the computer and the client it has, or ends.
LEMMA SameReports ==
    ASSUME ReportTypeOK, NEW r \in Requests, ReportStep(r)
    PROVE  \A q \in Requests :
               \/ report'[q] = NoReport
               \/ /\ report[q] # NoReport
                  /\ report'[q].computer = report[q].computer
                  /\ report'[q].client = report[q].client
<1>1. report \in [Requests -> Reports]
  BY DEF ReportTypeOK
<1>2. report[r].at \in {"test", "open", "print"}
  BY DEF ReportStep, Test, Open, Write, WriteFails
<1>3. report[r] # NoReport /\ report[r] \in Reports
  BY <1>2, AtIsReport
<1>4. \/ \E disks : OnWith(r, disks)
      \/ \E d : report' = [report EXCEPT ![r].at = "open", ![r].disk = d]
      \/ report' = [report EXCEPT ![r].at = "print"]
  BY DEF ReportStep, Test, Open, Write, WriteFails
<1>5. \A q \in Requests \ {r} : report'[q] = report[q]
  BY <1>1, <1>4 DEF OnWith
<1>6. \/ report'[r] = NoReport
      \/ /\ report'[r].computer = report[r].computer
         /\ report'[r].client = report[r].client
  <2>1. ASSUME NEW disks, OnWith(r, disks)
        PROVE  \/ report'[r] = NoReport
               \/ report'[r] = [report[r] EXCEPT !.at = "test", !.todo = disks,
                                                 !.disk = None]
    BY <1>1, <2>1 DEF OnWith
  <2>2. ASSUME NEW d, report' = [report EXCEPT ![r].at = "open", ![r].disk = d]
        PROVE  report'[r] = [report[r] EXCEPT !.at = "open", !.disk = d]
    BY <1>1, <2>2
  <2>3. ASSUME report' = [report EXCEPT ![r].at = "print"]
        PROVE  report'[r] = [report[r] EXCEPT !.at = "print"]
    BY <1>1, <2>3
  <2> QED
    BY <1>3, <1>4, <2>1, <2>2, <2>3 DEF Reports
<1> QED
  BY <1>3, <1>5, <1>6

LEMMA ReportStepMarks ==
    ASSUME ReportTypeOK, Marks, NEW r \in Requests, ReportStep(r)
    PROVE  Marks'
<1>1. UNCHANGED <<vars, holder, assigned>>
  BY ReportStepsKeepRegistration
<1>2. \/ information' = information
      \/ /\ report[r].at \in {"open", "print"}
         /\ \E whole \in BOOLEAN : Becomes(r, whole)
  BY DEF ReportStep, Test, Open, Write, WriteFails
<1>3. ASSUME NEW k \in Computers, NEW d \in Luns, information'[k][d] # information[k][d]
      PROVE  /\ report[r] # NoReport /\ report[r].computer = k
             /\ information'[k][d].machine = HardwareId[report[r].client]
  <2>1. /\ report[r].at \in {"open", "print"}
        /\ \E whole \in BOOLEAN : Becomes(r, whole)
    BY <1>2, <1>3
  <2>2. /\ report[r] # NoReport /\ report[r].computer \in Computers
        /\ report[r].disk \in Luns
    BY <2>1, AtIsReport
  <2>3. information \in [Computers -> [Luns -> Information \cup {None}]]
    BY DEF ReportTypeOK
  <2>4. PICK whole \in BOOLEAN :
            information' = [information EXCEPT ![report[r].computer][report[r].disk] =
                [machine |-> HardwareId[report[r].client], whole |-> whole]]
    BY <2>1 DEF Becomes
  <2>5. report[r].computer = k /\ report[r].disk = d
    BY <1>3, <2>2, <2>3, <2>4
  <2> QED
    BY <2>2, <2>3, <2>4, <2>5
<1>4. ASSUME NEW k \in Computers, NEW h \in Hardware, Marked(k, h)'
      PROVE  Marked(k, h)
  <2>1. CASE \/ h \in evidence'[k]
             \/ \E c \in Clients :
                    assigned'[c] # None /\ assigned'[c] = k /\ HardwareId[c] = h
    BY <1>1, <2>1 DEF Marked, vars, database
  <2>2. ASSUME NEW d \in Luns, information'[k][d] # None, information'[k][d].machine = h
        PROVE  Marked(k, h)
    <3>1. CASE information'[k][d] = information[k][d]
      BY <2>2, <3>1 DEF Marked
    <3>2. CASE information'[k][d] # information[k][d]
      BY <1>3, <2>2, <3>2 DEF Marked
    <3> QED
      BY <3>1, <3>2
  <2>3. ASSUME NEW q \in Requests, report'[q] # NoReport, report'[q].computer = k,
               HardwareId[report'[q].client] = h
        PROVE  Marked(k, h)
    BY <2>3, SameReports DEF Marked
  <2> QED
    BY <1>4, <2>1, <2>2, <2>3 DEF Marked
<1> QED
  BY <1>1, <1>4, ReportMarks

-----------------------------------------------------------------------------
(* Registrations, one at a time. *)

\* What an action of a registration does to the marks: what was marked stays
\* owned, and the one machine that may be marked is the client's.
Fresh(r, k, h) ==
    /\ Owned(k, h)'
    /\ \A g \in Hardware : Marked(k, g) => g = h

LEMMA RegistrationMarks ==
    ASSUME Marks, NEW r \in Requests,
           \A k \in Computers, h \in Hardware :
               /\ Marked(k, h) => Owned(k, h)'
               /\ Marked(k, h)' => Marked(k, h) \/ Fresh(r, k, h),
           \A k \in Computers, g, h \in Hardware :
               Marked(k, g)' /\ ~Marked(k, g) /\ Marked(k, h)' /\ ~Marked(k, h) => g = h
    PROVE  Marks'
<1> SUFFICES ASSUME NEW k \in Computers, NEW h \in Hardware, Marked(k, h)'
             PROVE  Owned(k, h)' /\ \A g \in Hardware : Marked(k, g)' => g = h
  BY DEF Marks
<1>1. Owned(k, h)'
  BY DEF Fresh
<1>2. ASSUME NEW g \in Hardware, Marked(k, g)' PROVE g = h
  BY <1>2 DEF Fresh, Marks
<1> QED
  BY <1>1, <1>2

\* The one request acts; what it has afterwards is of the machine or nothing.
LEMMA StaysOwned ==
    ASSUME OneAtATime, NEW r \in Requests, NEW k \in Computers, NEW h \in Hardware,
           k \in folders', entry'[k] = Unreadable \/ entry'[k].hardwareId = h,
           pc'[r] \in Working /\ computer'[r] = k => object'[r].hardwareId = h
    PROVE  Owned(k, h)'
  BY DEF OneAtATime, Owned

\* An action that marks nothing, and leaves the entries as they are.
LEMMA QuietMarks ==
    ASSUME OneAtATime, Marks, NEW r \in Requests,
           UNCHANGED <<entry, evidence, assigned, information, report>>,
           folders \subseteq folders',
           \A k \in Computers, h \in Hardware :
               Marked(k, h) /\ pc'[r] \in Working /\ computer'[r] = k =>
                   object'[r].hardwareId = h
    PROVE  Marks'
<1>1. \A k \in Computers, h \in Hardware : Marked(k, h)' => Marked(k, h)
  BY DEF Marked
<1>2. ASSUME NEW k \in Computers, NEW h \in Hardware, Marked(k, h)
      PROVE  Owned(k, h)'
  <2>1. k \in folders' /\ (entry'[k] = Unreadable \/ entry'[k].hardwareId = h)
    BY <1>2 DEF Marks, Owned
  <2> QED
    BY <1>2, <2>1, StaysOwned
<1> QED
  BY <1>1, <1>2, NothingMarked

LEMMA PlainMarks ==
    ASSUME OneAtATime, Types, Alone, Marks, NEW r \in Requests, Registration(r),
           \/ \E c \in Clients : Register(r, c)
           \/ \E k \in Prepared, id \in Ids : Prepare(r, k, id)
           \/ Remember(r) \/ CheckDuplicate(r) \/ DatabaseFails(r) \/ Discover(r)
           \/ DiscoverFails(r) \/ (\E d \in Luns : NextDisk(r, d))
           \/ LookUp(r) \/ PutList(r) \/ AddFileUnseen(r)
    PROVE  Marks'
<1>1. UNCHANGED <<folders, entry, evidence>>
  BY DEF Register, Prepare, Remember, CheckDuplicate, DatabaseFails, Discover,
         DiscoverFails, NextDisk, LookUp, PutList, AddFileUnseen, database
<1>2. /\ pc \in [Requests -> Labels] /\ object \in [Requests -> Entries]
  BY DEF Types, Base
<1>3. \/ pc'[r] \in {"idle", "remember", "find", "check", "create"}
      \/ /\ pc[r] \in Working /\ pc'[r] \in Working \ {"discover"}
         /\ computer' = computer
         /\ object'[r].hardwareId = object[r].hardwareId
  <2>1. CASE Return(r)
    BY <2>1 DEF Return, End
  <2>2. CASE \/ \E c \in Clients : Register(r, c)
             \/ \E k \in Prepared, id \in Ids : Prepare(r, k, id)
    BY <1>2, <2>2 DEF Register, Prepare, Goto
  <2>3. CASE Remember(r) \/ CheckDuplicate(r)
    BY <1>2, <2>1, <2>3 DEF Remember, CheckDuplicate, Goto
  <2>4. CASE Discover(r) \/ LookUp(r) \/ PutList(r)
    BY <1>2, <2>4 DEF Discover, LookUp, PutList, Goto, Working
  <2>5. ASSUME NEW d \in Luns, NextDisk(r, d)
        PROVE  /\ pc[r] \in Working /\ pc'[r] \in Working \ {"discover"}
               /\ computer' = computer
               /\ object'[r].hardwareId = object[r].hardwareId
    BY <1>2, <2>5 DEF NextDisk, Goto, Working, Entries
  <2>6. CASE AddFileUnseen(r)
    BY <1>2, <2>1, <2>6 DEF AddFileUnseen, Added, Goto, Working
  <2> QED
    BY <2>1, <2>2, <2>3, <2>4, <2>5, <2>6 DEF DatabaseFails, DiscoverFails
<1>4. UNCHANGED <<assigned, information, report>>
  BY <1>3 DEF Registration
<1>5. ASSUME NEW k \in Computers, NEW h \in Hardware, Marked(k, h),
             pc'[r] \in Working, computer'[r] = k
      PROVE  object'[r].hardwareId = h
  <2>1. Owned(k, h)
    BY <1>5 DEF Marks
  <2> QED
    BY <1>3, <1>5, <2>1 DEF Owned, Working
<1> QED
  BY <1>1, <1>4, <1>5, QuietMarks

\* A prepared computer holds nothing of a machine yet.
LEMMA FindPreparedMarks ==
    ASSUME OneAtATime, Types, Alone, Marks, NEW r \in Requests, Registration(r),
           FindPrepared(r)
    PROVE  Marks'
<1>1. /\ pc[r] = "findPrepared" /\ pc'[r] \in {"check", "truncate"}
      /\ UNCHANGED <<folders, entry, evidence>>
  BY DEF FindPrepared, Goto, database, Types, Base
<1>2. UNCHANGED <<assigned, information, report>>
  BY <1>1 DEF Registration
<1>3. ASSUME NEW k \in Computers, NEW h \in Hardware, Marked(k, h),
             pc'[r] \in Working, computer'[r] = k
      PROVE  FALSE
  <2>1. pc'[r] = "truncate"
    BY <1>1, <1>3 DEF Working
  <2>2. k \in Matches(ClientId[client[r]], NoHardware)
    BY <1>1, <1>3, <2>1 DEF FindPrepared, Goto, Types, Base
  <2>3. entry[k] # Unreadable /\ entry[k].hardwareId = NoHardware
    BY <2>2, MatchIs
  <2> QED
    BY <1>3, <2>3, RegistrationAssumption DEF Marks, Owned
<1> QED
  BY <1>1, <1>2, <1>3, QuietMarks

LEMMA MakeDirectoryMarks ==
    ASSUME OneAtATime, Types, Alone, Marks, NEW r \in Requests, Registration(r),
           MakeDirectory(r)
    PROVE  Marks'
<1>1. /\ pc[r] = "create" /\ pc'[r] = "truncate" /\ computer' = computer
      /\ UNCHANGED <<entry, evidence>> /\ folders \subseteq folders'
  BY DEF MakeDirectory, Goto, locals, Types, Base
<1>2. UNCHANGED <<assigned, information, report>>
  BY <1>1 DEF Registration
<1>3. computer[r] \notin folders
  BY <1>1 DEF Alone, OwnFolder
<1> QED
  BY <1>1, <1>2, <1>3, QuietMarks DEF Marks, Owned

LEMMA TruncateMarks ==
    ASSUME OneAtATime, Types, Marks, NEW r \in Requests, Registration(r), Truncate(r)
    PROVE  Marks'
<1>1. /\ pc[r] = "truncate" /\ pc'[r] = "write"
      /\ UNCHANGED <<folders, evidence, computer, object>>
      /\ entry' = [entry EXCEPT ![computer[r]] = Unreadable]
  BY DEF Truncate, Goto, locals, Types, Base
<1>2. UNCHANGED <<assigned, information, report>>
  BY <1>1 DEF Registration
<1>3. \A k \in Computers, h \in Hardware : Marked(k, h)' => Marked(k, h)
  BY <1>1, <1>2 DEF Marked
<1>4. ASSUME NEW k \in Computers, NEW h \in Hardware, Marked(k, h)
      PROVE  Owned(k, h)'
  <2>1. Owned(k, h)
    BY <1>4 DEF Marks
  <2>2. entry'[k] = Unreadable \/ entry'[k].hardwareId = h
    <3>1. entry'[k] = Unreadable \/ entry'[k] = entry[k]
      BY <1>1 DEF Types, Base
    <3> QED
      BY <2>1, <3>1 DEF Owned
  <2> QED
    BY <1>1, <2>1, <2>2, StaysOwned DEF Owned, Working
<1> QED
  BY <1>3, <1>4, NothingMarked

\* A computer with a client's entry becomes the one its object has.
LEMMA AssignMarks ==
    ASSUME OneAtATime, Marks, NEW r \in Requests,
           UNCHANGED <<folders, evidence, information, report>>,
           pc'[r] \in Labels, client[r] \in Clients,
           computer'[r] \in Computers,
           \/ assigned' = assigned
           \/ assigned' = [assigned EXCEPT ![client[r]] = computer'[r]],
           assigned' # assigned =>
               /\ computer'[r] \in folders
               /\ entry'[computer'[r]].hardwareId = HardwareId[client[r]],
           object'[r].hardwareId = HardwareId[client[r]],
           \A h \in Hardware :
               Marked(computer'[r], h) => h = HardwareId[client[r]],
           \A k \in Computers, h \in Hardware :
               Marked(k, h) => entry'[k] = Unreadable \/ entry'[k].hardwareId = h,
           assigned \in [Clients -> Computers \cup {None}]
    PROVE  Marks'
<1>1. ASSUME NEW k \in Computers, NEW h \in Hardware, Marked(k, h)
      PROVE  Owned(k, h)'
  <2>1. k \in folders'
    BY <1>1 DEF Marks, Owned
  <2>2. computer'[r] = k => object'[r].hardwareId = h
    BY <1>1
  <2> QED
    BY <1>1, <2>1, <2>2, StaysOwned
<1>2. ASSUME NEW k \in Computers, NEW h \in Hardware, Marked(k, h)', ~Marked(k, h)
      PROVE  /\ assigned' # assigned
             /\ k = computer'[r] /\ h = HardwareId[client[r]]
  <2>1. PICK c \in Clients : /\ assigned'[c] # None /\ assigned'[c] = k
                             /\ HardwareId[c] = h
    BY <1>2 DEF Marked
  <2>2. assigned'[c] # assigned[c]
    BY <1>2, <2>1 DEF Marked
  <2> QED
    BY <2>1, <2>2
<1>3. ASSUME NEW k \in Computers, NEW h \in Hardware, Marked(k, h)', ~Marked(k, h)
      PROVE  Fresh(r, k, h)
  <2>1. k = computer'[r] /\ h = HardwareId[client[r]] /\ assigned' # assigned
    BY <1>2, <1>3
  <2>2. Owned(k, h)'
    BY <2>1, StaysOwned
  <2> QED
    BY <2>1, <2>2 DEF Fresh
<1>4. \A k \in Computers, g, h \in Hardware :
          Marked(k, g)' /\ ~Marked(k, g) /\ Marked(k, h)' /\ ~Marked(k, h) => g = h
  BY <1>2
<1> QED
  BY <1>1, <1>3, <1>4, RegistrationMarks

LEMMA FindMachineMarks ==
    ASSUME OneAtATime, Types, Alone, ReportTypeOK, Marks, NEW r \in Requests,
           Registration(r), FindMachine(r)
    PROVE  Marks'
<1>1. /\ pc[r] = "find" /\ client[r] \in Clients /\ client' = client
      /\ UNCHANGED <<folders, entry, evidence, information, report>>
      /\ pc \in [Requests -> Labels]
  BY DEF FindMachine, Registration, database, Types, Base, Equipped
<1>2. \A k \in Computers, h \in Hardware : Marked(k, h) =>
          entry'[k] = Unreadable \/ entry'[k].hardwareId = h
  BY <1>1 DEF Marks, Owned
<1>3. CASE pc'[r] = "findPrepared"
  <2>1. assigned' = assigned
    BY <1>3 DEF Registration
  <2> QED
    BY <1>1, <1>3, <2>1, QuietMarks DEF Working
<1>4. ASSUME NEW k \in Matches(ClientId[client[r]], HardwareId[client[r]]),
             Goto(r, "find", "discover"),
             computer' = [computer EXCEPT ![r] = k],
             object' = [object EXCEPT ![r] = entry[k]]
      PROVE  Marks'
  <2>1. /\ k \in Computers /\ entry[k] \in Entries /\ entry[k] # Unreadable
        /\ entry[k].hardwareId = HardwareId[client[r]]
    BY <1>4, MatchIs
  <2>2. /\ computer'[r] = k /\ object'[r] = entry[k] /\ pc'[r] = "discover"
    BY <1>1, <1>4 DEF Goto, Types, Base
  <2>3. \A h \in Hardware : Marked(k, h) => h = HardwareId[client[r]]
    BY <1>2, <1>1, <2>1
  <2>4. /\ pc'[r] \in Labels
        /\ \/ assigned' = assigned
           \/ assigned' = [assigned EXCEPT ![client[r]] = computer'[r]]
        /\ assigned \in [Clients -> Computers \cup {None}]
    BY <2>2 DEF Labels, Registration, ReportTypeOK
  <2>5. k \in folders
    BY <2>1 DEF Alone, Agree
  <2> QED
    BY <1>1, <1>2, <2>1, <2>2, <2>3, <2>4, <2>5, AssignMarks
<1> QED
  BY <1>1, <1>3, <1>4 DEF FindMachine, Goto

LEMMA WriteEntryMarks ==
    ASSUME OneAtATime, Types, Alone, ReportTypeOK, Marks, NEW r \in Requests,
           Registration(r), WriteEntry(r)
    PROVE  Marks'
<1>1. /\ pc[r] = "write" /\ computer[r] \in Computers
      /\ UNCHANGED <<folders, evidence, information, report>>
      /\ entry' = [entry EXCEPT ![computer[r]] = object[r]]
      /\ entry \in [Computers -> Entries \cup {Unreadable}]
  BY DEF WriteEntry, Registration, Types, Base, Equipped
<1>2. /\ computer[r] \in folders
      /\ IF client[r] = None THEN object[r].hardwareId = NoHardware
         ELSE object[r].hardwareId = HardwareId[client[r]]
  BY <1>1 DEF Alone, OwnObject, OwnFolder, Working
<1>3. ASSUME NEW k \in Computers, NEW h \in Hardware, Marked(k, h)
      PROVE  /\ entry'[k] = Unreadable \/ entry'[k].hardwareId = h
             /\ k = computer[r] => object[r].hardwareId = h
  <2>1. Owned(k, h)
    BY <1>3 DEF Marks
  <2>2. k = computer[r] => object[r].hardwareId = h
    BY <1>1, <2>1 DEF Owned, Working
  <2>3. CASE k = computer[r]
    BY <1>1, <2>2, <2>3
  <2>4. CASE k # computer[r]
    <3>1. entry'[k] = entry[k]
      BY <1>1, <2>4
    <3> QED
      BY <2>1, <3>1, <2>4 DEF Owned
  <2> QED
    BY <2>3, <2>4, <2>2
<1>4. CASE Return(r)
  <2>1. pc'[r] = "idle"
    BY <1>4 DEF Return, End
  <2>2. assigned' = assigned
    BY <2>1 DEF Registration
  <2>3. \A k \in Computers, h \in Hardware : Marked(k, h)' => Marked(k, h)
    BY <1>1, <2>2 DEF Marked
  <2>4. ASSUME NEW k \in Computers, NEW h \in Hardware, Marked(k, h)
        PROVE  Owned(k, h)'
    <3>1. k \in folders'
      BY <1>1, <2>4 DEF Marks, Owned
    <3> QED
      BY <1>3, <2>1, <2>4, <3>1, StaysOwned DEF Working
  <2> QED
    BY <2>3, <2>4, NothingMarked
<1>5. CASE /\ client[r] # None /\ UNCHANGED locals
           /\ Goto(r, "write", IF disk[r] = None THEN "discover" ELSE "lookup")
  <2>1. /\ client[r] \in Clients /\ UNCHANGED <<client, computer, object>>
        /\ pc'[r] \in {"discover", "lookup"}
    BY <1>5 DEF Goto, locals, Types, Base
  <2>2. object[r].hardwareId = HardwareId[client[r]]
    BY <1>2, <1>5
  <2>3. entry'[computer[r]] = object[r]
    BY <1>1
  <2>4. \A h \in Hardware : Marked(computer[r], h) => h = HardwareId[client[r]]
    BY <1>1, <1>3, <2>2
  <2>5. /\ pc'[r] \in Labels
        /\ \/ assigned' = assigned
           \/ assigned' = [assigned EXCEPT ![client[r]] = computer'[r]]
        /\ assigned \in [Clients -> Computers \cup {None}]
    BY <2>1 DEF Labels, Registration, ReportTypeOK
  <2> QED
    BY <1>1, <1>2, <1>3, <2>1, <2>2, <2>3, <2>4, <2>5, AssignMarks
<1> QED
  BY <1>4, <1>5 DEF WriteEntry

\* The file that is published is of the client whose entry was written.
LEMMA AddFileMarks ==
    ASSUME OneAtATime, Types, Alone, Marks, NEW r \in Requests, Registration(r),
           AddFile(r)
    PROVE  Marks'
<1>1. /\ pc[r] = "add" /\ computer[r] \in Computers /\ client[r] \in Clients
      /\ client[r] # None /\ evidence \in [Computers -> SUBSET Hardware]
      /\ UNCHANGED <<folders, entry>>
      /\ evidence' = [evidence EXCEPT ![computer[r]] = @ \cup {HardwareId[client[r]]}]
  BY RegistrationAssumption DEF AddFile, Publish, Types, Base, Equipped
<1>2. /\ object[r].hardwareId = HardwareId[client[r]]
      /\ computer[r] \in folders /\ entry[computer[r]] = object[r]
  BY <1>1 DEF Alone, OwnObject, OwnFolder, Working
<1>3. UNCHANGED <<assigned, information, report>>
  BY <1>1 DEF Registration
<1>4. \/ pc'[r] = "idle"
      \/ pc'[r] = "disk" /\ computer' = computer /\ object' = object
  BY DEF AddFile, Added, Return, End, Goto, Types, Base
<1>5. ASSUME NEW k \in Computers, NEW h \in Hardware, Marked(k, h)
      PROVE  Owned(k, h)'
  <2>1. Owned(k, h)
    BY <1>5 DEF Marks
  <2>2. pc'[r] \in Working /\ computer'[r] = k => object'[r].hardwareId = h
    BY <1>1, <1>4, <2>1 DEF Owned, Working
  <2> QED
    BY <1>1, <2>1, <2>2, StaysOwned DEF Owned
<1>6. ASSUME NEW k \in Computers, NEW h \in Hardware, Marked(k, h)', ~Marked(k, h)
      PROVE  k = computer[r] /\ h = HardwareId[client[r]]
  <2>1. h \in evidence'[k] /\ h \notin evidence[k]
    BY <1>3, <1>6 DEF Marked
  <2> QED
    BY <1>1, <2>1
<1>7. ASSUME NEW k \in Computers, NEW h \in Hardware, Marked(k, h)', ~Marked(k, h)
      PROVE  Fresh(r, k, h)
  <2>1. k = computer[r] /\ h = HardwareId[client[r]]
    BY <1>6, <1>7
  <2>2. Owned(k, h)'
    BY <1>1, <1>2, <1>4, <2>1, StaysOwned DEF Working
  <2>3. ASSUME NEW g \in Hardware, Marked(k, g) PROVE g = h
    <3>1. Owned(k, g)
      BY <2>3 DEF Marks
    <3> QED
      BY <1>1, <1>2, <2>1, <3>1 DEF Owned, Working
  <2> QED
    BY <2>2, <2>3 DEF Fresh
<1>8. \A k \in Computers, g, h \in Hardware :
          Marked(k, g)' /\ ~Marked(k, g) /\ Marked(k, h)' /\ ~Marked(k, h) => g = h
  BY <1>6
<1> QED
  BY <1>5, <1>7, <1>8, RegistrationMarks

LEMMA RestartMarks == Types /\ Marks /\ Restart => Marks'
<1> SUFFICES ASSUME Types, Marks, Restart PROVE Marks'
  OBVIOUS
<1>1. /\ UNCHANGED <<folders, entry, evidence, information>>
      /\ \A c \in Clients : assigned'[c] = None
      /\ \A r \in Requests : report'[r] = NoReport /\ pc'[r] = "idle"
  BY DEF Restart, Crash, End, database
<1>2. \A k \in Computers, h \in Hardware : Marked(k, h)' => Marked(k, h)
  BY <1>1 DEF Marked
<1>3. \A k \in Computers, h \in Hardware : Owned(k, h) => Owned(k, h)'
  BY <1>1 DEF Owned, Working
<1> QED
  BY <1>2, <1>3, NothingMarked DEF Marks

LEMMA NextMarks ==
    OneAtATime /\ Types /\ Alone /\ ReportTypeOK /\ Marks /\ [ReportNext]_allVars
        => Marks'
<1> SUFFICES ASSUME OneAtATime, Types, Alone, ReportTypeOK, Marks, [ReportNext]_allVars
             PROVE  Marks'
  OBVIOUS
<1>1. CASE UNCHANGED allVars
  BY <1>1 DEF allVars, reporting, vars, database, locals, Marks, Marked, Owned
<1>2. ASSUME NEW r \in Requests, Registration(r) PROVE Marks'
  <2>1. Request(r)
    BY <1>2 DEF Registration
  <2>2. ASSUME NEW c \in Clients, Ignore(r, c) PROVE Marks'
    <3>1. UNCHANGED vars
      BY <2>2 DEF Ignore
    <3>2. UNCHANGED <<assigned, information, report>>
      BY <1>2, <2>2 DEF Registration, Ignore, vars
    <3> QED
      BY <3>1, <3>2, ReportMarks DEF Marked, vars, database
  <2> QED
    BY <1>2, <2>1, <2>2, PlainMarks, FindPreparedMarks, FindMachineMarks,
       MakeDirectoryMarks, TruncateMarks, WriteEntryMarks, AddFileMarks, NoRace
       DEF Request, Step
<1>3. ASSUME NEW r \in Requests, NEW c \in Clients, Reject(r, c) PROVE Marks'
  BY <1>1, <1>3 DEF Reject
<1> QED
  BY <1>1, <1>2, <1>3, AcceptMarks, ReportStepMarks, RestartMarks, ReportedDisks
     DEF ReportNext

\* What holds of every state when requests are handled one at a time.
ReportInv == Types /\ Alone /\ ReportTypeOK /\ Marks

LEMMA AlwaysReportInv == OneAtATime => (ReportSpec => []ReportInv)
<1> SUFFICES ASSUME OneAtATime PROVE ReportSpec => []ReportInv
  OBVIOUS
<1>1. ReportInit => Marks
  BY InitMarks
<1>2. Types /\ Alone /\ ReportTypeOK /\ Marks /\ [ReportNext]_allVars => Marks'
  BY NextMarks
<1>3. Spec => [](Types /\ Alone)
  BY AlwaysAlone
<1> QED
  BY <1>1, <1>2, <1>3, ReportSpecIsSpec, ReportTypesCorrect, PTL
     DEF ReportSpec, ReportInv

(***************************************************************************)
(* When requests are handled one at a time, evidence and information in a  *)
(* folder are of one machine, whatever fails, restarts and was prepared.   *)
(***************************************************************************)
THEOREM OneMachineTold == OneAtATime => (ReportSpec => []FolderOfOneMachine)
<1> SUFFICES ASSUME OneAtATime PROVE ReportSpec => []FolderOfOneMachine
  OBVIOUS
<1>1. ASSUME ReportInv PROVE FolderOfOneMachine
  <2> SUFFICES ASSUME NEW k \in Computers
               PROVE  Cardinality(evidence[k] \cup MachinesInformed(k)) <= 1
    BY DEF FolderOfOneMachine
  <2>1. ASSUME NEW h \in evidence[k] \cup MachinesInformed(k)
        PROVE  h \in Hardware /\ Marked(k, h)
    <3>1. CASE h \in evidence[k]
      BY <1>1, <3>1 DEF ReportInv, Types, Base, Marked
    <3>2. CASE h \in MachinesInformed(k)
      <4>1. PICK d \in Luns : information[k][d] # None /\ information[k][d].machine = h
        BY <3>2 DEF MachinesInformed
      <4>2. information[k][d] \in Information
        BY <1>1, <4>1 DEF ReportInv, ReportTypeOK
      <4> QED
        BY <4>1, <4>2 DEF Information, Marked
    <3> QED
      BY <3>1, <3>2
  <2>2. \A g, h \in evidence[k] \cup MachinesInformed(k) : g = h
    BY <1>1, <2>1 DEF ReportInv, Marks
  <2> QED
    BY <2>2, AtMostOne
<1> QED
  BY <1>1, AlwaysReportInv, PTL

(***************************************************************************)
(* When requests are handled one at a time, the computer that a client in  *)
(* the list remembers is never one whose entry on disk is of another       *)
(* machine.                                                                *)
(***************************************************************************)
THEOREM OwnComputer == OneAtATime => (ReportSpec => []RememberedComputerIsOwn)
<1> SUFFICES ASSUME OneAtATime PROVE ReportSpec => []RememberedComputerIsOwn
  OBVIOUS
<1>1. ASSUME ReportInv PROVE RememberedComputerIsOwn
  <2> SUFFICES ASSUME NEW c \in Clients, assigned[c] # None
               PROVE  \/ entry[assigned[c]] = Unreadable
                      \/ entry[assigned[c]].hardwareId = HardwareId[c]
    BY DEF RememberedComputerIsOwn
  <2>1. assigned[c] \in Computers /\ HardwareId[c] \in Hardware
    BY <1>1, Facts DEF ReportInv, ReportTypeOK
  <2>2. Marked(assigned[c], HardwareId[c])
    BY DEF Marked
  <2> QED
    BY <1>1, <2>1, <2>2 DEF ReportInv, Marks, Owned
<1> QED
  BY <1>1, AlwaysReportInv, PTL

-----------------------------------------------------------------------------
(* What was told stays. *)

\* The file that a report is about to write is not there, or was just opened.
Unwritten ==
    \A r \in Requests :
        LET there == information[report[r].computer][report[r].disk]
        IN  /\ report[r].at = "open" => there = None
            /\ report[r].at = "print" => there # None /\ ~there.whole

Told ==
    \A k \in Computers, d \in Luns :
        information[k][d] # None /\ information[k][d].whole =>
            information'[k][d] = information[k][d]

LEMMA ReportStepTells ==
    ASSUME OneAtATime, ReportTypeOK, Unwritten, NEW r \in Requests, ReportStep(r)
    PROVE  Unwritten' /\ Told
<1>1. /\ report \in [Requests -> Reports]
      /\ information \in [Computers -> [Luns -> Information \cup {None}]]
  BY DEF ReportTypeOK
<1>2. report[r].at \in {"test", "open", "print"}
  BY DEF ReportStep, Test, Open, Write, WriteFails
<1>3. /\ report[r] # NoReport /\ report[r] \in Reports
      /\ report[r].computer \in Computers
      /\ report[r].at \in {"open", "print"} => report[r].disk \in Luns
  BY <1>2, AtIsReport
<1>4. ASSUME NEW disks, OnWith(r, disks) PROVE report'[r].at \in {"idle", "test"}
  <2>1. CASE disks = {}
    BY <1>1, <1>4, <2>1 DEF OnWith, NoReport
  <2>2. CASE disks # {}
    <3>1. report'[r] = [report[r] EXCEPT !.at = "test", !.todo = disks, !.disk = None]
      BY <1>1, <1>4, <2>2 DEF OnWith
    <3> QED
      BY <1>3, <3>1 DEF Reports
  <2> QED
    BY <2>1, <2>2
<1>5. (report'[r].at \in {"idle", "test"}) => Unwritten'
  BY DEF OneAtATime, Unwritten
<1>6. ASSUME NEW d \in Luns, Test(r, d) PROVE Unwritten' /\ Told
  <2>1. information' = information
    BY <1>6 DEF Test
  <2>2. CASE report' = [report EXCEPT ![r].at = "open", ![r].disk = d]
             /\ information[report[r].computer][d] = None
    <3>1. report'[r] = [report[r] EXCEPT !.at = "open", !.disk = d]
      BY <1>1, <2>2
    <3>2. /\ report'[r].at = "open" /\ report'[r].disk = d
          /\ report'[r].computer = report[r].computer
      BY <1>3, <3>1 DEF Reports
    <3> QED
      BY <2>1, <2>2, <3>2 DEF OneAtATime, Unwritten, Told
  <2> QED
    BY <1>4, <1>5, <1>6, <2>1, <2>2 DEF Test, Told
<1>7. CASE Open(r)
  <2>1. /\ report[r].at = "open" /\ Becomes(r, FALSE)
        /\ report' = [report EXCEPT ![r].at = "print"]
    BY <1>7 DEF Open
  <2>2. information[report[r].computer][report[r].disk] = None
    BY <2>1 DEF Unwritten
  <2>3. Told
    BY <1>1, <1>3, <2>1, <2>2 DEF Becomes, Told
  <2>4. report'[r] = [report[r] EXCEPT !.at = "print"]
    BY <1>1, <2>1
  <2>5. /\ report'[r].at = "print" /\ report'[r].disk = report[r].disk
        /\ report'[r].computer = report[r].computer
    BY <1>3, <2>4 DEF Reports
  <2>6. information'[report[r].computer][report[r].disk] =
            [machine |-> HardwareId[report[r].client], whole |-> FALSE]
    BY <1>1, <1>3, <2>1 DEF Becomes
  <2>7. [machine |-> HardwareId[report[r].client], whole |-> FALSE] # None
    <3>1. HardwareId[report[r].client] \in Hardware
      BY <1>2, AtIsReport, Facts
    <3>2. [machine |-> HardwareId[report[r].client], whole |-> FALSE] \in Information
      BY <3>1 DEF Information
    <3> QED
      BY <3>2, InformationAssumption
  <2>8. Unwritten'
    BY <2>5, <2>6, <2>7 DEF OneAtATime, Unwritten
  <2> QED
    BY <2>3, <2>8
<1>8. CASE Write(r)
  <2>1. /\ report[r].at = "print" /\ Becomes(r, TRUE)
        /\ OnWith(r, report[r].todo \ {report[r].disk})
    BY <1>8 DEF Write
  <2>2. ~information[report[r].computer][report[r].disk].whole
    BY <2>1 DEF Unwritten
  <2>3. Told
    BY <1>1, <1>3, <2>1, <2>2 DEF Becomes, Told
  <2> QED
    BY <1>4, <1>5, <2>1, <2>3
<1>9. CASE WriteFails(r)
  BY <1>4, <1>5, <1>9 DEF WriteFails, Told
<1> QED
  BY <1>6, <1>7, <1>8, <1>9 DEF ReportStep

LEMMA NextTells ==
    OneAtATime /\ ReportInv /\ Unwritten /\ [ReportNext]_allVars => Unwritten' /\ Told
<1> SUFFICES ASSUME OneAtATime, ReportInv, Unwritten, [ReportNext]_allVars
             PROVE  Unwritten' /\ Told
  OBVIOUS
<1>1. ASSUME UNCHANGED <<information, report>> PROVE Unwritten' /\ Told
  BY <1>1 DEF Unwritten, Told
<1>2. ASSUME NEW r \in Requests, NEW c \in Clients, NEW disks \in SUBSET Luns,
             Accept(r, c, disks)
      PROVE  Unwritten' /\ Told
  <2>1. report'[r].at = "test" /\ information' = information
    BY <1>2 DEF Accept, ReportInv, ReportTypeOK
  <2> QED
    BY <2>1 DEF OneAtATime, Unwritten, Told
<1>3. CASE Restart
  <2>1. /\ information' = information
        /\ \A r \in Requests : report'[r].at = "idle"
    BY <1>3 DEF Restart, NoReport
  <2> QED
    BY <2>1 DEF Unwritten, Told
<1>4. ASSUME NEW r \in Requests, ReportStep(r) PROVE Unwritten' /\ Told
  BY <1>4, ReportStepTells DEF ReportInv
<1> QED
  BY <1>1, <1>2, <1>3, <1>4, ReportedDisks
     DEF ReportNext, Registration, Reject, allVars, reporting

(***************************************************************************)
(* When requests are handled one at a time, a file about a disk that was   *)
(* written whole stays as it is, whoever reports again and whatever fails  *)
(* or restarts.                                                            *)
(***************************************************************************)
THEOREM ToldStays == OneAtATime => (ReportSpec => FirstInformationStays)
<1> SUFFICES ASSUME OneAtATime PROVE ReportSpec => FirstInformationStays
  OBVIOUS
<1>1. ReportInit => Unwritten
  BY DEF ReportInit, Unwritten, NoReport
<1>2. ReportInv /\ Unwritten /\ [ReportNext]_allVars => Unwritten'
  BY NextTells
<1>3. ReportInv /\ Unwritten /\ [ReportNext]_allVars =>
        [\A k \in Computers, d \in Luns :
            information[k][d] # None /\ information[k][d].whole =>
                information'[k][d] = information[k][d]]_allVars
  BY NextTells DEF Told
<1> QED
  BY <1>1, <1>2, <1>3, AlwaysReportInv, PTL DEF ReportSpec, FirstInformationStays


-----------------------------------------------------------------------------
(***************************************************************************)
(* Nothing prepared, on any number of threads: what the list of clients    *)
(* remembers, what reports work on and what was told about disks belong to *)
(* the machine that the computer is named by.                              *)
(***************************************************************************)
RemembersOwn ==
    \A c \in Clients : assigned[c] # None => assigned[c] = Automatic(c)

ReportsOwn ==
    \A r \in Requests : report[r] # NoReport =>
        report[r].computer = Automatic(report[r].client)

InformationApart ==
    \A k \in Computers, d \in Luns :
        information[k][d] # None => k[2] = information[k][d].machine

ToldApart == RemembersOwn /\ ReportsOwn /\ InformationApart

LEMMA InitToldApart == ReportInit => ToldApart
  BY DEF ReportInit, ToldApart, RemembersOwn, ReportsOwn, InformationApart

LEMMA RegistrationToldApart ==
    ASSUME Types, Types', Apart', ReportTypeOK, ToldApart,
           NEW r \in Requests, Registration(r)
    PROVE  ToldApart'
<1>1. ReportsOwn' /\ InformationApart'
  BY DEF Registration, ToldApart, ReportsOwn, InformationApart
<1>2. CASE assigned' = assigned
  BY <1>1, <1>2 DEF ToldApart, RemembersOwn
<1>3. CASE /\ pc[r] \in {"find", "write"} /\ pc'[r] = "discover"
           /\ assigned' = [assigned EXCEPT ![client[r]] = computer'[r]]
  <2>1. client'[r] = client[r]
    BY <1>3 DEF Registration, Request, Step, Register, Ignore, Prepare, Remember,
       FindMachine, FindPrepared, CheckDuplicate, MakeDirectory, Truncate,
       WriteEntry, DatabaseFails, Discover, DiscoverFails, NextDisk, LookUp,
       PutList, AddFile, PutListLoses, AddFileLoses, AddFileUnseen, Goto, Return,
       End, vars, locals
  <2>2. client[r] \in Clients /\ computer'[r] = Automatic(client[r])
    BY <1>3, <2>1 DEF Apart, WorksOnOwn, Working
  <2>3. assigned \in [Clients -> Computers \cup {None}]
    BY DEF ReportTypeOK
  <2> QED
    BY <1>1, <1>3, <2>2, <2>3 DEF ToldApart, RemembersOwn
<1> QED
  BY <1>2, <1>3 DEF Registration

\* On with the same client and computer.
LEMMA OnWithOwn ==
    ASSUME ReportTypeOK, ReportsOwn, NEW r \in Requests,
           report[r] # NoReport, NEW disks, OnWith(r, disks)
    PROVE  ReportsOwn'
<1>1. report \in [Requests -> Reports] /\ report[r] \in Reports
  BY DEF ReportTypeOK
<1>2. CASE disks = {}
  BY <1>1, <1>2 DEF OnWith, ReportsOwn
<1>3. CASE disks # {}
  <2>1. /\ report'[r].client = report[r].client
        /\ report'[r].computer = report[r].computer
        /\ \A q \in Requests \ {r} : report'[q] = report[q]
    BY <1>1, <1>3 DEF OnWith, Reports, NoReport
  <2> QED
    BY <2>1 DEF ReportsOwn
<1> QED
  BY <1>2, <1>3

LEMMA BecomesApart ==
    ASSUME ReportTypeOK, ToldApart, NEW r \in Requests,
           report[r].at \in {"open", "print"}, NEW whole \in BOOLEAN,
           Becomes(r, whole)
    PROVE  InformationApart'
<1>1. /\ report[r].computer \in Computers /\ report[r].disk \in Luns
      /\ report[r].computer[2] = HardwareId[report[r].client]
  BY AtIsReport DEF ToldApart, ReportsOwn, Automatic
<1>2. information \in [Computers -> [Luns -> Information \cup {None}]]
  BY DEF ReportTypeOK
<1>3. ASSUME NEW k \in Computers, NEW d \in Luns
      PROVE  information'[k][d] =
                IF k = report[r].computer /\ d = report[r].disk
                THEN [machine |-> HardwareId[report[r].client], whole |-> whole]
                ELSE information[k][d]
  BY <1>1, <1>2 DEF Becomes
<1> QED
  BY <1>1, <1>3 DEF ToldApart, InformationApart

LEMMA ReportStepToldApart ==
    ASSUME ReportTypeOK, ToldApart, NEW r \in Requests, ReportStep(r)
    PROVE  ToldApart'
<1>1. RemembersOwn'
  BY ReportStepsKeepRegistration DEF ToldApart, RemembersOwn
<1>2. report[r] # NoReport /\ report[r] \in Reports
  BY AtIsReport DEF ReportStep, Test, Open, Write, WriteFails
<1>3. ASSUME information' = information PROVE InformationApart'
  BY <1>3 DEF ToldApart, InformationApart
<1>4. ASSUME NEW d \in Luns, Test(r, d) PROVE ToldApart'
  <2>1. CASE OnWith(r, report[r].todo \ {d})
    BY <1>1, <1>2, <1>3, <1>4, <2>1, OnWithOwn DEF Test, ToldApart
  <2>2. CASE report' = [report EXCEPT ![r].at = "open", ![r].disk = d]
    <3>1. /\ report'[r].client = report[r].client
          /\ report'[r].computer = report[r].computer
          /\ \A q \in Requests \ {r} : report'[q] = report[q]
      BY <1>2, <2>2 DEF ReportTypeOK, Reports, NoReport
    <3> QED
      BY <1>1, <1>2, <1>3, <1>4, <3>1 DEF Test, ToldApart, ReportsOwn
  <2> QED
    BY <1>4, <2>1, <2>2 DEF Test
<1>5. CASE Open(r)
  <2>1. /\ report'[r].client = report[r].client
        /\ report'[r].computer = report[r].computer
        /\ \A q \in Requests \ {r} : report'[q] = report[q]
    BY <1>2, <1>5 DEF Open, ReportTypeOK, Reports, NoReport
  <2>2. ReportsOwn'
    BY <1>2, <2>1 DEF ToldApart, ReportsOwn
  <2> QED
    BY <1>1, <1>5, <2>2, BecomesApart DEF Open, ToldApart
<1>6. CASE Write(r)
  BY <1>1, <1>2, <1>6, OnWithOwn, BecomesApart DEF Write, ToldApart
<1>7. CASE WriteFails(r)
  BY <1>1, <1>2, <1>3, <1>7, OnWithOwn DEF WriteFails, ToldApart
<1> QED
  BY <1>4, <1>5, <1>6, <1>7 DEF ReportStep

LEMMA NextToldApart ==
    ASSUME Types, Types', Apart', ReportTypeOK, ToldApart,
           [ReportNext]_allVars
    PROVE  ToldApart'
<1>1. CASE UNCHANGED allVars
  BY <1>1 DEF allVars, reporting, ToldApart, RemembersOwn, ReportsOwn,
     InformationApart
<1>2. ASSUME NEW r \in Requests, NEW c \in Clients, Reject(r, c)
      PROVE  UNCHANGED allVars
  BY <1>2 DEF Reject
<1>3. ASSUME NEW r \in Requests, NEW c \in Clients,
             NEW disks \in (SUBSET Luns) \ {{}}, Accept(r, c, disks)
      PROVE  ToldApart'
  BY <1>3 DEF Accept, ReportTypeOK, ToldApart, RemembersOwn, ReportsOwn,
     InformationApart
<1>4. CASE Restart
  BY <1>4 DEF Restart, ToldApart, RemembersOwn, ReportsOwn, InformationApart
<1> QED
  BY <1>1, <1>2, <1>3, <1>4, RegistrationToldApart, ReportStepToldApart,
     ReportedDisks DEF ReportNext

ApartInv == Types /\ Apart /\ ReportTypeOK /\ ToldApart

LEMMA AlwaysApartInv == NothingPrepared => (ReportSpec => []ApartInv)
<1> SUFFICES ASSUME NothingPrepared PROVE ReportSpec => []ApartInv
  OBVIOUS
<1>1. ReportInit => ToldApart
  BY InitToldApart
<1>2. Types /\ Types' /\ Apart' /\ ReportTypeOK /\ ToldApart
        /\ [ReportNext]_allVars => ToldApart'
  BY NextToldApart
<1>3. Spec => [](Types /\ Apart)
  BY AlwaysApart
<1> QED
  BY <1>1, <1>2, <1>3, ReportSpecIsSpec, ReportTypesCorrect, PTL
     DEF ReportSpec, ApartInv

(***************************************************************************)
(* When no computers are prepared, evidence and information in a folder    *)
(* are of one machine, on any number of threads, whatever fails and over   *)
(* restarts.                                                               *)
(***************************************************************************)
THEOREM FoldersApart == NothingPrepared => (ReportSpec => []FolderOfOneMachine)
<1> SUFFICES ASSUME NothingPrepared PROVE ReportSpec => []FolderOfOneMachine
  OBVIOUS
<1>1. ASSUME ApartInv PROVE FolderOfOneMachine
  <2> SUFFICES ASSUME NEW k \in Computers
               PROVE  Cardinality(evidence[k] \cup MachinesInformed(k)) <= 1
    BY DEF FolderOfOneMachine
  <2>1. \A h \in evidence[k] \cup MachinesInformed(k) : k[2] = h
    BY <1>1 DEF ApartInv, Apart, EvidenceApart, ToldApart, InformationApart,
       MachinesInformed
  <2> QED
    BY <2>1, AtMostOne
<1> QED
  BY <1>1, AlwaysApartInv, PTL

(***************************************************************************)
(* When no computers are prepared, the computer that a client in the list  *)
(* remembers is its own, on any number of threads.                         *)
(***************************************************************************)
THEOREM ComputersApart ==
    NothingPrepared => (ReportSpec => []RememberedComputerIsOwn)
<1> SUFFICES ASSUME NothingPrepared PROVE ReportSpec => []RememberedComputerIsOwn
  OBVIOUS
<1>1. ASSUME ApartInv PROVE RememberedComputerIsOwn
  <2> SUFFICES ASSUME NEW c \in Clients, assigned[c] # None,
                      entry[assigned[c]] # Unreadable
               PROVE  entry[assigned[c]].hardwareId = HardwareId[c]
    BY DEF RememberedComputerIsOwn
  <2>1. assigned[c] \in Computers /\ assigned[c] = Automatic(c)
    BY <1>1 DEF ApartInv, ReportTypeOK, ToldApart, RemembersOwn
  <2> QED
    BY <1>1, <2>1 DEF ApartInv, Apart, EntriesApart, Automatic
<1> QED
  BY <1>1, AlwaysApartInv, PTL


-----------------------------------------------------------------------------
(***************************************************************************)
(* Files that are cut off, on any number of threads.                       *)
(***************************************************************************)
NothingFails == {"database", "crash"} \cap Faults = {}

\* Report r is writing this file.
Writes(r, k, d) ==
    report[r].at = "print" /\ report[r].computer = k /\ report[r].disk = d

LEMMA OnWithOthers ==
    ASSUME NEW r \in Requests, NEW disks, OnWith(r, disks)
    PROVE  \A q \in Requests \ {r} :
               \A k, d : Writes(q, k, d) => Writes(q, k, d)'
  BY DEF OnWith, Writes

LEMMA BecomesIs ==
    ASSUME ReportTypeOK, NEW r \in Requests, NEW whole \in BOOLEAN,
           Becomes(r, whole), report[r].at \in {"open", "print"},
           NEW k \in Computers, NEW d \in Luns
    PROVE  IF k = report[r].computer /\ d = report[r].disk
           THEN information'[k][d].whole = whole
           ELSE information'[k][d] = information[k][d]
<1>1. report[r].computer \in Computers /\ report[r].disk \in Luns
  BY AtIsReport
<1> QED
  BY <1>1 DEF Becomes, ReportTypeOK

LEMMA NextCutOff ==
    ASSUME NothingFails, ReportTypeOK, CutOffIsBeingWritten,
           [ReportNext]_allVars
    PROVE  CutOffIsBeingWritten'
<1> DEFINE CutOff(k, d) ==
        information[k][d] # None /\ ~ information[k][d].whole
<1>0. ASSUME NEW k \in Computers, NEW d \in Luns, CutOff(k, d)
      PROVE  \E q \in Requests : Writes(q, k, d)
  BY <1>0 DEF CutOffIsBeingWritten, Writes
<1>1. ASSUME \A k \in Computers, d \in Luns :
                CutOff(k, d)' => \E q \in Requests : Writes(q, k, d)'
      PROVE  CutOffIsBeingWritten'
  BY <1>1 DEF CutOffIsBeingWritten, Writes
<1>2. ASSUME information' = information,
             \A q \in Requests : \A k, d : Writes(q, k, d) => Writes(q, k, d)'
      PROVE  CutOffIsBeingWritten'
  BY <1>0, <1>1, <1>2
<1>3. CASE UNCHANGED <<information, report>>
  BY <1>2, <1>3 DEF Writes
<1>4. ASSUME NEW r \in Requests, NEW c \in Clients,
             NEW disks \in (SUBSET Luns) \ {{}}, Accept(r, c, disks)
      PROVE  CutOffIsBeingWritten'
  <2>1. \A q \in Requests : \A k, d : Writes(q, k, d) => Writes(q, k, d)'
    BY <1>4 DEF Accept, Writes, NoReport
  <2> QED
    BY <1>2, <1>4, <2>1 DEF Accept
<1>5. ASSUME NEW r \in Requests, NEW d \in Luns, Test(r, d)
      PROVE  CutOffIsBeingWritten'
  <2>1. \A q \in Requests \ {r} : \A k, e : Writes(q, k, e) => Writes(q, k, e)'
    <3>1. CASE OnWith(r, report[r].todo \ {d})
      BY <3>1, OnWithOthers
    <3>2. CASE report' = [report EXCEPT ![r].at = "open", ![r].disk = d]
      <4>1. \A q \in Requests \ {r} : report'[q] = report[q]
        BY <3>2 DEF ReportTypeOK
      <4> QED
        BY <4>1 DEF Writes
    <3> QED
      BY <1>5, <3>1, <3>2 DEF Test
  <2>2. \A k, e : ~ Writes(r, k, e)
    BY <1>5 DEF Test, Writes
  <2> QED
    BY <1>2, <1>5, <2>1, <2>2 DEF Test
<1>6. ASSUME NEW r \in Requests, Open(r)
      PROVE  CutOffIsBeingWritten'
  <2>1. /\ report'[r].at = "print"
        /\ report'[r].computer = report[r].computer
        /\ report'[r].disk = report[r].disk
        /\ \A q \in Requests \ {r} : report'[q] = report[q]
    <3>1. report[r] \in Reports /\ report[r].at = "open"
      BY <1>6, AtIsReport DEF Open
    <3>2. report[r] \in [at : {"open", "print"}, client : Clients,
                         computer : Computers, todo : (SUBSET Luns) \ {{}},
                         disk : Luns]
      BY <3>1 DEF Reports, NoReport
    <3> QED
      BY <1>6, <3>2 DEF Open, ReportTypeOK
  <2>2. ASSUME NEW k \in Computers, NEW d \in Luns, CutOff(k, d)'
        PROVE  \E q \in Requests : Writes(q, k, d)'
    <3>1. CASE k = report[r].computer /\ d = report[r].disk
      BY <2>1, <3>1 DEF Writes
    <3>2. CASE ~ (k = report[r].computer /\ d = report[r].disk)
      <4>1. information'[k][d] = information[k][d]
        BY <1>6, <3>2, BecomesIs DEF Open
      <4>2. PICK q \in Requests : Writes(q, k, d)
        BY <1>0, <2>2, <4>1
      <4>3. q # r
        BY <3>2, <4>2 DEF Writes
      <4> QED
        BY <2>1, <4>2, <4>3 DEF Writes
    <3> QED
      BY <3>1, <3>2
  <2> HIDE DEF CutOff
  <2> QED
    BY <1>1, <2>2
<1>7. ASSUME NEW r \in Requests, Write(r)
      PROVE  CutOffIsBeingWritten'
  <2>1. ASSUME NEW k \in Computers, NEW d \in Luns, CutOff(k, d)'
        PROVE  \E q \in Requests : Writes(q, k, d)'
    <3>1. ~ (k = report[r].computer /\ d = report[r].disk)
      BY <1>7, <2>1, BecomesIs DEF Write
    <3>2. information'[k][d] = information[k][d]
      BY <1>7, <3>1, BecomesIs DEF Write
    <3>3. PICK q \in Requests : Writes(q, k, d)
      BY <1>0, <2>1, <3>2
    <3>4. q # r
      BY <3>1, <3>3 DEF Writes
    <3> QED
      BY <1>7, <3>3, <3>4, OnWithOthers DEF Write
  <2> HIDE DEF CutOff
  <2> QED
    BY <1>1, <2>1
<1>8. ASSUME NEW r \in Requests, WriteFails(r) PROVE FALSE
  BY <1>8 DEF WriteFails, NothingFails
<1>9. CASE Restart
  BY <1>9 DEF Restart, Crash, NothingFails
<1> QED
  BY <1>3, <1>4, <1>5, <1>6, <1>7, <1>8, <1>9, ReportedDisks
     DEF ReportNext, ReportStep, Registration, Reject, allVars, reporting

(***************************************************************************)
(* As long as no write fails and the server does not stop, a file about a  *)
(* disk that is cut off is one that a report is writing, however many      *)
(* threads write the same files.                                           *)
(***************************************************************************)
THEOREM CutOffIsUnderWay ==
    NothingFails => (ReportSpec => []CutOffIsBeingWritten)
<1> SUFFICES ASSUME NothingFails PROVE ReportSpec => []CutOffIsBeingWritten
  OBVIOUS
<1>1. ReportInit => CutOffIsBeingWritten
  BY DEF ReportInit, CutOffIsBeingWritten
<1>2. ReportTypeOK /\ CutOffIsBeingWritten /\ [ReportNext]_allVars
        => CutOffIsBeingWritten'
  BY NextCutOff
<1> QED
  BY <1>1, <1>2, ReportTypesCorrect, PTL DEF ReportSpec

=============================================================================
