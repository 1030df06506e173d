------------------------- MODULE ClientRegistration -------------------------
(***************************************************************************)
(* How a booted client gets its disks published                            *)
(* (org.raqet.http.RaqetControl, database.InvestigationCaseDB and          *)
(* smb.RaqetDiskDriver).                                                   *)
(*                                                                         *)
(* A client registers over HTTP; the server finds the computer it belongs  *)
(* to among the entries on disk, claims one an investigator prepared, or   *)
(* creates one; discovers the client's disks; and publishes each as a file *)
(* in the computer's folder, with its evidence file in the same folder on  *)
(* disk.  The HTTP server handles requests on several threads, and none of *)
(* the code takes a lock: every access of the list of clients, the entries *)
(* and the folders is a step of its own.  An entry is rewritten by         *)
(* truncating its file first.  A restart keeps the files.                  *)
(***************************************************************************)
EXTENDS Naturals, Sequences, FiniteSets, Functions

CONSTANTS
    Requests,     \* threads that handle requests
    Clients,      \* what registers: a client id, a hardware id, an address
    ClientId,     \* client id of each, the one of its boot image
    HardwareId,   \* hardware id of each, the one of its machine
    Disks,        \* LUNs of each
    Prepared,     \* names of computers an investigator may prepare
    NoHardware,   \* the hardware id of a prepared computer
    Unreadable,   \* an entry that is missing or cut off
    None,         \* no client, no disk
    Faults        \* what may go wrong

Automatic(c) == <<ClientId[c], HardwareId[c]>>
Computers == Prepared \cup {Automatic(c) : c \in Clients}
Ids == {ClientId[c] : c \in Clients}
Hardware == {HardwareId[c] : c \in Clients}
Luns == UNION {Disks[c] : c \in Clients}

ASSUME RegistrationAssumption ==
    /\ Clients # {}
    /\ None \notin Clients
    /\ None \notin Luns
    /\ NoHardware \notin Hardware
    /\ Faults \subseteq {"list", "mapping", "database", "crash"}

\* A ComputerDbEntry.
Entries == [clientId : Ids, hardwareId : Hardware \cup {NoHardware},
            disks : SUBSET Luns]

ASSUME EntryAssumption == Unreadable \notin Entries

VARIABLES
    clientList,  \* _clientList
    folders,     \* directories of the case database
    entry,       \* the entry in each directory
    evidence,    \* machines with a disk whose evidence goes to each directory
    lists,       \* every file list made for a folder; the last is in the map
    lost,        \* that map, or a list, has lost something
    pc,          \* where each request is
    client,      \* the client that registers; none if an investigator asks
    computer,    \* the computer the request works on
    object,      \* the request's ComputerDbEntry
    todo,        \* discovered disks not yet published
    disk,        \* the disk being published
    list         \* the list it will be added to

database == <<folders, entry, evidence>>
locals   == <<client, computer, object, todo, disk, list>>
vars     == <<clientList, database, lists, lost, pc, locals>>

NewEntry(id, hardware) ==
    [clientId |-> id, hardwareId |-> hardware, disks |-> {}]

Blank == NewEntry(CHOOSE id \in Ids : TRUE, NoHardware)

\* The files of a folder are named by client id and disk; files of one name
\* are kept in the order they were added, each by the client it belongs to,
\* the second file of a client, which nobody finds, is left out.
NoFiles == [name \in Ids \X Luns |-> <<>>]
Published(k) == IF lists[k] = <<>> THEN NoFiles ELSE lists[k][Len(lists[k])]

\* A path leads to the first file of its name (findPseudoFile).
Found(k, id, d) == LET named == Published(k)[<<id, d>>]
                   IN  IF named = <<>> THEN None ELSE Head(named)

NoLists == [k \in Computers |-> <<>>]

Init ==
    /\ clientList = {}
    /\ folders = {}
    /\ entry = [k \in Computers |-> Unreadable]
    /\ evidence = [k \in Computers |-> {}]
    /\ lists = NoLists
    /\ lost = FALSE
    /\ pc = [r \in Requests |-> "idle"]
    /\ client = [r \in Requests |-> None]
    /\ computer = [r \in Requests |-> None]
    /\ object = [r \in Requests |-> Blank]
    /\ todo = [r \in Requests |-> {}]
    /\ disk = [r \in Requests |-> None]
    /\ list = [r \in Requests |-> 0]

Goto(r, here, there) ==
    /\ pc[r] = here
    /\ pc' = [pc EXCEPT ![r] = there]

\* These requests are over, with or without an exception.
End(over) ==
    LET Reset(local, value) ==
            [r \in Requests |-> IF r \in over THEN value ELSE local[r]]
    IN  /\ pc' = Reset(pc, "idle")
        /\ client' = Reset(client, None)
        /\ computer' = Reset(computer, None)
        /\ object' = Reset(object, Blank)
        /\ todo' = Reset(todo, {})
        /\ disk' = Reset(disk, None)
        /\ list' = Reset(list, 0)

Return(r) == End({r})

-----------------------------------------------------------------------------
(* Finding the computer of a client. *)

\* addClient: a client that is in the list is ignored.
Ignore(r, c) ==
    /\ pc[r] = "idle"
    /\ c \in clientList
    /\ UNCHANGED vars

Register(r, c) ==
    /\ Goto(r, "idle", "remember")
    /\ c \notin clientList
    /\ client' = [client EXCEPT ![r] = c]
    /\ UNCHANGED <<clientList, database, lists, lost, computer, object, todo,
                   disk, list>>

\* The client enters the list; of two adds at the same time to an ArrayList
\* one may be lost, or throw.
Remember(r) ==
    LET racing == \E q \in Requests \ {r} : pc[q] = "remember"
    IN  /\ \/ /\ Goto(r, "remember", "find")
              /\ \/ clientList' = clientList \cup {client[r]}
                 \/ racing /\ UNCHANGED clientList
              /\ UNCHANGED locals
           \/ /\ pc[r] = "remember" /\ racing
              /\ Return(r)
              /\ UNCHANGED clientList
        /\ UNCHANGED <<database, lists, lost>>

\* findClient: the computers whose readable entry has these ids.
MatchesAnyHardware(id, hardware) ==
    {k \in Computers : entry[k] # Unreadable /\ entry[k].clientId = id}
Matches(id, hardware) ==
    {k \in Computers : /\ entry[k] # Unreadable
                       /\ entry[k].clientId = id
                       /\ entry[k].hardwareId = hardware}

\* The computer of this very machine, if there is one.
FindMachineLast(r) ==
    LET matches == IF Matches(ClientId[client[r]], NoHardware) # {} THEN {}
                   ELSE Matches(ClientId[client[r]], HardwareId[client[r]])
    IN  /\ pc[r] = "find"
        /\ \/ /\ matches = {}
              /\ Goto(r, "find", "findPrepared")
              /\ UNCHANGED <<computer, object>>
           \/ \E k \in matches :
                 /\ Goto(r, "find", "discover")
                 /\ computer' = [computer EXCEPT ![r] = k]
                 /\ object' = [object EXCEPT ![r] = entry[k]]
        /\ UNCHANGED <<clientList, database, lists, lost, client, todo, disk,
                       list>>
FindMachine(r) ==
    LET matches == Matches(ClientId[client[r]], HardwareId[client[r]])
    IN  /\ pc[r] = "find"
        /\ \/ /\ matches = {}
              /\ Goto(r, "find", "findPrepared")
              /\ UNCHANGED <<computer, object>>
           \/ \E k \in matches :
                 /\ Goto(r, "find", "discover")
                 /\ computer' = [computer EXCEPT ![r] = k]
                 /\ object' = [object EXCEPT ![r] = entry[k]]
        /\ UNCHANGED <<clientList, database, lists, lost, client, todo, disk,
                       list>>

\* Else a prepared one for this client id, which it claims; else a new one.
FindPreparedUnclaimed(r) ==
    LET c == client[r]
        matches == Matches(ClientId[c], NoHardware)
    IN  /\ pc[r] = "findPrepared"
        /\ \/ /\ matches = {}
              /\ Goto(r, "findPrepared", "check")
              /\ computer' = [computer EXCEPT ![r] = Automatic(c)]
              /\ object' = [object EXCEPT ![r] =
                               NewEntry(ClientId[c], HardwareId[c])]
           \/ \E k \in matches :
                 /\ Goto(r, "findPrepared", "truncate")
                 /\ computer' = [computer EXCEPT ![r] = k]
                 /\ object' = [object EXCEPT ![r] = entry[k]]
        /\ UNCHANGED <<clientList, database, lists, lost, client, todo, disk,
                       list>>
FindPrepared(r) ==
    LET c == client[r]
        matches == Matches(ClientId[c], NoHardware)
    IN  /\ pc[r] = "findPrepared"
        /\ \/ /\ matches = {}
              /\ Goto(r, "findPrepared", "check")
              /\ computer' = [computer EXCEPT ![r] = Automatic(c)]
              /\ object' = [object EXCEPT ![r] =
                               NewEntry(ClientId[c], HardwareId[c])]
           \/ \E k \in matches :
                 /\ Goto(r, "findPrepared", "truncate")
                 /\ computer' = [computer EXCEPT ![r] = k]
                 /\ object' = [object EXCEPT ![r] =
                       [entry[k] EXCEPT !.hardwareId = HardwareId[c]]]
        /\ UNCHANGED <<clientList, database, lists, lost, client, todo, disk,
                       list>>

-----------------------------------------------------------------------------
(* The case database. *)

\* An investigator asks for a new computer.
Prepare(r, k, id) ==
    /\ Goto(r, "idle", "check")
    /\ computer' = [computer EXCEPT ![r] = k]
    /\ object' = [object EXCEPT ![r] = NewEntry(id, NoHardware)]
    /\ UNCHANGED <<clientList, database, lists, lost, client, todo, disk,
                   list>>

\* createComputer: a directory that exists is a duplicate.
CheckDuplicate(r) ==
    /\ pc[r] = "check"
    /\ \/ /\ computer[r] \in folders
          /\ Return(r)
       \/ /\ computer[r] \notin folders
          /\ Goto(r, "check", "create")
          /\ UNCHANGED locals
    /\ UNCHANGED <<clientList, database, lists, lost>>

\* mkdir, whose result nobody looks at.
MakeDirectory(r) ==
    /\ Goto(r, "create", "truncate")
    /\ folders' = folders \cup {computer[r]}
    /\ UNCHANGED <<clientList, entry, evidence, lists, lost, locals>>

\* createComputer and update: the file is opened, and with that emptied.
Truncate(r) ==
    /\ Goto(r, "truncate", "write")
    /\ entry' = [entry EXCEPT ![computer[r]] = Unreadable]
    /\ UNCHANGED <<clientList, folders, evidence, lists, lost, locals>>

\* The entry is written, new or again.
WriteEntry(r) ==
    /\ pc[r] = "write"
    /\ entry' = [entry EXCEPT ![computer[r]] = object[r]]
    /\ \/ /\ client[r] = None
          /\ Return(r)
       \/ /\ client[r] # None
          /\ Goto(r, "write", IF disk[r] = None THEN "discover" ELSE "lookup")
          /\ UNCHANGED locals
    /\ UNCHANGED <<clientList, folders, evidence, lists, lost>>

\* Opening or writing the file fails; addClient logs it and gives up.
DatabaseFails(r) ==
    /\ "database" \in Faults
    /\ pc[r] \in {"create", "truncate", "write"}
    /\ Return(r)
    /\ UNCHANGED <<clientList, database, lists, lost>>

-----------------------------------------------------------------------------
(* Publishing the disks. *)

\* listTargets returns the client's disks.
Discover(r) ==
    /\ Goto(r, "discover", "disk")
    /\ todo' = [todo EXCEPT ![r] = Disks[client[r]]]
    /\ UNCHANGED <<clientList, database, lists, lost, client, computer, object,
                   disk, list>>

\* It throws, or returns none; or the client's message lacks a disk.
DiscoverFails(r) ==
    /\ \/ pc[r] = "discover" /\ "list" \in Faults
       \/ pc[r] = "disk" /\ "mapping" \in Faults
    /\ Return(r)
    /\ UNCHANGED <<clientList, database, lists, lost>>

\* The next disk is added to the computer's entry, which is written again.
NextDisk(r, d) ==
    /\ d \in todo[r]
    /\ Goto(r, "disk", "truncate")
    /\ disk' = [disk EXCEPT ![r] = d]
    /\ object' = [object EXCEPT ![r].disks = @ \cup {d}]
    /\ UNCHANGED <<clientList, database, lists, lost, client, computer, todo,
                   list>>

\* existingPseudoFileList: look the folder up; only then put a new list.
LookUpAlwaysPutting(r) ==
    /\ Goto(r, "lookup", "put")
    /\ list' = [list EXCEPT ![r] = Len(lists[computer[r]])]
    /\ UNCHANGED <<clientList, database, lists, lost, client, computer, object,
                   todo, disk>>
LookUp(r) ==
    /\ Goto(r, "lookup", IF lists[computer[r]] = <<>> THEN "put" ELSE "add")
    /\ list' = [list EXCEPT ![r] = Len(lists[computer[r]])]
    /\ UNCHANGED <<clientList, database, lists, lost, client, computer, object,
                   todo, disk>>

PutListForgotten(r) ==
    /\ Goto(r, "put", "add")
    /\ list' = [list EXCEPT ![r] = Len(lists[computer[r]]) + 1]
    /\ UNCHANGED <<clientList, database, lists, lost, client, computer, object,
                   todo, disk>>
PutList(r) ==
    /\ Goto(r, "put", "add")
    /\ lists' = [lists EXCEPT ![computer[r]] = Append(@, NoFiles)]
    /\ list' = [list EXCEPT ![r] = Len(lists[computer[r]]) + 1]
    /\ UNCHANGED <<clientList, database, lost, client, computer, object, todo,
                   disk>>

\* A file goes behind those of the same name.
WithFileFirst(files, c, d) ==
    [files EXCEPT ![<<ClientId[c], d>>] = IF c \in Range(@) THEN @ ELSE <<c>> \o @]
WithFile(files, c, d) ==
    [files EXCEPT ![<<ClientId[c], d>>] = IF c \in Range(@) THEN @ ELSE Append(@, c)]

\* The file appears, and with it its evidence file may be written.
Publish(r, files) ==
    /\ lists' = [lists EXCEPT ![computer[r]][list[r]] = files]
    /\ evidence' = [evidence EXCEPT ![computer[r]] =
                       @ \cup {HardwareId[client[r]]}]

\* On with the next disk.
Added(r) ==
    \/ /\ todo[r] = {disk[r]}
       /\ Return(r)
    \/ /\ todo[r] # {disk[r]}
       /\ Goto(r, "add", "disk")
       /\ todo' = [todo EXCEPT ![r] = @ \ {disk[r]}]
       /\ UNCHANGED <<client, computer, object, disk, list>>

AddFileAndReturn(r) ==
    /\ pc[r] = "add"
    /\ list[r] # 0
    /\ Publish(r, WithFile(lists[computer[r]][list[r]], client[r], disk[r]))
    /\ Return(r)
    /\ UNCHANGED <<clientList, folders, entry, lost>>
AddFile(r) ==
    /\ pc[r] = "add"
    /\ list[r] # 0
    /\ Publish(r, WithFile(lists[computer[r]][list[r]], client[r], disk[r]))
    /\ Added(r)
    /\ UNCHANGED <<clientList, folders, entry, lost>>

\* The driver's map is a HashMap and each list an ArrayList, and no lock is
\* taken.  Of two puts at the same time one may be lost: the request goes on
\* with a list that is not in the map, and has the number 0 here.  (A put that
\* makes the map grow may lose older lists as well, which is not followed: what
\* the server promises, it promises until something is lost.)
PutListLoses(r) ==
    /\ \E q \in Requests \ {r} : pc[q] = "put"
    /\ Goto(r, "put", "add")
    /\ list' = [list EXCEPT ![r] = 0]
    /\ lost' = TRUE
    /\ UNCHANGED <<clientList, database, lists, client, computer, object, todo,
                   disk>>

\* Of two adds to one list one may be lost, or throw.
AddFileLoses(r) ==
    /\ pc[r] = "add"
    /\ list[r] # 0
    /\ \E q \in Requests \ {r} : /\ pc[q] = "add"
                                 /\ computer[q] = computer[r]
                                 /\ list[q] = list[r]
    /\ Added(r) \/ Return(r)
    /\ lost' = TRUE
    /\ UNCHANGED <<clientList, database, lists>>

\* Nobody finds a file in a list that is not in the map.
AddFileUnseen(r) ==
    /\ pc[r] = "add"
    /\ list[r] = 0
    /\ Added(r)
    /\ UNCHANGED <<clientList, database, lists, lost>>

\* The server is killed and started again.
Crash ==
    /\ "crash" \in Faults
    /\ clientList' = {}
    /\ lists' = NoLists
    /\ lost' = FALSE
    /\ End(Requests)
    /\ UNCHANGED database

Step(r) ==
    \/ Remember(r)
    \/ FindMachine(r)
    \/ FindPrepared(r)
    \/ CheckDuplicate(r)
    \/ MakeDirectory(r)
    \/ Truncate(r)
    \/ WriteEntry(r)
    \/ DatabaseFails(r)
    \/ Discover(r)
    \/ DiscoverFails(r)
    \/ \E d \in Luns : NextDisk(r, d)
    \/ LookUp(r)
    \/ PutList(r)
    \/ AddFile(r)
    \/ PutListLoses(r)
    \/ AddFileLoses(r)
    \/ AddFileUnseen(r)

\* A thread begins a request or goes on with its own.
Request(r) ==
    \/ \E c \in Clients : Register(r, c) \/ Ignore(r, c)
    \/ \E k \in Prepared, id \in Ids : Prepare(r, k, id)
    \/ Step(r)

Next == (\E r \in Requests : Request(r)) \/ Crash

Spec == Init /\ [][Next]_vars

-----------------------------------------------------------------------------
(* Properties *)

Labels == {"idle", "remember", "find", "findPrepared", "check", "create",
           "truncate", "write", "discover", "disk", "lookup", "put", "add"}

(***************************************************************************)
(* Every variable holds values of its kind; a file is added to a list that *)
(* was put in the map, unless the map has lost it.                         *)
(***************************************************************************)
TypeOK ==
    /\ clientList \in SUBSET Clients
    /\ folders \in SUBSET Computers
    /\ entry \in [Computers -> Entries \cup {Unreadable}]
    /\ evidence \in [Computers -> SUBSET Hardware]
    /\ lists \in [Computers -> Seq([Ids \X Luns -> Seq(Clients)])]
    /\ lost \in BOOLEAN
    /\ pc \in [Requests -> Labels]
    /\ client \in [Requests -> Clients \cup {None}]
    /\ computer \in [Requests -> Computers \cup {None}]
    /\ object \in [Requests -> Entries]
    /\ todo \in [Requests -> SUBSET Luns]
    /\ disk \in [Requests -> Luns \cup {None}]
    /\ \A r \in Requests :
          pc[r] = "add" => \/ list[r] \in 1 .. Len(lists[computer[r]])
                           \/ lost /\ list[r] = 0

(***************************************************************************)
(* A computer's folder holds the evidence of one machine, in this run of   *)
(* the server and over its restarts.  The evidence files in it are named   *)
(* by client id and disk only, and the client id is that of a boot image   *)
(* that "could be started multiple times on different hardware", so two    *)
(* machines in one folder would share an evidence file.                    *)
(***************************************************************************)
EvidenceOfOneMachine == \A k \in Computers : Cardinality(evidence[k]) <= 1

(***************************************************************************)
(* At most one readable entry belongs to a machine, whatever was claimed,  *)
(* created, half written or interrupted: addClient would otherwise spread  *)
(* its evidence over two folders.                                          *)
(***************************************************************************)
OneComputerPerMachine ==
    \A id \in Ids, h \in Hardware : Cardinality(Matches(id, h)) <= 1

(***************************************************************************)
(* A path that an SMB client can open leads to the same machine at the     *)
(* same address until the server stops, whatever is published in its       *)
(* folder after it: no list is replaced, and a file of the same name, of a *)
(* machine that came back under another address, goes behind the first.    *)
(***************************************************************************)
PathsKeepTheirDevice ==
    [][Crash \/ \A k \in Computers, id \in Ids, d \in Luns :
          Found(k, id, d) # None => Found(k, id, d)' = Found(k, id, d)]_vars

(***************************************************************************)
(* As long as the driver's map and lists have lost nothing, a client in    *)
(* the list with no registration of its own under way has all its disks    *)
(* published: of several registrations of one client, those that give up   *)
(* at a folder that exists, and those that replace the folder's list or    *)
(* add to a replaced one, leave what is missing to another.                *)
(***************************************************************************)
ServedWhenDone ==
    lost \/ \A c \in clientList :
        (\A r \in Requests : client[r] # c) =>
            \A d \in Disks[c] :
                \E k \in Computers : Found(k, ClientId[c], d) = c

(***************************************************************************)
(* A client in the list, which the server will ignore when it registers    *)
(* again, has all its disks published, or will have: a path leads to each; *)
(* unless the driver's map or lists lose something before that.            *)
(***************************************************************************)
ClientsServed ==
    \A c \in Clients :
        c \in clientList ~>
            \/ lost
            \/ \A d \in Disks[c] :
                  \E k \in Computers : Found(k, ClientId[c], d) = c

=============================================================================
