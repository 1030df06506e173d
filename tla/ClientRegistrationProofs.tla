---------------------- MODULE ClientRegistrationProofs ----------------------
(***************************************************************************)
(* Theorems about ClientRegistration, for every set of clients, disks,     *)
(* prepared computers and faults.                                          *)
(*                                                                         *)
(* Types holds for any number of threads.  With prepared computers, what   *)
(* the server promises about machines and folders it promises only for one *)
(* request at a time (OneAtATime): a request then knows, between two of    *)
(* its steps, that no entry, folder or list has changed since it looked.   *)
(* Without them (NothingPrepared) it holds for any number of threads, and  *)
(* so does, if nothing fails either (Undisturbed) and as long as the       *)
(* driver's map and lists have lost nothing, that the disks of every       *)
(* client in the list are published.                                       *)
(***************************************************************************)
EXTENDS ClientRegistration, SequenceTheorems, FiniteSetTheorems, TLAPS

Files == [Ids \X Luns -> Seq(Clients)]

\* The client and the computer a request needs where it is.
Equipped(r) ==
    /\ pc[r] \in {"remember", "find", "findPrepared", "discover", "disk",
                  "lookup", "put", "add"} => client[r] \in Clients
    /\ pc[r] \in {"check", "create", "truncate", "write", "discover", "disk",
                  "lookup", "put", "add"} => computer[r] \in Computers
    /\ pc[r] \in {"lookup", "put", "add"} => disk[r] \in Luns
    /\ pc[r] = "add" => list[r] \in 0 .. Len(lists[computer[r]])

Base ==
    /\ clientList \in SUBSET Clients
    /\ folders \in SUBSET Computers
    /\ entry \in [Computers -> Entries \cup {Unreadable}]
    /\ evidence \in [Computers -> SUBSET Hardware]
    /\ pc \in [Requests -> Labels]
    /\ client \in [Requests -> Clients \cup {None}]
    /\ computer \in [Requests -> Computers \cup {None}]
    /\ object \in [Requests -> Entries]
    /\ todo \in [Requests -> SUBSET Luns]
    /\ disk \in [Requests -> Luns \cup {None}]
    /\ list \in [Requests -> Nat]

Types ==
    /\ Base
    /\ lists \in [Computers -> Seq(Files)]
    /\ \A r \in Requests : Equipped(r)

-----------------------------------------------------------------------------

LEMMA Facts ==
    /\ \A c \in Clients : /\ ClientId[c] \in Ids /\ HardwareId[c] \in Hardware
                          /\ Automatic(c) \in Computers /\ Disks[c] \in SUBSET Luns
    /\ \A id \in Ids, h \in Hardware \cup {NoHardware} : NewEntry(id, h) \in Entries
    /\ Blank \in Entries
    /\ Prepared \subseteq Computers
<1>1. \A c \in Clients : /\ ClientId[c] \in Ids /\ HardwareId[c] \in Hardware
                         /\ Automatic(c) \in Computers /\ Disks[c] \in SUBSET Luns
  BY DEF Ids, Hardware, Computers, Luns
<1>2. ASSUME NEW id \in Ids, NEW h \in Hardware \cup {NoHardware}
      PROVE  NewEntry(id, h) \in Entries
  BY DEF NewEntry, Entries
<1>3. (CHOOSE id \in Ids : TRUE) \in Ids
  BY <1>1, RegistrationAssumption
<1>4. Blank \in Entries
  BY <1>2, <1>3 DEF Blank
<1> QED
  BY <1>1, <1>2, <1>4 DEF Computers

LEMMA NoFilesAreFiles == NoFiles \in Files
<1>1. <<>> \in Seq(Clients)
  BY EmptySeq
<1> QED
  BY <1>1 DEF NoFiles, Files

LEMMA InitTypes == Init => Types
<1> SUFFICES ASSUME Init PROVE Types
  OBVIOUS
<1>1. Base
  BY Facts DEF Init, Base, Labels
<1>2. lists \in [Computers -> Seq(Files)]
  BY EmptySeq DEF Init, NoLists
<1>3. ASSUME NEW r \in Requests PROVE Equipped(r)
  BY DEF Init, Equipped
<1> QED
  BY <1>1, <1>2, <1>3 DEF Types

\* Requests that do not act, and lists that only grow.
LEMMA OthersEquipped ==
    ASSUME Types, NEW q \in Requests,
           pc'[q] = pc[q], client'[q] = client[q], computer'[q] = computer[q],
           disk'[q] = disk[q], list'[q] = list[q],
           \A k \in Computers : Len(lists'[k]) >= Len(lists[k]) /\ Len(lists'[k]) \in Nat
    PROVE  Equipped(q)'
<1>1. \A k \in Computers : Len(lists[k]) \in Nat
  BY LenProperties DEF Types
<1> QED
  BY <1>1 DEF Types, Equipped

LEMMA ReturnTypes ==
    ASSUME Types, NEW r \in Requests, Return(r), lists' = lists,
           clientList' \in SUBSET Clients, folders' \in SUBSET Computers,
           entry' \in [Computers -> Entries \cup {Unreadable}],
           evidence' \in [Computers -> SUBSET Hardware]
    PROVE  Types'
<1>1. Base'
  BY Facts DEF Types, Base, Return, End, Labels
<1>2. ASSUME NEW q \in Requests PROVE Equipped(q)'
  <2>1. CASE q = r
    BY <2>1 DEF Return, End, Equipped
  <2>2. CASE q # r
    <3>1. /\ pc'[q] = pc[q] /\ client'[q] = client[q] /\ computer'[q] = computer[q]
          /\ disk'[q] = disk[q] /\ list'[q] = list[q]
      BY <2>2 DEF Return, End
    <3>2. \A k \in Computers : Len(lists'[k]) >= Len(lists[k]) /\ Len(lists'[k]) \in Nat
      BY LenProperties DEF Types
    <3> QED
      BY <3>1, <3>2, OthersEquipped
  <2> QED
    BY <2>1, <2>2
<1> QED
  BY <1>1, <1>2 DEF Types

\* A step of one request.
LEMMA StepTypes ==
    ASSUME Types, NEW r \in Requests, Base',
           lists' \in [Computers -> Seq(Files)],
           \A k \in Computers : Len(lists'[k]) >= Len(lists[k]),
           \A q \in Requests \ {r} :
               /\ pc'[q] = pc[q] /\ client'[q] = client[q]
               /\ computer'[q] = computer[q]
               /\ disk'[q] = disk[q] /\ list'[q] = list[q],
           Equipped(r)'
    PROVE  Types'
<1>1. \A k \in Computers : Len(lists'[k]) \in Nat
  BY LenProperties
<1>2. ASSUME NEW q \in Requests, q # r PROVE Equipped(q)'
  BY <1>1, <1>2, OthersEquipped
<1> QED
  BY <1>2 DEF Types

\* One that leaves the lists as they are.
LEMMA PlainStepTypes ==
    ASSUME Types, NEW r \in Requests, Base', lists' = lists,
           \A q \in Requests \ {r} :
               /\ pc'[q] = pc[q] /\ client'[q] = client[q]
               /\ computer'[q] = computer[q]
               /\ disk'[q] = disk[q] /\ list'[q] = list[q],
           Equipped(r)'
    PROVE  Types'
<1>1. /\ lists' \in [Computers -> Seq(Files)]
      /\ \A k \in Computers : Len(lists'[k]) >= Len(lists[k])
  BY LenProperties DEF Types
<1> QED
  BY <1>1, StepTypes

LEMMA RegisterTypes ==
    ASSUME Types, NEW r \in Requests, NEW c \in Clients, Register(r, c)
    PROVE  Types'
<1>1. Base'
  BY DEF Types, Base, Register, Goto, Labels, database
<1>2. pc'[r] = "remember" /\ client'[r] = c /\ lists' = lists
  BY DEF Types, Base, Register, Goto
<1>3. \A q \in Requests \ {r} :
          /\ pc'[q] = pc[q] /\ client'[q] = client[q] /\ computer'[q] = computer[q]
          /\ disk'[q] = disk[q] /\ list'[q] = list[q]
  BY DEF Types, Base, Register, Goto
<1>4. Equipped(r)'
  BY <1>2 DEF Equipped
<1> QED
  BY <1>1, <1>2, <1>3, <1>4, PlainStepTypes

LEMMA RememberTypes ==
    ASSUME Types, NEW r \in Requests, Remember(r)
    PROVE  Types'
<1>1. /\ clientList' \in SUBSET Clients /\ lists' = lists
      /\ folders' = folders /\ entry' = entry /\ evidence' = evidence
  <2>1. client[r] \in Clients
    BY DEF Remember, Goto, Types, Equipped
  <2> QED
    BY <2>1 DEF Types, Base, Remember, database
<1>2. CASE Return(r)
  <2>1. /\ folders' \in SUBSET Computers
        /\ entry' \in [Computers -> Entries \cup {Unreadable}]
        /\ evidence' \in [Computers -> SUBSET Hardware]
    BY <1>1 DEF Types, Base
  <2> QED
    BY <1>1, <1>2, <2>1, ReturnTypes
<1>3. CASE Goto(r, "remember", "find") /\ UNCHANGED locals
  <2>1. Base'
    BY <1>1, <1>3 DEF Types, Base, Goto, Labels, locals
  <2>2. /\ pc'[r] = "find" /\ client'[r] = client[r] /\ pc[r] = "remember"
        /\ \A q \in Requests \ {r} :
               /\ pc'[q] = pc[q] /\ client'[q] = client[q]
               /\ computer'[q] = computer[q]
               /\ disk'[q] = disk[q] /\ list'[q] = list[q]
    BY <1>3 DEF Types, Base, Goto, locals
  <2>3. Equipped(r)'
    BY <2>2 DEF Types, Equipped
  <2> QED
    BY <1>1, <2>1, <2>2, <2>3, PlainStepTypes
<1> QED
  BY <1>2, <1>3 DEF Remember

LEMMA FindTypes ==
    ASSUME Types, NEW r \in Requests, FindMachine(r) \/ FindPrepared(r)
    PROVE  Types'
<1>1. client[r] \in Clients
  BY DEF FindMachine, FindPrepared, Types, Equipped
<1>2. PICK there \in {"findPrepared", "discover", "check", "truncate"} :
          pc' = [pc EXCEPT ![r] = there]
  BY DEF FindMachine, FindPrepared, Goto
<1>3. /\ UNCHANGED <<clientList, database, lists, client, todo, disk, list>>
  BY DEF FindMachine, FindPrepared
<1>4. there # "findPrepared" =>
          \E k \in Computers, o \in Entries :
              /\ computer' = [computer EXCEPT ![r] = k]
              /\ object' = [object EXCEPT ![r] = o]
  <2>1. ASSUME NEW id, NEW h, NEW k \in Matches(id, h)
        PROVE  k \in Computers /\ entry[k] \in Entries
    BY DEF Matches, Types, Base
  <2>2. ASSUME NEW o \in Entries, NEW h \in Hardware
        PROVE  [o EXCEPT !.hardwareId = h] \in Entries
    BY DEF Entries
  <2>3. CASE FindMachine(r)
    BY <1>2, <2>1, <2>3 DEF FindMachine, Goto, Types, Base
  <2>4. CASE FindPrepared(r)
    BY <1>1, <2>1, <2>2, <2>4, Facts DEF FindPrepared, Goto
  <2> QED
    BY <2>3, <2>4
<1>5. there = "findPrepared" => computer' = computer /\ object' = object
  BY <1>2 DEF FindMachine, FindPrepared, Goto, Types, Base
<1>6. /\ computer' \in [Requests -> Computers \cup {None}]
      /\ object' \in [Requests -> Entries]
      /\ there # "findPrepared" => computer'[r] \in Computers
      /\ \A q \in Requests \ {r} : computer'[q] = computer[q]
  BY <1>4, <1>5 DEF Types, Base
<1>7. Base'
  BY <1>2, <1>3, <1>6 DEF Types, Base, database, Labels
<1>8. /\ pc'[r] = there /\ client'[r] = client[r] /\ lists' = lists
      /\ \A q \in Requests \ {r} :
             /\ pc'[q] = pc[q] /\ client'[q] = client[q]
             /\ computer'[q] = computer[q]
             /\ disk'[q] = disk[q] /\ list'[q] = list[q]
  BY <1>2, <1>3, <1>6 DEF Types, Base
<1>9. Equipped(r)'
  BY <1>1, <1>6, <1>8 DEF Equipped
<1> QED
  BY <1>7, <1>8, <1>9, PlainStepTypes

LEMMA PrepareTypes ==
    ASSUME Types, NEW r \in Requests, NEW k \in Prepared, NEW id \in Ids,
           Prepare(r, k, id)
    PROVE  Types'
<1>1. k \in Computers /\ NewEntry(id, NoHardware) \in Entries
  BY Facts
<1>2. Base'
  BY <1>1 DEF Types, Base, Prepare, Goto, Labels, database
<1>3. /\ pc'[r] = "check" /\ computer'[r] = k /\ lists' = lists
      /\ \A q \in Requests \ {r} :
             /\ pc'[q] = pc[q] /\ client'[q] = client[q]
             /\ computer'[q] = computer[q]
             /\ disk'[q] = disk[q] /\ list'[q] = list[q]
  BY DEF Types, Base, Prepare, Goto
<1>4. Equipped(r)'
  BY <1>1, <1>3 DEF Equipped
<1> QED
  BY <1>2, <1>3, <1>4, PlainStepTypes

\* A request that goes on with what it has.
LEMMA MoveTypes ==
    ASSUME Types, NEW r \in Requests, NEW here \in Labels, NEW there \in Labels,
           Goto(r, here, there), UNCHANGED locals, clientList' = clientList,
           lists' = lists, folders' \in SUBSET Computers,
           entry' \in [Computers -> Entries \cup {Unreadable}], evidence' = evidence,
           \/ <<here, there>> \in {<<"check", "create">>, <<"create", "truncate">>,
                                  <<"truncate", "write">>}
           \/ here = "write" /\ client[r] \in Clients /\ there = "discover"
           \/ here = "write" /\ client[r] \in Clients /\ disk[r] \in Luns
                  /\ there = "lookup"
    PROVE  Types'
<1>1. Base'
  BY DEF Types, Base, Goto, locals
<1>2. /\ pc[r] = here /\ pc'[r] = there
      /\ client' = client /\ computer' = computer /\ disk' = disk /\ list' = list
      /\ \A q \in Requests \ {r} : pc'[q] = pc[q]
  BY DEF Types, Base, Goto, locals
<1>3. Equipped(r)'
  BY <1>2 DEF Types, Equipped
<1> QED
  BY <1>1, <1>2, <1>3, PlainStepTypes

LEMMA DatabaseTypes ==
    ASSUME Types, NEW r \in Requests,
           \/ CheckDuplicate(r) \/ MakeDirectory(r) \/ Truncate(r)
           \/ WriteEntry(r) \/ DatabaseFails(r)
    PROVE  Types'
<1>1. /\ folders' \in SUBSET Computers
      /\ entry' \in [Computers -> Entries \cup {Unreadable}]
      /\ evidence' = evidence /\ lists' = lists /\ clientList' = clientList
      /\ clientList \in SUBSET Clients /\ evidence \in [Computers -> SUBSET Hardware]
  <2>1. pc[r] \in {"create", "truncate", "write"} => computer[r] \in Computers
    BY DEF Types, Equipped
  <2> QED
    BY <2>1 DEF Types, Base, CheckDuplicate, MakeDirectory, Truncate, WriteEntry,
       DatabaseFails, Goto, database
<1>2. CASE Return(r)
  BY <1>1, <1>2, ReturnTypes
<1>3. CASE CheckDuplicate(r) \/ MakeDirectory(r) \/ Truncate(r)
  <2>1. {"check", "create", "write", "truncate"} \subseteq Labels
    BY DEF Labels
  <2> QED
    BY <1>1, <1>2, <1>3, <2>1, MoveTypes DEF CheckDuplicate, MakeDirectory, Truncate
<1>4. CASE WriteEntry(r)
  <2>1. {"write", "discover", "lookup"} \subseteq Labels
    BY DEF Labels
  <2>2. CASE client[r] # None
    <3>1. client[r] \in Clients /\ disk[r] \in Luns \cup {None}
      BY <2>2 DEF Types, Base
    <3>2. UNCHANGED locals /\ \/ disk[r] = None /\ Goto(r, "write", "discover")
                              \/ disk[r] # None /\ Goto(r, "write", "lookup")
      BY <1>4, <2>2 DEF WriteEntry
    <3> QED
      BY <1>1, <2>1, <3>1, <3>2, MoveTypes
  <2> QED
    BY <1>2, <1>4, <2>2 DEF WriteEntry
<1> QED
  BY <1>2, <1>3, <1>4 DEF DatabaseFails

LEMMA DiscoverTypes ==
    ASSUME Types, NEW r \in Requests,
           Discover(r) \/ DiscoverFails(r) \/ \E d \in Luns : NextDisk(r, d)
    PROVE  Types'
<1>1. CASE DiscoverFails(r)
  <2>1. /\ lists' = lists /\ clientList' \in SUBSET Clients
        /\ folders' \in SUBSET Computers
        /\ entry' \in [Computers -> Entries \cup {Unreadable}]
        /\ evidence' \in [Computers -> SUBSET Hardware]
    BY <1>1 DEF DiscoverFails, database, Types, Base
  <2> QED
    BY <1>1, <2>1, ReturnTypes DEF DiscoverFails
<1>2. CASE Discover(r)
  <2>1. client[r] \in Clients /\ computer[r] \in Computers /\ pc[r] = "discover"
    BY <1>2 DEF Discover, Goto, Types, Equipped
  <2>2. Base'
    BY <1>2, <2>1, Facts DEF Types, Base, Discover, Goto, Labels, database
  <2>3. /\ pc'[r] = "disk" /\ client' = client /\ computer' = computer
        /\ lists' = lists /\ disk' = disk /\ list' = list
        /\ \A q \in Requests \ {r} : pc'[q] = pc[q]
    BY <1>2 DEF Types, Base, Discover, Goto
  <2>4. Equipped(r)'
    BY <2>1, <2>3 DEF Equipped
  <2> QED
    BY <2>2, <2>3, <2>4, PlainStepTypes
<1>3. ASSUME NEW d \in Luns, NextDisk(r, d) PROVE Types'
  <2>1. client[r] \in Clients /\ computer[r] \in Computers
    BY <1>3 DEF NextDisk, Goto, Types, Equipped
  <2>2. object' \in [Requests -> Entries]
    <3>1. object \in [Requests -> Entries]
      BY DEF Types, Base
    <3>2. [object[r] EXCEPT !.disks = @ \cup {d}] \in Entries
      BY <3>1 DEF Entries
    <3> QED
      BY <1>3, <3>1, <3>2 DEF NextDisk
  <2>3. Base'
    BY <1>3, <2>2 DEF Types, Base, NextDisk, Goto, Labels, database
  <2>4. /\ pc'[r] = "truncate" /\ client' = client /\ computer' = computer
        /\ lists' = lists /\ list' = list
        /\ \A q \in Requests \ {r} : pc'[q] = pc[q] /\ disk'[q] = disk[q]
    BY <1>3 DEF Types, Base, NextDisk, Goto
  <2>5. Equipped(r)'
    BY <2>1, <2>4 DEF Equipped
  <2> QED
    BY <2>3, <2>4, <2>5, PlainStepTypes
<1> QED
  BY <1>1, <1>2, <1>3

LEMMA LookUpTypes ==
    ASSUME Types, NEW r \in Requests, LookUp(r)
    PROVE  Types'
<1>1. /\ client[r] \in Clients /\ computer[r] \in Computers /\ disk[r] \in Luns
      /\ lists[computer[r]] \in Seq(Files)
  BY DEF LookUp, Goto, Types, Equipped
<1>2. Len(lists[computer[r]]) \in Nat
      /\ lists[computer[r]] # <<>> => Len(lists[computer[r]]) \in Nat \ {0}
  BY <1>1, LenProperties, EmptySeq
<1>3. Base'
  BY <1>2 DEF Types, Base, LookUp, Goto, Labels, database
<1>4. /\ pc'[r] = IF lists[computer[r]] = <<>> THEN "put" ELSE "add"
      /\ client' = client /\ computer' = computer /\ disk' = disk /\ lists' = lists
      /\ list'[r] = Len(lists[computer[r]])
      /\ \A q \in Requests \ {r} : pc'[q] = pc[q] /\ list'[q] = list[q]
  BY DEF Types, Base, LookUp, Goto
<1>5. Equipped(r)'
  BY <1>1, <1>2, <1>4 DEF Equipped
<1> QED
  BY <1>3, <1>4, <1>5, PlainStepTypes

LEMMA PutListTypes ==
    ASSUME Types, NEW r \in Requests, PutList(r)
    PROVE  Types'
<1>1. /\ client[r] \in Clients /\ computer[r] \in Computers /\ disk[r] \in Luns
      /\ lists \in [Computers -> Seq(Files)]
  BY DEF PutList, Goto, Types, Equipped
<1>2. PICK l : l = Append(lists[computer[r]], NoFiles)
  OBVIOUS
<1>3. /\ l \in Seq(Files) /\ Len(l) = Len(lists[computer[r]]) + 1
      /\ Len(lists[computer[r]]) \in Nat
  BY <1>1, <1>2, AppendProperties, LenProperties, NoFilesAreFiles
<1>4. /\ lists' \in [Computers -> Seq(Files)] /\ lists'[computer[r]] = l
      /\ \A k \in Computers \ {computer[r]} : lists'[k] = lists[k]
  BY <1>1, <1>2, <1>3 DEF PutList
<1>5. \A k \in Computers : Len(lists[k]) \in Nat
  BY <1>1, LenProperties
<1>6. \A k \in Computers : Len(lists'[k]) >= Len(lists[k])
  BY <1>3, <1>4, <1>5
<1>7. Base'
  BY <1>3 DEF Types, Base, PutList, Goto, Labels, database
<1>8. /\ pc'[r] = "add" /\ client' = client /\ computer' = computer /\ disk' = disk
      /\ list'[r] = Len(lists[computer[r]]) + 1
      /\ \A q \in Requests \ {r} : pc'[q] = pc[q] /\ list'[q] = list[q]
  BY DEF Types, Base, PutList, Goto
<1>9. Equipped(r)'
  BY <1>1, <1>3, <1>4, <1>8 DEF Equipped
<1> QED
  BY <1>4, <1>6, <1>7, <1>8, <1>9, StepTypes

\* The files of a name after one was added.
LEMMA FileAdded ==
    ASSUME NEW files \in Files, NEW c \in Clients, NEW d \in Luns
    PROVE  /\ WithFile(files, c, d) \in Files
           /\ \A name \in Ids \X Luns :
                 files[name] # <<>> => /\ WithFile(files, c, d)[name] # <<>>
                                       /\ Head(WithFile(files, c, d)[name]) = Head(files[name])
<1> DEFINE it == <<ClientId[c], d>>
           new == IF c \in Range(files[it]) THEN files[it] ELSE Append(files[it], c)
<1>1. it \in Ids \X Luns
  BY Facts
<1>2. files[it] \in Seq(Clients)
  BY <1>1 DEF Files
<1>3. /\ Append(files[it], c) \in Seq(Clients) /\ Append(files[it], c) # <<>>
      /\ files[it] # <<>> => Head(Append(files[it], c)) = Head(files[it])
  <2>1. /\ Append(files[it], c) \in Seq(Clients) /\ Append(files[it], c) # <<>>
        /\ Len(files[it]) \in Nat
        /\ \A j \in 1 .. Len(files[it]) : Append(files[it], c)[j] = files[it][j]
    BY <1>2, AppendProperties, LenProperties
  <2>2. ASSUME files[it] # <<>> PROVE Append(files[it], c)[1] = files[it][1]
    BY <1>2, <2>1, <2>2, EmptySeq
  <2> QED
    BY <2>1, <2>2
<1>4. /\ new \in Seq(Clients)
      /\ files[it] # <<>> => new # <<>> /\ Head(new) = Head(files[it])
  BY <1>2, <1>3
<1>5. WithFile(files, c, d) = [files EXCEPT ![it] = new]
  BY DEF WithFile
<1> HIDE DEF new, it
<1>6. WithFile(files, c, d) \in Files
  BY <1>1, <1>4, <1>5 DEF Files
<1>7. ASSUME NEW name \in Ids \X Luns
      PROVE  WithFile(files, c, d)[name] = IF name = it THEN new ELSE files[name]
  BY <1>5, <1>7 DEF Files
<1> QED
  BY <1>4, <1>6, <1>7

\* On with the next disk, or done.
LEMMA AddedTypes ==
    ASSUME Types, NEW r \in Requests, pc[r] = "add", Added(r) \/ Return(r),
           lists' \in [Computers -> Seq(Files)],
           \A k \in Computers : Len(lists'[k]) >= Len(lists[k]),
           clientList' \in SUBSET Clients, folders' \in SUBSET Computers,
           entry' \in [Computers -> Entries \cup {Unreadable}],
           evidence' \in [Computers -> SUBSET Hardware]
    PROVE  Types'
<1>1. client[r] \in Clients /\ computer[r] \in Computers
  BY DEF Types, Equipped
<1>2. CASE Return(r)
  <2>1. Base'
    BY <1>2, Facts DEF Types, Base, Return, End, Labels
  <2>2. \A q \in Requests \ {r} :
            /\ pc'[q] = pc[q] /\ client'[q] = client[q] /\ computer'[q] = computer[q]
            /\ disk'[q] = disk[q] /\ list'[q] = list[q]
    BY <1>2 DEF Return, End
  <2>3. Equipped(r)'
    BY <1>2 DEF Return, End, Equipped
  <2> QED
    BY <2>1, <2>2, <2>3, StepTypes
<1>3. CASE /\ Goto(r, "add", "disk") /\ todo' = [todo EXCEPT ![r] = @ \ {disk[r]}]
           /\ UNCHANGED <<client, computer, object, disk, list>>
  <2>1. Base'
    BY <1>3 DEF Types, Base, Goto, Labels
  <2>2. /\ pc'[r] = "disk" /\ client' = client /\ computer' = computer
        /\ disk' = disk /\ list' = list
        /\ \A q \in Requests \ {r} : pc'[q] = pc[q]
    BY <1>3 DEF Types, Base, Goto
  <2>3. Equipped(r)'
    BY <1>1, <2>2 DEF Equipped
  <2> QED
    BY <2>1, <2>2, <2>3, StepTypes
<1> QED
  BY <1>2, <1>3 DEF Added

LEMMA AddFileTypes ==
    ASSUME Types, NEW r \in Requests, AddFile(r)
    PROVE  Types'
<1>1. /\ client[r] \in Clients /\ computer[r] \in Computers /\ disk[r] \in Luns
      /\ lists \in [Computers -> Seq(Files)] /\ pc[r] = "add"
      /\ list[r] \in 1 .. Len(lists[computer[r]])
  <2>1. list[r] \in 0 .. Len(lists[computer[r]]) /\ list[r] # 0 /\ pc[r] = "add"
    BY DEF AddFile, Types, Equipped
  <2> QED
    BY <2>1, LenProperties DEF Types, Equipped
<1>2. PICK l : l = [lists[computer[r]] EXCEPT ![list[r]] =
                       WithFile(lists[computer[r]][list[r]], client[r], disk[r])]
  OBVIOUS
<1>3. l \in Seq(Files) /\ Len(l) = Len(lists[computer[r]])
  <2>1. lists[computer[r]][list[r]] \in Files
    BY <1>1, ElementOfSeq
  <2>2. WithFile(lists[computer[r]][list[r]], client[r], disk[r]) \in Files
    BY <1>1, <2>1, FileAdded
  <2> QED
    BY <1>1, <1>2, <2>2, ExceptSeq
<1>4. lists' = [lists EXCEPT ![computer[r]] = l]
  BY <1>1, <1>2 DEF AddFile, Publish
<1>5. /\ lists' \in [Computers -> Seq(Files)]
      /\ \A k \in Computers : Len(lists'[k]) = Len(lists[k]) /\ Len(lists[k]) \in Nat
  BY <1>1, <1>3, <1>4, LenProperties
<1>6. /\ clientList' \in SUBSET Clients /\ folders' \in SUBSET Computers
      /\ entry' \in [Computers -> Entries \cup {Unreadable}]
      /\ evidence' \in [Computers -> SUBSET Hardware]
  BY <1>1, Facts DEF AddFile, Publish, Types, Base
<1>7. Added(r)
  BY DEF AddFile
<1>8. \A k \in Computers : Len(lists'[k]) >= Len(lists[k])
  BY <1>5
<1> QED
  BY <1>1, <1>5, <1>6, <1>7, <1>8, AddedTypes

\* A file or a list that the map does not get.
LEMMA LossTypes ==
    ASSUME Types, NEW r \in Requests,
           PutListLoses(r) \/ AddFileLoses(r) \/ AddFileUnseen(r)
    PROVE  Types'
<1>1. /\ lists' = lists /\ clientList' \in SUBSET Clients
      /\ folders' \in SUBSET Computers
      /\ entry' \in [Computers -> Entries \cup {Unreadable}]
      /\ evidence' \in [Computers -> SUBSET Hardware]
  BY DEF Types, Base, PutListLoses, AddFileLoses, AddFileUnseen, database
<1>2. CASE PutListLoses(r)
  <2>1. /\ client[r] \in Clients /\ computer[r] \in Computers /\ disk[r] \in Luns
        /\ Len(lists[computer[r]]) \in Nat
    BY <1>2, LenProperties DEF PutListLoses, Goto, Types, Equipped
  <2>2. Base'
    BY <1>2 DEF Types, Base, PutListLoses, Goto, Labels, database
  <2>3. /\ pc'[r] = "add" /\ client' = client /\ computer' = computer /\ disk' = disk
        /\ list'[r] = 0
        /\ \A q \in Requests \ {r} : pc'[q] = pc[q] /\ list'[q] = list[q]
    BY <1>2 DEF Types, Base, PutListLoses, Goto
  <2>4. Equipped(r)'
    BY <1>1, <2>1, <2>3 DEF Equipped
  <2> QED
    BY <1>1, <2>2, <2>3, <2>4, PlainStepTypes
<1>3. CASE AddFileLoses(r) \/ AddFileUnseen(r)
  <2>1. pc[r] = "add" /\ (Added(r) \/ Return(r))
    BY <1>3 DEF AddFileLoses, AddFileUnseen
  <2>2. /\ lists' \in [Computers -> Seq(Files)]
        /\ \A k \in Computers : Len(lists'[k]) >= Len(lists[k])
    BY <1>1, LenProperties DEF Types
  <2> QED
    BY <1>1, <2>1, <2>2, AddedTypes
<1> QED
  BY <1>2, <1>3

LEMMA CrashTypes == Types /\ Crash => Types'
<1> SUFFICES ASSUME Types, Crash PROVE Types'
  OBVIOUS
<1>1. Base'
  BY Facts DEF Types, Base, Crash, End, Labels, database
<1>2. lists' \in [Computers -> Seq(Files)]
  BY EmptySeq DEF Crash, NoLists
<1>3. ASSUME NEW q \in Requests PROVE Equipped(q)'
  BY DEF Crash, End, Equipped
<1> QED
  BY <1>1, <1>2, <1>3 DEF Types

LEMMA NextTypes == Types /\ [Next]_vars => Types'
<1> SUFFICES ASSUME Types, [Next]_vars PROVE Types'
  OBVIOUS
<1>1. CASE UNCHANGED vars
  BY <1>1 DEF vars, database, locals, Types, Base, Equipped
<1>2. ASSUME NEW r \in Requests, Step(r) PROVE Types'
  BY <1>2, RememberTypes, FindTypes, DatabaseTypes, DiscoverTypes, LookUpTypes,
     PutListTypes, AddFileTypes, LossTypes DEF Step
<1>3. ASSUME NEW r \in Requests, NEW c \in Clients, Ignore(r, c) PROVE UNCHANGED vars
  BY <1>3 DEF Ignore
<1> QED
  BY <1>1, <1>2, <1>3, RegisterTypes, PrepareTypes, CrashTypes DEF Next, Request

LEMMA AlwaysTypes == Spec => []Types
  BY InitTypes, NextTypes, PTL DEF Spec

\* Until something is lost, every list a file is added to is in the map.
LossKnown ==
    /\ lost \in BOOLEAN
    /\ lost \/ \A r \in Requests : pc[r] = "add" => list[r] # 0

LEMMA InitLossKnown == Init => LossKnown
  BY DEF Init, LossKnown

LEMMA NextLossKnown == Types /\ LossKnown /\ [Next]_vars => LossKnown'
<1> SUFFICES ASSUME Types, LossKnown, [Next]_vars PROVE LossKnown'
  OBVIOUS
\* Steps that lose nothing and leave the others where they are.
<1>1. ASSUME NEW r \in Requests, lost' = lost,
             \A q \in Requests \ {r} : pc'[q] = pc[q] /\ list'[q] = list[q],
             pc'[r] = "add" => list'[r] # 0
      PROVE  LossKnown'
  BY <1>1 DEF LossKnown
<1>2. ASSUME NEW r \in Requests, Return(r), lost' = lost PROVE LossKnown'
  <2>1. /\ \A q \in Requests \ {r} : pc'[q] = pc[q] /\ list'[q] = list[q]
        /\ pc'[r] = "idle"
    BY <1>2 DEF Return, End
  <2> QED
    BY <1>1, <1>2, <2>1
<1>3. ASSUME NEW r \in Requests, lost' = lost, list' = list,
             NEW here, NEW there \in Labels \ {"add"}, Goto(r, here, there)
      PROVE  LossKnown'
  <2>1. /\ \A q \in Requests \ {r} : pc'[q] = pc[q] /\ list'[q] = list[q]
        /\ pc'[r] = there
    BY <1>3 DEF Goto, Types, Base
  <2> QED
    BY <1>1, <1>3, <2>1
<1>4. {"remember", "find", "findPrepared", "check", "create", "truncate", "write",
       "discover", "disk", "lookup", "put"} \subseteq Labels \ {"add"}
  BY DEF Labels
<1>5. ASSUME UNCHANGED vars PROVE LossKnown'
  BY <1>5 DEF LossKnown, vars, locals
<1>6. ASSUME NEW r \in Requests, \/ \E c \in Clients : Register(r, c)
                                 \/ \E k \in Prepared, id \in Ids : Prepare(r, k, id)
      PROVE  LossKnown'
  BY <1>3, <1>4, <1>6 DEF Register, Prepare
<1>7. ASSUME NEW r \in Requests, Remember(r) \/ FindMachine(r) \/ FindPrepared(r)
      PROVE  LossKnown'
  <2>1. lost' = lost
    BY <1>7 DEF Remember, FindMachine, FindPrepared
  <2>2. \/ Return(r)
        \/ /\ list' = list
           /\ \/ Goto(r, "remember", "find") \/ Goto(r, "find", "findPrepared")
              \/ Goto(r, "find", "discover") \/ Goto(r, "findPrepared", "check")
              \/ Goto(r, "findPrepared", "truncate")
    BY <1>7 DEF Remember, FindMachine, FindPrepared, locals
  <2> QED
    BY <1>2, <1>3, <1>4, <2>1, <2>2
<1>8. ASSUME NEW r \in Requests,
             \/ CheckDuplicate(r) \/ MakeDirectory(r) \/ Truncate(r)
             \/ WriteEntry(r) \/ DatabaseFails(r)
      PROVE  LossKnown'
  <2>1. lost' = lost
    BY <1>8 DEF CheckDuplicate, MakeDirectory, Truncate, WriteEntry, DatabaseFails
  <2>2. \/ Return(r)
        \/ /\ list' = list
           /\ \/ Goto(r, "check", "create") \/ Goto(r, "create", "truncate")
              \/ Goto(r, "truncate", "write") \/ Goto(r, "write", "discover")
              \/ Goto(r, "write", "lookup")
    BY <1>8 DEF CheckDuplicate, MakeDirectory, Truncate, WriteEntry, DatabaseFails,
                locals
  <2> QED
    BY <1>2, <1>3, <1>4, <2>1, <2>2
<1>9. ASSUME NEW r \in Requests,
             Discover(r) \/ DiscoverFails(r) \/ \E d \in Luns : NextDisk(r, d)
      PROVE  LossKnown'
  <2>1. lost' = lost
    BY <1>9 DEF Discover, DiscoverFails, NextDisk
  <2>2. \/ Return(r)
        \/ /\ list' = list
           /\ Goto(r, "discover", "disk") \/ Goto(r, "disk", "truncate")
    BY <1>9 DEF Discover, DiscoverFails, NextDisk
  <2> QED
    BY <1>2, <1>3, <1>4, <2>1, <2>2
<1>10. ASSUME NEW r \in Requests, LookUp(r) \/ PutList(r) PROVE LossKnown'
  <2>1. /\ lost' = lost
        /\ \A q \in Requests \ {r} : pc'[q] = pc[q] /\ list'[q] = list[q]
    BY <1>10 DEF LookUp, PutList, Goto, Types, Base
  <2>2. computer[r] \in Computers /\ lists[computer[r]] \in Seq(Files)
    BY <1>10 DEF LookUp, PutList, Goto, Types, Equipped
  <2>3. /\ Len(lists[computer[r]]) \in Nat
        /\ lists[computer[r]] # <<>> => Len(lists[computer[r]]) # 0
    BY <2>2, LenProperties, EmptySeq
  <2>4. CASE LookUp(r)
    <3>1. /\ list'[r] = Len(lists[computer[r]])
          /\ pc'[r] = IF lists[computer[r]] = <<>> THEN "put" ELSE "add"
      BY <2>4 DEF LookUp, Goto, Types, Base
    <3> QED
      BY <1>1, <2>1, <2>3, <3>1
  <2>5. CASE PutList(r)
    <3>1. list'[r] = Len(lists[computer[r]]) + 1
      BY <2>5 DEF PutList, Types, Base
    <3> QED
      BY <1>1, <2>1, <2>3, <3>1
  <2> QED
    BY <1>10, <2>4, <2>5
<1>11. ASSUME NEW r \in Requests, AddFile(r) \/ AddFileUnseen(r) PROVE LossKnown'
  <2>1. lost' = lost
    BY <1>11 DEF AddFile, AddFileUnseen
  <2>2. Return(r) \/ (list' = list /\ Goto(r, "add", "disk"))
    BY <1>11 DEF AddFile, AddFileUnseen, Added
  <2> QED
    BY <1>2, <1>3, <1>4, <2>1, <2>2
<1>12. ASSUME lost' = TRUE PROVE LossKnown'
  BY <1>12 DEF LossKnown
<1>13. ASSUME Crash PROVE LossKnown'
  <2>1. lost' = FALSE /\ \A q \in Requests : pc'[q] = "idle"
    BY <1>13 DEF Crash, End
  <2> QED
    BY <2>1 DEF LossKnown
<1>14. ASSUME NEW r \in Requests, Step(r) PROVE LossKnown'
  BY <1>7, <1>8, <1>9, <1>10, <1>11, <1>12, <1>14 DEF Step, PutListLoses, AddFileLoses
<1> QED
  BY <1>5, <1>6, <1>13, <1>14 DEF Next, Request, Ignore

LEMMA AlwaysLossKnown == Spec => [](Types /\ LossKnown)
  BY InitTypes, InitLossKnown, NextTypes, NextLossKnown, PTL DEF Spec

(***************************************************************************)
(* However many threads handle requests, every variable holds values of    *)
(* its kind, and a file is added to a list that was put in the map, unless *)
(* the map has lost it.                                                    *)
(***************************************************************************)
THEOREM TypeCorrect == Spec => []TypeOK
<1>1. ASSUME Types, LossKnown PROVE TypeOK
  <2>1. ASSUME NEW r \in Requests, pc[r] = "add"
        PROVE  list[r] \in 1 .. Len(lists[computer[r]]) \/ (lost /\ list[r] = 0)
    <3>1. /\ list[r] \in 0 .. Len(lists[computer[r]])
          /\ Len(lists[computer[r]]) \in Nat
      BY <1>1, <2>1, LenProperties DEF Types, Equipped
    <3>2. lost \/ list[r] # 0
      BY <1>1, <2>1 DEF LossKnown
    <3> QED
      BY <3>1, <3>2
  <2> QED
    BY <1>1, <2>1 DEF Types, Base, LossKnown, Files, TypeOK
<1>2. Types /\ LossKnown => TypeOK
  BY <1>1
<1> QED
  BY <1>2, AlwaysLossKnown, PTL

-----------------------------------------------------------------------------
(* One request at a time. *)

OneAtATime == \A q, r \in Requests : q = r

\* Folders, evidence and entries agree, and no two entries are of one machine.
Agree ==
    \A k \in Computers :
        /\ entry[k] # Unreadable => k \in folders
        /\ evidence[k] # {} => k \in folders
        /\ \A g, h \in evidence[k] : g = h
        /\ \A h \in evidence[k] : entry[k] = Unreadable \/ entry[k].hardwareId = h

OneEntry ==
    \A id \in Ids, h \in Hardware : \A k, l \in Matches(id, h) : k = l

Working == {"truncate", "write", "discover", "disk", "lookup", "put", "add"}

\* A request works for the client it began with, or for an investigator.
OwnObject(r) ==
    /\ pc[r] = "idle" => client[r] = None
    /\ pc[r] \in Working \cup {"check", "create"} =>
          IF client[r] = None THEN object[r].hardwareId = NoHardware
          ELSE /\ object[r].clientId = ClientId[client[r]]
               /\ object[r].hardwareId = HardwareId[client[r]]

\* The folder it works in is new, or of this machine.
OwnFolder(r) ==
    /\ pc[r] = "create" => computer[r] \notin folders
    /\ pc[r] \in Working =>
          /\ computer[r] \in folders
          /\ \A h \in evidence[computer[r]] : h = object[r].hardwareId
    /\ pc[r] \in {"lookup", "put", "add"} => entry[computer[r]] = object[r]

\* No other entry is of this machine.
OnlyEntry(r) ==
    /\ pc[r] = "findPrepared" =>
          Matches(ClientId[client[r]], HardwareId[client[r]]) = {}
    /\ pc[r] \in Working \cup {"check", "create"} /\ client[r] # None =>
          \A k \in Matches(ClientId[client[r]], HardwareId[client[r]]) : k = computer[r]

Alone ==
    /\ Agree
    /\ OneEntry
    /\ \A r \in Requests : OwnObject(r) /\ OwnFolder(r) /\ OnlyEntry(r)

LEMMA InitAlone == Init => Alone
  BY DEF Init, Alone, Agree, OneEntry, Matches, OwnObject, OwnFolder, OnlyEntry, Working

LEMMA MatchIs ==
    ASSUME Types, NEW id, NEW h, NEW k \in Matches(id, h)
    PROVE  /\ k \in Computers /\ entry[k] \in Entries /\ entry[k] # Unreadable
           /\ entry[k].clientId = id /\ entry[k].hardwareId = h
  BY DEF Matches, Types, Base

\* The one request acts, and the database stays.
LEMMA DatabaseStays ==
    ASSUME OneAtATime, Alone, NEW r \in Requests, UNCHANGED database,
           OwnObject(r)', OwnFolder(r)', OnlyEntry(r)'
    PROVE  Alone'
<1>1. Agree' /\ OneEntry'
  BY DEF Alone, Agree, OneEntry, Matches, database
<1>2. \A q \in Requests : OwnObject(q)' /\ OwnFolder(q)' /\ OnlyEntry(q)'
  BY DEF OneAtATime
<1> QED
  BY <1>1, <1>2 DEF Alone

LEMMA IdleAlone ==
    ASSUME NEW r \in Requests, Return(r)
    PROVE  OwnObject(r)' /\ OwnFolder(r)' /\ OnlyEntry(r)'
  BY DEF Return, End, OwnObject, OwnFolder, OnlyEntry, Working

LEMMA FindAlone ==
    ASSUME OneAtATime, Types, Alone, NEW r \in Requests,
           FindMachine(r) \/ FindPrepared(r)
    PROVE  Alone'
<1>1. client[r] \in Clients /\ client[r] # None /\ client' = client
  BY RegistrationAssumption DEF FindMachine, FindPrepared, Types, Equipped
<1>2. UNCHANGED database
  BY DEF FindMachine, FindPrepared
<1> DEFINE id == ClientId[client[r]]
           h == HardwareId[client[r]]
<1>3. id \in Ids /\ h \in Hardware /\ h # NoHardware
  BY <1>1, Facts, RegistrationAssumption
<1>4. \A i, g : Matches(i, g)' = Matches(i, g)
  BY <1>2 DEF Matches, database
<1> HIDE DEF id, h
<1>5. CASE pc'[r] = "findPrepared" /\ Matches(id, h) = {}
  BY <1>1, <1>2, <1>4, <1>5, DatabaseStays DEF OwnObject, OwnFolder, OnlyEntry, Working, id, h
<1>6. ASSUME NEW k \in Matches(id, h), computer'[r] = k, object'[r] = entry[k],
             pc'[r] = "discover"
      PROVE  Alone'
  <2>1. /\ k \in Computers /\ entry[k] # Unreadable
        /\ entry[k].clientId = id /\ entry[k].hardwareId = h
    BY MatchIs
  <2>2. k \in folders /\ \A g \in evidence[k] : g = h
    BY <2>1 DEF Alone, Agree
  <2>3. \A l \in Matches(id, h) : l = k
    BY <1>3 DEF Alone, OneEntry
  <2>4. OwnObject(r)'
    BY <1>1, <1>6, <2>1 DEF OwnObject, id, h
  <2>5. OwnFolder(r)'
    BY <1>2, <1>6, <2>1, <2>2 DEF OwnFolder, database
  <2>6. OnlyEntry(r)'
    BY <1>1, <1>4, <1>6, <2>3 DEF OnlyEntry, id, h
  <2> QED
    BY <1>2, <2>4, <2>5, <2>6, DatabaseStays
<1>7. ASSUME Matches(id, h) = {}, NEW k \in Matches(id, NoHardware),
             computer'[r] = k, object'[r] = [entry[k] EXCEPT !.hardwareId = h],
             pc'[r] = "truncate"
      PROVE  Alone'
  <2>1. /\ k \in Computers /\ entry[k] \in Entries /\ entry[k] # Unreadable
        /\ entry[k].clientId = id /\ entry[k].hardwareId = NoHardware
    BY MatchIs
  <2>2. k \in folders /\ \A g \in evidence[k] : g = NoHardware
    BY <2>1 DEF Alone, Agree
  <2>3. evidence[k] = {}
    BY <2>1, <2>2, RegistrationAssumption DEF Types, Base
  <2>4. object'[r].clientId = id /\ object'[r].hardwareId = h
    BY <1>7, <2>1 DEF Entries
  <2>5. OwnObject(r)'
    BY <1>1, <1>7, <2>4 DEF OwnObject, id, h
  <2>6. OwnFolder(r)'
    BY <1>2, <1>7, <2>2, <2>3 DEF OwnFolder, database
  <2>7. OnlyEntry(r)'
    BY <1>1, <1>4, <1>7 DEF OnlyEntry, id, h
  <2> QED
    BY <1>2, <2>5, <2>6, <2>7, DatabaseStays
<1>8. ASSUME Matches(id, h) = {}, object'[r] = NewEntry(id, h), pc'[r] = "check"
      PROVE  Alone'
  <2>1. object'[r].clientId = id /\ object'[r].hardwareId = h
    BY <1>8 DEF NewEntry
  <2>2. OwnObject(r)' /\ OwnFolder(r)'
    BY <1>1, <1>8, <2>1 DEF OwnObject, OwnFolder, Working, id, h
  <2>3. OnlyEntry(r)'
    BY <1>1, <1>4, <1>8 DEF OnlyEntry, id, h
  <2> QED
    BY <1>2, <2>2, <2>3, DatabaseStays
<1>9. CASE FindMachine(r)
  BY <1>5, <1>6, <1>9 DEF FindMachine, Goto, Types, Base, id, h
<1>10. CASE FindPrepared(r)
  <2>1. Matches(id, h) = {}
    BY <1>10 DEF FindPrepared, Alone, OnlyEntry, id, h
  <2> QED
    BY <1>7, <1>8, <1>10, <2>1 DEF FindPrepared, Goto, Types, Base, id, h
<1> QED
  BY <1>9, <1>10

\* Steps that leave the database as it is.
LEMMA QuietAlone ==
    ASSUME OneAtATime, Types, Alone, NEW r \in Requests,
           \/ \E c \in Clients : Register(r, c)
           \/ \E k \in Prepared, id \in Ids : Prepare(r, k, id)
           \/ Remember(r) \/ CheckDuplicate(r) \/ DatabaseFails(r) \/ Discover(r)
           \/ DiscoverFails(r) \/ (\E d \in Luns : NextDisk(r, d))
           \/ LookUp(r) \/ PutList(r) \/ AddFileUnseen(r)
    PROVE  Alone'
<1>1. UNCHANGED database
  BY DEF Register, Prepare, Remember, CheckDuplicate, DatabaseFails, Discover,
         DiscoverFails, NextDisk, LookUp, PutList, AddFileUnseen
<1>2. CASE Return(r)
  BY <1>1, <1>2, IdleAlone, DatabaseStays
<1>3. /\ OwnObject(r) /\ OwnFolder(r) /\ OnlyEntry(r)
      /\ pc \in [Requests -> Labels] /\ object \in [Requests -> Entries]
      /\ client \in [Requests -> Clients \cup {None}]
      /\ computer \in [Requests -> Computers \cup {None}]
  BY DEF Alone, Types, Base
<1>4. \A i, g : Matches(i, g)' = Matches(i, g)
  BY <1>1 DEF Matches, database
<1>5. ASSUME UNCHANGED <<client, computer, object>>,
             \/ pc[r] \in Working /\ pc'[r] \in Working
             \/ pc[r] \in Working /\ pc'[r] = pc[r]
             \/ pc'[r] \in {"remember", "find"}
             \/ pc[r] = "check" /\ pc'[r] = "create" /\ computer[r] \notin folders,
             pc'[r] \in {"lookup", "put", "add"} => pc[r] \in {"lookup", "put", "add"}
      PROVE  Alone'
  <2>1. OwnObject(r)'
    BY <1>3, <1>5 DEF OwnObject, Working
  <2>2. OwnFolder(r)'
    BY <1>1, <1>3, <1>5 DEF OwnFolder, Working, database
  <2>3. OnlyEntry(r)'
    BY <1>3, <1>4, <1>5 DEF OnlyEntry, Working
  <2> QED
    BY <1>1, <2>1, <2>2, <2>3, DatabaseStays
<1>6. ASSUME NEW c \in Clients, Register(r, c) PROVE Alone'
  <2>1. pc'[r] = "remember"
    BY <1>3, <1>6 DEF Register, Goto
  <2> QED
    BY <1>1, <2>1, DatabaseStays DEF OwnObject, OwnFolder, OnlyEntry, Working
<1>7. ASSUME NEW k \in Prepared, NEW id \in Ids, Prepare(r, k, id) PROVE Alone'
  <2>1. /\ pc'[r] = "check" /\ client'[r] = None
        /\ object'[r].hardwareId = NoHardware
    BY <1>3, <1>7 DEF Prepare, Goto, OwnObject, NewEntry
  <2> QED
    BY <1>1, <2>1, DatabaseStays DEF OwnObject, OwnFolder, OnlyEntry, Working
<1>8. CASE Remember(r)
  <2>1. CASE Goto(r, "remember", "find") /\ UNCHANGED locals
    BY <1>3, <1>5, <2>1 DEF Goto, locals
  <2> QED
    BY <1>2, <1>8, <2>1 DEF Remember
<1>9. CASE CheckDuplicate(r)
  <2>1. CASE /\ computer[r] \notin folders /\ Goto(r, "check", "create")
             /\ UNCHANGED locals
    BY <1>3, <1>5, <2>1 DEF Goto, locals
  <2> QED
    BY <1>2, <1>9, <2>1 DEF CheckDuplicate
<1>10. CASE Discover(r) \/ LookUp(r) \/ PutList(r)
  <2>1. /\ client' = client /\ computer' = computer /\ object' = object
        /\ pc[r] \in Working /\ pc'[r] \in Working
        /\ pc'[r] \in {"lookup", "put", "add"} => pc[r] \in {"lookup", "put", "add"}
    BY <1>3, <1>10 DEF Discover, LookUp, PutList, Goto, Working
  <2> QED
    BY <1>5, <2>1
<1>11. ASSUME NEW d \in Luns, NextDisk(r, d) PROVE Alone'
  <2>1. /\ client' = client /\ computer' = computer
        /\ pc[r] = "disk" /\ pc'[r] = "truncate"
    BY <1>3, <1>11 DEF NextDisk, Goto
  <2>2. /\ object'[r].clientId = object[r].clientId
        /\ object'[r].hardwareId = object[r].hardwareId
    BY <1>3, <1>11 DEF NextDisk, Entries
  <2>3. OwnObject(r)'
    BY <1>3, <2>1, <2>2 DEF OwnObject, Working
  <2>4. OwnFolder(r)'
    BY <1>1, <1>3, <2>1, <2>2 DEF OwnFolder, Working, database
  <2>5. OnlyEntry(r)'
    BY <1>3, <1>4, <2>1 DEF OnlyEntry, Working
  <2> QED
    BY <1>1, <2>3, <2>4, <2>5, DatabaseStays
<1>12. CASE AddFileUnseen(r)
  <2>1. CASE /\ Goto(r, "add", "disk")
             /\ UNCHANGED <<client, computer, object, disk, list>>
    <3>1. /\ UNCHANGED <<client, computer, object>>
          /\ pc[r] \in Working /\ pc'[r] = "disk" /\ "disk" \in Working
      BY <1>3, <2>1 DEF Goto, Working
    <3> QED
      BY <1>5, <3>1
  <2> QED
    BY <1>2, <1>12, <2>1 DEF AddFileUnseen, Added
<1> QED
  BY <1>2, <1>6, <1>7, <1>8, <1>9, <1>10, <1>11, <1>12 DEF DatabaseFails, DiscoverFails

LEMMA MakeDirectoryAlone ==
    ASSUME OneAtATime, Types, Alone, NEW r \in Requests, MakeDirectory(r)
    PROVE  Alone'
<1>1. /\ pc[r] = "create" /\ pc'[r] = "truncate" /\ computer[r] \in Computers
      /\ UNCHANGED <<client, computer, object, entry, evidence>>
      /\ folders' = folders \cup {computer[r]}
  BY DEF MakeDirectory, Goto, locals, Types, Base, Equipped
<1>2. OwnObject(r) /\ OwnFolder(r) /\ OnlyEntry(r)
  BY DEF Alone
<1>3. evidence[computer[r]] = {}
  BY <1>1, <1>2 DEF Alone, Agree, OwnFolder
<1>4. Agree'
  BY <1>1 DEF Alone, Agree
<1>5. \A i, g : Matches(i, g)' = Matches(i, g)
  BY <1>1 DEF Matches
<1>6. OneEntry'
  BY <1>5 DEF Alone, OneEntry
<1>7. OwnObject(r)'
  BY <1>1, <1>2 DEF OwnObject, Working
<1>8. OwnFolder(r)'
  BY <1>1, <1>3 DEF OwnFolder
<1>9. OnlyEntry(r)'
  BY <1>1, <1>2, <1>5 DEF OnlyEntry, Working
<1> QED
  BY <1>4, <1>6, <1>7, <1>8, <1>9 DEF Alone, OneAtATime

LEMMA TruncateAlone ==
    ASSUME OneAtATime, Types, Alone, NEW r \in Requests, Truncate(r)
    PROVE  Alone'
<1>1. /\ pc[r] = "truncate" /\ pc'[r] = "write" /\ computer[r] \in Computers
      /\ UNCHANGED <<client, computer, object, folders, evidence>>
      /\ entry \in [Computers -> Entries \cup {Unreadable}]
      /\ entry' = [entry EXCEPT ![computer[r]] = Unreadable]
  BY DEF Truncate, Goto, locals, Types, Base, Equipped
<1>2. OwnObject(r) /\ OwnFolder(r) /\ OnlyEntry(r)
  BY DEF Alone
<1>3. Agree'
  BY <1>1 DEF Alone, Agree
<1>4. \A i, g : Matches(i, g)' \subseteq Matches(i, g)
  BY <1>1 DEF Matches
<1>5. OneEntry'
  BY <1>4 DEF Alone, OneEntry
<1>6. OwnObject(r)'
  BY <1>1, <1>2 DEF OwnObject, Working
<1>7. OwnFolder(r)'
  BY <1>1, <1>2 DEF OwnFolder, Working
<1>8. OnlyEntry(r)'
  BY <1>1, <1>2, <1>4 DEF OnlyEntry, Working
<1> QED
  BY <1>3, <1>5, <1>6, <1>7, <1>8 DEF Alone, OneAtATime

LEMMA WriteEntryAlone ==
    ASSUME OneAtATime, Types, Alone, NEW r \in Requests, WriteEntry(r)
    PROVE  Alone'
<1>1. /\ pc[r] = "write" /\ computer[r] \in Computers /\ object[r] \in Entries
      /\ UNCHANGED <<folders, evidence>>
      /\ entry \in [Computers -> Entries \cup {Unreadable}]
      /\ entry' = [entry EXCEPT ![computer[r]] = object[r]]
  BY DEF WriteEntry, Types, Base, Equipped
<1>2. OwnObject(r) /\ OwnFolder(r) /\ OnlyEntry(r)
  BY DEF Alone
<1>3. Agree'
  BY <1>1, <1>2 DEF Alone, Agree, OwnFolder, Working
<1>4. ASSUME NEW i, NEW g, NEW k \in Matches(i, g)'
      PROVE  \/ k \in Matches(i, g)
             \/ /\ k = computer[r]
                /\ i = object[r].clientId /\ g = object[r].hardwareId
  <2>1. k \in Computers /\ entry'[k] # Unreadable
        /\ entry'[k].clientId = i /\ entry'[k].hardwareId = g
    BY DEF Matches
  <2>2. CASE k = computer[r]
    BY <1>1, <2>1, <2>2
  <2>3. CASE k # computer[r]
    <3>1. entry'[k] = entry[k]
      BY <1>1, <2>1, <2>3
    <3>2. /\ k \in Computers /\ entry[k] # Unreadable
          /\ entry[k].clientId = i /\ entry[k].hardwareId = g
      BY <2>1, <3>1
    <3>3. k \in Matches(i, g)
      BY <3>2 DEF Matches
    <3> QED
      BY <3>3
  <2> QED
    BY <2>2, <2>3
<1>5. OneEntry'
  <2> SUFFICES ASSUME NEW i \in Ids, NEW g \in Hardware,
                      NEW k \in Matches(i, g)', NEW l \in Matches(i, g)'
               PROVE  k = l
    BY DEF OneEntry
  <2>1. CASE k \in Matches(i, g) /\ l \in Matches(i, g)
    BY <2>1 DEF Alone, OneEntry
  <2>2. CASE ~(k \in Matches(i, g) /\ l \in Matches(i, g))
    <3>1. i = object[r].clientId /\ g = object[r].hardwareId
      BY <1>4, <2>2
    <3>2. client[r] # None
      BY <1>1, <1>2, <3>1, RegistrationAssumption DEF OwnObject, Working
    <3>3. i = ClientId[client[r]] /\ g = HardwareId[client[r]]
      BY <1>1, <1>2, <3>1, <3>2 DEF OwnObject, Working
    <3>4. \A m \in Matches(i, g) : m = computer[r]
      BY <1>1, <1>2, <3>2, <3>3 DEF OnlyEntry, Working
    <3> QED
      BY <1>4, <3>4
  <2> QED
    BY <2>1, <2>2
<1>6. OwnObject(r)' /\ OwnFolder(r)' /\ OnlyEntry(r)'
  <2>1. CASE Return(r)
    BY <2>1, IdleAlone
  <2>2. CASE client[r] # None /\ UNCHANGED locals
             /\ Goto(r, "write", IF disk[r] = None THEN "discover" ELSE "lookup")
    <3>1. /\ UNCHANGED <<client, computer, object>>
          /\ pc'[r] \in {"discover", "lookup"}
      BY <2>2 DEF Goto, locals, Types, Base
    <3>2. OwnObject(r)'
      BY <1>1, <1>2, <2>2, <3>1 DEF OwnObject, Working
    <3>3. OwnFolder(r)'
      BY <1>1, <1>2, <3>1 DEF OwnFolder, Working
    <3>4. OnlyEntry(r)'
      <4>1. \A k \in Matches(ClientId[client[r]], HardwareId[client[r]]) : k = computer[r]
        BY <1>1, <1>2, <2>2 DEF OnlyEntry, Working
      <4>2. \A k \in Matches(ClientId[client[r]], HardwareId[client[r]])' : k = computer[r]
        BY <1>4, <3>1, <4>1
      <4> QED
        BY <3>1, <4>2 DEF OnlyEntry
    <3> QED
      BY <3>2, <3>3, <3>4
  <2> QED
    BY <2>1, <2>2 DEF WriteEntry
<1> QED
  BY <1>3, <1>5, <1>6 DEF Alone, OneAtATime

LEMMA AddFileAlone ==
    ASSUME OneAtATime, Types, Alone, NEW r \in Requests, AddFile(r)
    PROVE  Alone'
<1>1. /\ pc[r] = "add" /\ computer[r] \in Computers /\ client[r] \in Clients
      /\ client[r] # None /\ evidence \in [Computers -> SUBSET Hardware]
      /\ UNCHANGED <<folders, entry>>
      /\ evidence' = [evidence EXCEPT ![computer[r]] = @ \cup {HardwareId[client[r]]}]
  BY RegistrationAssumption DEF AddFile, Publish, Types, Base, Equipped
<1>2. OwnObject(r) /\ OwnFolder(r) /\ OnlyEntry(r)
  BY DEF Alone
<1>3. /\ object[r].hardwareId = HardwareId[client[r]]
      /\ computer[r] \in folders /\ entry[computer[r]] = object[r]
      /\ \A h \in evidence[computer[r]] : h = HardwareId[client[r]]
  BY <1>1, <1>2 DEF OwnObject, OwnFolder, Working
<1>4. Agree'
  BY <1>1, <1>3 DEF Alone, Agree
<1>5. \A i, g : Matches(i, g)' = Matches(i, g)
  BY <1>1 DEF Matches
<1>6. OneEntry'
  BY <1>5 DEF Alone, OneEntry
<1>7. OwnObject(r)' /\ OwnFolder(r)' /\ OnlyEntry(r)'
  <2>1. CASE Return(r)
    BY <2>1, IdleAlone
  <2>2. CASE Goto(r, "add", "disk") /\ UNCHANGED <<client, computer, object, disk, list>>
    <3>1. UNCHANGED <<client, computer, object>> /\ pc'[r] = "disk"
      BY <2>2 DEF Goto, Types, Base
    <3>2. OwnObject(r)'
      BY <1>1, <1>2, <3>1 DEF OwnObject, Working
    <3>3. OwnFolder(r)'
      BY <1>1, <1>3, <3>1 DEF OwnFolder, Working
    <3>4. OnlyEntry(r)'
      BY <1>1, <1>2, <1>5, <3>1 DEF OnlyEntry, Working
    <3> QED
      BY <3>2, <3>3, <3>4
  <2> QED
    BY <2>1, <2>2 DEF AddFile, Added
<1> QED
  BY <1>4, <1>6, <1>7 DEF Alone, OneAtATime

\* Nothing is lost to another request.
LEMMA NoRace ==
    ASSUME OneAtATime, NEW r \in Requests
    PROVE  ~PutListLoses(r) /\ ~AddFileLoses(r)
  BY DEF OneAtATime, PutListLoses, AddFileLoses

LEMMA NextAlone == OneAtATime /\ Types /\ Alone /\ [Next]_vars => Alone'
<1> SUFFICES ASSUME OneAtATime, Types, Alone, [Next]_vars PROVE Alone'
  OBVIOUS
<1>1. CASE UNCHANGED vars
  BY <1>1 DEF vars, database, locals, Alone, Agree, OneEntry, Matches, OwnObject,
              OwnFolder, OnlyEntry
<1>2. CASE Crash
  <2>1. Agree' /\ OneEntry'
    BY <1>2 DEF Crash, Alone, Agree, OneEntry, Matches, database
  <2>2. \A r \in Requests : OwnObject(r)' /\ OwnFolder(r)' /\ OnlyEntry(r)'
    BY <1>2 DEF Crash, End, OwnObject, OwnFolder, OnlyEntry, Working
  <2> QED
    BY <2>1, <2>2 DEF Alone
<1>3. ASSUME NEW r \in Requests, Step(r) PROVE Alone'
  BY <1>3, FindAlone, QuietAlone, MakeDirectoryAlone, TruncateAlone,
     WriteEntryAlone, AddFileAlone, NoRace DEF Step
<1>4. ASSUME NEW r \in Requests, NEW c \in Clients, Ignore(r, c) PROVE UNCHANGED vars
  BY <1>4 DEF Ignore
<1> QED
  BY <1>1, <1>2, <1>3, <1>4, QuietAlone DEF Next, Request

LEMMA AlwaysAlone == OneAtATime => (Spec => [](Types /\ Alone))
<1> SUFFICES ASSUME OneAtATime PROVE Spec => [](Types /\ Alone)
  OBVIOUS
<1>1. Init => Types /\ Alone
  BY InitTypes, InitAlone
<1>2. Types /\ Alone /\ [Next]_vars => (Types /\ Alone)'
  BY NextTypes, NextAlone
<1> QED
  BY <1>1, <1>2, PTL DEF Spec

\* A set without two different elements has at most one.
LEMMA AtMostOne ==
    ASSUME NEW S, \A a, b \in S : a = b
    PROVE  Cardinality(S) <= 1
<1>1. CASE S = {}
  BY <1>1, FS_EmptySet
<1>2. CASE S # {}
  <2>1. PICK a \in S : TRUE
    BY <1>2
  <2>2. S = {a}
    BY <2>1
  <2>3. Cardinality({a}) = 1
    BY FS_Singleton
  <2> QED
    BY <2>2, <2>3
<1> QED
  BY <1>1, <1>2

(***************************************************************************)
(* When requests are handled one at a time, the evidence of two machines   *)
(* never goes to one folder, whatever fails, crashes and was prepared.     *)
(***************************************************************************)
THEOREM OneMachineInFolder == OneAtATime => (Spec => []EvidenceOfOneMachine)
<1> SUFFICES ASSUME OneAtATime PROVE Spec => []EvidenceOfOneMachine
  OBVIOUS
<1>1. ASSUME Alone, NEW k \in Computers PROVE Cardinality(evidence[k]) <= 1
  <2>1. \A g, h \in evidence[k] : g = h
    BY <1>1 DEF Alone, Agree
  <2> QED
    BY <2>1, AtMostOne
<1>2. Alone => EvidenceOfOneMachine
  BY <1>1 DEF EvidenceOfOneMachine
<1> QED
  BY <1>2, AlwaysAlone, PTL

(***************************************************************************)
(* When requests are handled one at a time, a machine has at most one      *)
(* readable entry, whatever fails, crashes and was prepared.               *)
(***************************************************************************)
THEOREM OneEntryOfMachine == OneAtATime => (Spec => []OneComputerPerMachine)
<1> SUFFICES ASSUME OneAtATime PROVE Spec => []OneComputerPerMachine
  OBVIOUS
<1>1. ASSUME Alone, NEW id \in Ids, NEW h \in Hardware
      PROVE  Cardinality(Matches(id, h)) <= 1
  <2>1. \A k, l \in Matches(id, h) : k = l
    BY <1>1 DEF Alone, OneEntry
  <2> QED
    BY <2>1, AtMostOne
<1>2. Alone => OneComputerPerMachine
  BY <1>1 DEF OneComputerPerMachine
<1> QED
  BY <1>2, AlwaysAlone, PTL

-----------------------------------------------------------------------------
(* The file lists, one request at a time. *)

\* A folder gets its list once.
OneList ==
    /\ \A k \in Computers : Len(lists[k]) <= 1
    /\ \A r \in Requests : pc[r] = "put" => lists[computer[r]] = <<>>

PathsStay ==
    \A k \in Computers, id \in Ids, d \in Luns :
        Found(k, id, d) # None => Found(k, id, d)' = Found(k, id, d)

LEMMA InitOneList == Init => OneList
  BY DEF Init, NoLists, OneList

\* A new list for a folder that had none.
LEMMA PutListKeeps ==
    ASSUME OneAtATime, Types, OneList, NEW r \in Requests, PutList(r)
    PROVE  OneList' /\ PathsStay
<1>1. /\ computer[r] \in Computers /\ lists[computer[r]] = <<>>
      /\ lists \in [Computers -> Seq(Files)]
  BY DEF PutList, Goto, Types, Equipped, OneList
<1>2. PICK l : l = Append(lists[computer[r]], NoFiles)
  OBVIOUS
<1>3. Len(l) = 1
  <2>1. lists[computer[r]] \in Seq(Files) /\ Len(lists[computer[r]]) = 0
    BY <1>1, EmptySeq
  <2> QED
    BY <1>2, <2>1, AppendProperties, NoFilesAreFiles
<1>4. /\ lists'[computer[r]] = l
      /\ \A k \in Computers \ {computer[r]} : lists'[k] = lists[k]
  BY <1>1, <1>2 DEF PutList
<1>5. pc'[r] = "add"
  BY DEF PutList, Goto, Types, Base
<1>6. ASSUME NEW k \in Computers PROVE Len(lists'[k]) <= 1
  <2>1. CASE k = computer[r]
    <3>1. lists'[k] = l
      BY <1>4, <2>1
    <3>2. Len(lists'[k]) = 1
      BY <1>3, <3>1, Zenon
    <3> QED
      BY <3>2
  <2>2. CASE k # computer[r]
    <3>1. lists'[k] = lists[k] /\ Len(lists[k]) <= 1
      BY <1>4, <2>2 DEF OneList
    <3> QED
      BY <3>1
  <2> QED
    BY <2>1, <2>2
<1>7. OneList'
  BY <1>5, <1>6 DEF OneList, OneAtATime
<1>8. ASSUME NEW k \in Computers, NEW id \in Ids, NEW d \in Luns,
             Found(k, id, d) # None
      PROVE  Found(k, id, d)' = Found(k, id, d)
  <2>1. CASE k = computer[r]
    <3>1. Published(k)[<<id, d>>] = <<>>
      BY <1>1, <2>1 DEF Published, NoFiles
    <3> QED
      BY <1>8, <3>1 DEF Found
  <2>2. CASE k # computer[r]
    BY <1>4, <2>2 DEF Found, Published
  <2> QED
    BY <2>1, <2>2
<1> QED
  BY <1>7, <1>8 DEF PathsStay

\* A file in the one list of its folder.
LEMMA AddFileKeeps ==
    ASSUME OneAtATime, Types, OneList, NEW r \in Requests, AddFile(r)
    PROVE  OneList' /\ PathsStay
<1>1. /\ client[r] \in Clients /\ computer[r] \in Computers /\ disk[r] \in Luns
      /\ lists \in [Computers -> Seq(Files)]
      /\ list[r] \in 0 .. Len(lists[computer[r]]) /\ list[r] # 0
  BY DEF AddFile, Types, Equipped
<1>2. PICK files : files = lists[computer[r]][1]
  OBVIOUS
<1>3. /\ list[r] = 1 /\ Len(lists[computer[r]]) = 1 /\ files \in Files
      /\ lists[computer[r]] # <<>>
  <2>1. Len(lists[computer[r]]) \in Nat /\ Len(lists[computer[r]]) <= 1
    BY <1>1, LenProperties DEF OneList
  <2> DEFINE n == Len(lists[computer[r]])
  <2>2. list[r] = 1 /\ n = 1
    <3>1. n \in Nat /\ n <= 1 /\ list[r] \in 0 .. n /\ list[r] # 0
      BY <1>1, <2>1
    <3> HIDE DEF n
    <3> QED
      BY <3>1
  <2>3. lists[computer[r]][1] \in Files
    BY <1>1, <2>2, ElementOfSeq
  <2>4. lists[computer[r]] # <<>>
    <3>1. lists[computer[r]] \in Seq(Files)
      BY <1>1
    <3>2. lists[computer[r]] = <<>> => n = 0
      BY <3>1, EmptySeq, Zenon
    <3> QED
      BY <2>2, <3>2
  <2> QED
    BY <1>2, <2>2, <2>3, <2>4
<1>4. PICK after : after = WithFile(files, client[r], disk[r])
  OBVIOUS
<1>5. /\ after \in Files
      /\ \A name \in Ids \X Luns :
            files[name] # <<>> => after[name] # <<>> /\ Head(after[name]) = Head(files[name])
  BY <1>1, <1>3, <1>4, FileAdded
<1>6. PICK l : l = [lists[computer[r]] EXCEPT ![1] = after]
  OBVIOUS
<1>7. l \in Seq(Files) /\ Len(l) = 1 /\ l[1] = after /\ l # <<>>
  <2>1. 1 \in 1 .. Len(lists[computer[r]])
    BY <1>3
  <2>2. l \in Seq(Files) /\ Len(l) = Len(lists[computer[r]]) /\ l[1] = after
    BY <1>1, <1>5, <1>6, <2>1, ExceptSeq
  <2> QED
    BY <1>3, <2>2, EmptySeq
<1>8. lists' = [lists EXCEPT ![computer[r]] = l]
  BY <1>1, <1>2, <1>3, <1>4, <1>6 DEF AddFile, Publish
<1>9. lists'[computer[r]] = l /\ \A k \in Computers \ {computer[r]} : lists'[k] = lists[k]
  BY <1>1, <1>8
<1>10. pc'[r] # "put"
  BY DEF AddFile, Added, Return, End, Goto, Types, Base
<1>11. ASSUME NEW k \in Computers PROVE Len(lists'[k]) <= 1
  <2>1. CASE k = computer[r]
    <3>1. lists'[k] = l
      BY <1>9, <2>1
    <3>2. Len(lists'[k]) = 1
      BY <1>7, <3>1, Zenon
    <3> QED
      BY <3>2
  <2>2. CASE k # computer[r]
    <3>1. lists'[k] = lists[k] /\ Len(lists[k]) <= 1
      BY <1>9, <2>2 DEF OneList
    <3> QED
      BY <3>1
  <2> QED
    BY <2>1, <2>2
<1>12. OneList'
  BY <1>10, <1>11 DEF OneList, OneAtATime
<1>13. ASSUME NEW k \in Computers, NEW id \in Ids, NEW d \in Luns,
              Found(k, id, d) # None
       PROVE  Found(k, id, d)' = Found(k, id, d)
  <2>1. CASE k = computer[r]
    <3>1. Published(k) = files /\ Published(k)' = after
      BY <1>2, <1>3, <1>7, <1>9, <2>1 DEF Published
    <3>2. <<id, d>> \in Ids \X Luns
      OBVIOUS
    <3>3. files[<<id, d>>] # <<>> /\ Found(k, id, d) = Head(files[<<id, d>>])
      BY <1>13, <3>1 DEF Found
    <3>4. after[<<id, d>>] # <<>> /\ Head(after[<<id, d>>]) = Head(files[<<id, d>>])
      BY <1>5, <3>2, <3>3
    <3>5. Found(k, id, d)' = Head(after[<<id, d>>])
      BY <3>1, <3>4 DEF Found
    <3> QED
      BY <3>3, <3>4, <3>5
  <2>2. CASE k # computer[r]
    BY <1>9, <2>2 DEF Found, Published
  <2> QED
    BY <2>1, <2>2
<1> QED
  BY <1>12, <1>13 DEF PathsStay

\* Other steps leave the lists alone.
LEMMA ListsKept ==
    ASSUME OneList, lists' = lists,
           \A q \in Requests : pc'[q] = "put" => lists[computer'[q]] = <<>>
    PROVE  OneList' /\ PathsStay
  BY DEF OneList, PathsStay, Found, Published

LEMMA OtherStepsKeep ==
    ASSUME OneAtATime, Types, OneList, NEW r \in Requests,
           Step(r), ~PutList(r), ~AddFile(r)
    PROVE  OneList' /\ PathsStay
<1>1. CASE LookUp(r)
  <2>1. lists' = lists /\ pc'[r] = "put" => lists[computer'[r]] = <<>>
    BY <1>1 DEF LookUp, Goto, Types, Base
  <2>2. lists' = lists
    BY <1>1 DEF LookUp
  <2> QED
    BY <2>1, <2>2, ListsKept DEF OneAtATime
<1>2. ~PutListLoses(r) /\ ~AddFileLoses(r)
  BY NoRace
<1>3. CASE ~LookUp(r)
  <2>1. lists' = lists
    BY <1>2, <1>3 DEF Step, Remember, FindMachine, FindPrepared, CheckDuplicate,
                MakeDirectory, Truncate, WriteEntry, DatabaseFails, Discover,
                DiscoverFails, NextDisk, AddFileUnseen
  <2>2. pc'[r] # "put"
    BY <1>2, <1>3 DEF Step, Remember, FindMachine, FindPrepared, CheckDuplicate,
                MakeDirectory, Truncate, WriteEntry, DatabaseFails, Discover,
                DiscoverFails, NextDisk, AddFileUnseen, Added, Return, End, Goto, Types, Base
  <2> QED
    BY <2>1, <2>2, ListsKept DEF OneAtATime
<1> QED
  BY <1>1, <1>3

LEMMA NextOneList ==
    OneAtATime /\ Types /\ OneList /\ [Next]_vars => OneList' /\ [Crash \/ PathsStay]_vars
<1> SUFFICES ASSUME OneAtATime, Types, OneList, [Next]_vars
             PROVE  OneList' /\ [Crash \/ PathsStay]_vars
  OBVIOUS
<1>1. CASE UNCHANGED vars
  BY <1>1 DEF vars, locals, OneList
<1>2. CASE Crash
  BY <1>2, EmptySeq DEF Crash, End, NoLists, OneList
<1>3. ASSUME NEW r \in Requests, Step(r) PROVE OneList' /\ PathsStay
  BY <1>3, PutListKeeps, AddFileKeeps, OtherStepsKeep
<1>4. ASSUME NEW r \in Requests, NEW c \in Clients, Register(r, c)
      PROVE  OneList' /\ PathsStay
  <2>1. lists' = lists /\ pc'[r] = "remember"
    BY <1>4 DEF Register, Goto, Types, Base
  <2> QED
    BY <2>1, ListsKept DEF OneAtATime
<1>5. ASSUME NEW r \in Requests, NEW k \in Prepared, NEW id \in Ids, Prepare(r, k, id)
      PROVE  OneList' /\ PathsStay
  <2>1. lists' = lists /\ pc'[r] = "check"
    BY <1>5 DEF Prepare, Goto, Types, Base
  <2> QED
    BY <2>1, ListsKept DEF OneAtATime
<1>6. ASSUME NEW r \in Requests, NEW c \in Clients, Ignore(r, c) PROVE UNCHANGED vars
  BY <1>6 DEF Ignore
<1> QED
  BY <1>1, <1>2, <1>3, <1>4, <1>5, <1>6 DEF Next, Request

(***************************************************************************)
(* When requests are handled one at a time, a path leads to the same       *)
(* machine at the same address until the server stops, for any number of   *)
(* disks, folders and machines.                                            *)
(***************************************************************************)
THEOREM PathsKept == OneAtATime => (Spec => PathsKeepTheirDevice)
<1> SUFFICES ASSUME OneAtATime PROVE Spec => PathsKeepTheirDevice
  OBVIOUS
<1>1. Types /\ OneList /\ [Next]_vars => OneList'
  BY NextOneList
<1>2. Types /\ OneList /\ [Next]_vars => [Crash \/ PathsStay]_vars
  BY NextOneList
<1>3. [Crash \/ PathsStay]_vars =>
        [Crash \/ \A k \in Computers, id \in Ids, d \in Luns :
            Found(k, id, d) # None => Found(k, id, d)' = Found(k, id, d)]_vars
  BY DEF PathsStay
<1> QED
  BY <1>1, <1>2, <1>3, InitOneList, AlwaysTypes, PTL DEF Spec, PathsKeepTheirDevice


-----------------------------------------------------------------------------
(***************************************************************************)
(* Nothing prepared.  When investigators prepare no computers, requests on *)
(* any number of threads keep machines apart: a computer is named by the   *)
(* ids of its machine, so two requests meet in a folder only when they     *)
(* work for the same machine.                                              *)
(***************************************************************************)
NothingPrepared == Prepared = {}

\* An entry that can be read has the ids its computer is named by.
EntriesApart ==
    \A k \in Computers : entry[k] # Unreadable =>
        k = <<entry[k].clientId, entry[k].hardwareId>>

\* So has the evidence the hardware id.
EvidenceApart == \A k \in Computers : \A h \in evidence[k] : k[2] = h

\* A request that is past its search works on the computer of its client.
WorksOnOwn(r) ==
    pc[r] \in Working \cup {"check", "create"} =>
        /\ client[r] \in Clients
        /\ computer[r] = Automatic(client[r])
        /\ object[r].clientId = ClientId[client[r]]
        /\ object[r].hardwareId = HardwareId[client[r]]

Apart ==
    /\ EntriesApart
    /\ EvidenceApart
    /\ \A r \in Requests : WorksOnOwn(r)

LEMMA InitApart == Init => Apart
  BY DEF Init, Apart, EntriesApart, EvidenceApart, WorksOnOwn, Working

\* The others stay where they are, and what they work on.
OthersWait(r) ==
    \A q \in Requests \ {r} :
        /\ pc'[q] = pc[q] /\ client'[q] = client[q]
        /\ computer'[q] = computer[q] /\ object'[q] = object[q]
        /\ disk'[q] = disk[q] /\ todo'[q] = todo[q] /\ list'[q] = list[q]

LEMMA OthersDoWait ==
    ASSUME Types, NEW r \in Requests, Request(r)
    PROVE  OthersWait(r)
<1> USE DEF OthersWait, Types, Base
<1>1. ASSUME NEW c \in Clients, Register(r, c) PROVE OthersWait(r)
  BY <1>1 DEF Register, Goto
<1>2. ASSUME NEW c \in Clients, Ignore(r, c) PROVE OthersWait(r)
  BY <1>2 DEF Ignore, vars, locals
<1>3. ASSUME NEW k \in Prepared, NEW id \in Ids, Prepare(r, k, id)
      PROVE  OthersWait(r)
  BY <1>3 DEF Prepare, Goto
<1>4. CASE Return(r)
  BY <1>4 DEF Return, End
<1>5. CASE Remember(r)
  BY <1>4, <1>5 DEF Remember, Goto, locals
<1>6. CASE FindMachine(r)
  BY <1>6 DEF FindMachine, Goto
<1>7. CASE FindPrepared(r)
  BY <1>7 DEF FindPrepared, Goto
<1>8. CASE CheckDuplicate(r) \/ WriteEntry(r) \/ DatabaseFails(r) \/ DiscoverFails(r)
  BY <1>4, <1>8 DEF CheckDuplicate, WriteEntry, DatabaseFails, DiscoverFails,
     Goto, locals
<1>9. CASE MakeDirectory(r) \/ Truncate(r)
  BY <1>9 DEF MakeDirectory, Truncate, Goto, locals
<1>10. CASE Discover(r) \/ LookUp(r) \/ PutList(r)
  BY <1>10 DEF Discover, LookUp, PutList, Goto
<1>11. ASSUME NEW d \in Luns, NextDisk(r, d) PROVE OthersWait(r)
  BY <1>11 DEF NextDisk, Goto
<1>12. CASE AddFile(r) \/ AddFileLoses(r) \/ AddFileUnseen(r)
  <2>1. Added(r) \/ Return(r)
    BY <1>12 DEF AddFile, AddFileLoses, AddFileUnseen
  <2> QED
    BY <1>4, <2>1 DEF Added, Goto
<1>13. CASE PutListLoses(r)
  BY <1>13 DEF PutListLoses, Goto
<1> QED
  BY <1>1, <1>2, <1>3, <1>5, <1>6, <1>7, <1>8, <1>9, <1>10, <1>11, <1>12, <1>13
     DEF Request, Step

\* Who returns works on nothing.
LEMMA ReturnedWorksNot ==
    ASSUME NEW r \in Requests, Return(r)
    PROVE  WorksOnOwn(r)'
  BY DEF Return, End, WorksOnOwn, Working

\* There is nothing to claim.
LEMMA NoneToClaim ==
    ASSUME NothingPrepared, Types, EntriesApart, NEW id
    PROVE  Matches(id, NoHardware) = {}
<1>1. ASSUME NEW k \in Matches(id, NoHardware) PROVE FALSE
  <2>1. k \in Computers /\ k = <<id, NoHardware>>
    BY MatchIs DEF EntriesApart
  <2>2. PICK e \in Clients : k = Automatic(e)
    BY <2>1 DEF Computers, NothingPrepared
  <2>3. HardwareId[e] = NoHardware
    BY <2>1, <2>2 DEF Automatic
  <2> QED
    BY <2>3, Facts, RegistrationAssumption
<1> QED
  BY <1>1

LEMMA FindWorksOnOwn ==
    ASSUME NothingPrepared, Types, Apart, NEW r \in Requests,
           FindMachine(r) \/ FindPrepared(r)
    PROVE  WorksOnOwn(r)'
<1> DEFINE c == client[r]
<1>1. c \in Clients /\ client' = client
  BY DEF FindMachine, FindPrepared, Types, Equipped
<1>2. CASE pc'[r] = "findPrepared"
  BY <1>2 DEF WorksOnOwn, Working
<1>3. ASSUME NEW k \in Matches(ClientId[c], HardwareId[c]),
             computer'[r] = k, object'[r] = entry[k]
      PROVE  WorksOnOwn(r)'
  BY <1>1, <1>3, MatchIs DEF Apart, EntriesApart, Automatic, WorksOnOwn
<1>4. CASE FindMachine(r)
  BY <1>2, <1>3, <1>4 DEF FindMachine, Goto, Types, Base
<1>5. Matches(ClientId[c], NoHardware) = {}
  BY NoneToClaim DEF Apart
<1>6. CASE FindPrepared(r)
  <2>1. /\ computer'[r] = Automatic(c)
        /\ object'[r] = NewEntry(ClientId[c], HardwareId[c])
    BY <1>5, <1>6 DEF FindPrepared, Types, Base
  <2> QED
    BY <1>1, <2>1 DEF WorksOnOwn, NewEntry
<1> QED
  BY <1>4, <1>6

LEMMA RequestWorksOnOwn ==
    ASSUME NothingPrepared, Types, Apart, NEW r \in Requests, Request(r)
    PROVE  WorksOnOwn(r)'
<1>0. WorksOnOwn(r)
  BY DEF Apart
<1> USE DEF Types, Base
<1>1. ASSUME NEW c \in Clients, Register(r, c) PROVE WorksOnOwn(r)'
  BY <1>1 DEF Register, Goto, WorksOnOwn, Working
<1>2. ASSUME NEW c \in Clients, Ignore(r, c) PROVE WorksOnOwn(r)'
  BY <1>0, <1>2 DEF Ignore, vars, locals, WorksOnOwn
<1>3. ASSUME NEW k \in Prepared, NEW id \in Ids, Prepare(r, k, id) PROVE FALSE
  BY DEF NothingPrepared
<1>4. CASE Remember(r)
  BY <1>4, ReturnedWorksNot DEF Remember, Goto, WorksOnOwn, Working
<1>5. CASE FindMachine(r) \/ FindPrepared(r)
  BY <1>5, FindWorksOnOwn
<1>6. CASE CheckDuplicate(r)
  BY <1>0, <1>6, ReturnedWorksNot DEF CheckDuplicate, Goto, locals, WorksOnOwn
<1>7. CASE MakeDirectory(r) \/ Truncate(r)
  BY <1>0, <1>7 DEF MakeDirectory, Truncate, Goto, locals, WorksOnOwn, Working
<1>8. CASE WriteEntry(r)
  BY <1>0, <1>8, ReturnedWorksNot DEF WriteEntry, Goto, locals, WorksOnOwn, Working
<1>9. CASE DatabaseFails(r) \/ DiscoverFails(r)
  BY <1>9, ReturnedWorksNot DEF DatabaseFails, DiscoverFails
<1>10. CASE Discover(r) \/ LookUp(r) \/ PutList(r) \/ PutListLoses(r)
  BY <1>0, <1>10 DEF Discover, LookUp, PutList, PutListLoses, Goto, WorksOnOwn, Working
<1>11. ASSUME NEW d \in Luns, NextDisk(r, d) PROVE WorksOnOwn(r)'
  <2>1. /\ object'[r].clientId = object[r].clientId
        /\ object'[r].hardwareId = object[r].hardwareId
    BY <1>11 DEF NextDisk, Entries
  <2> QED
    BY <1>0, <1>11, <2>1 DEF NextDisk, Goto, WorksOnOwn, Working
<1>12. CASE AddFile(r) \/ AddFileLoses(r) \/ AddFileUnseen(r)
  <2>1. Added(r) \/ Return(r)
    BY <1>12 DEF AddFile, AddFileLoses, AddFileUnseen
  <2> QED
    BY <1>0, <2>1, ReturnedWorksNot DEF Added, Goto, WorksOnOwn, Working
<1> QED
  BY <1>1, <1>2, <1>3, <1>4, <1>5, <1>6, <1>7, <1>8, <1>9, <1>10, <1>11,
     <1>12 DEF Request, Step

\* Entries and evidence come from the request that writes them.
LEMMA RequestKeepsApart ==
    ASSUME Types, Apart, NEW r \in Requests, Request(r)
    PROVE  EntriesApart' /\ EvidenceApart'
<1>0. WorksOnOwn(r) /\ EntriesApart /\ EvidenceApart
  BY DEF Apart
<1>1. CASE entry' = entry /\ evidence' = evidence
  BY <1>0, <1>1 DEF EntriesApart, EvidenceApart
<1>2. CASE Truncate(r)
  BY <1>0, <1>2 DEF Truncate, Types, Base, EntriesApart, EvidenceApart
<1>3. CASE WriteEntry(r)
  <2>1. computer[r] = <<object[r].clientId, object[r].hardwareId>>
    BY <1>0, <1>3 DEF WriteEntry, Goto, WorksOnOwn, Working, Automatic
  <2>2. entry' = [entry EXCEPT ![computer[r]] = object[r]] /\ evidence' = evidence
    BY <1>3 DEF WriteEntry
  <2>3. entry \in [Computers -> Entries \cup {Unreadable}]
    BY DEF Types, Base
  <2> QED
    BY <1>0, <2>1, <2>2, <2>3 DEF EntriesApart, EvidenceApart
<1>4. CASE AddFile(r)
  <2>1. computer[r][2] = HardwareId[client[r]]
    BY <1>0, <1>4 DEF AddFile, WorksOnOwn, Working, Automatic
  <2>2. /\ entry' = entry
        /\ evidence' = [evidence EXCEPT ![computer[r]] =
                           evidence[computer[r]] \cup {HardwareId[client[r]]}]
    BY <1>4 DEF AddFile, Publish
  <2>3. evidence \in [Computers -> SUBSET Hardware]
    BY DEF Types, Base
  <2>4. EvidenceApart'
    BY <1>0, <2>1, <2>2, <2>3 DEF EvidenceApart
  <2> QED
    BY <1>0, <2>2, <2>4 DEF EntriesApart
<1>5. CASE ~ (Truncate(r) \/ WriteEntry(r) \/ AddFile(r))
  <2>1. entry' = entry /\ evidence' = evidence
    BY <1>5 DEF Request, Step, Register, Ignore, Prepare, Remember, FindMachine,
       FindPrepared, CheckDuplicate, MakeDirectory, DatabaseFails, Discover,
       DiscoverFails, NextDisk, LookUp, PutList, PutListLoses, AddFileLoses,
       AddFileUnseen, vars, database
  <2> QED
    BY <1>1, <2>1
<1> QED
  BY <1>2, <1>3, <1>4, <1>5

LEMMA NextApart == NothingPrepared /\ Types /\ Apart /\ [Next]_vars => Apart'
<1> SUFFICES ASSUME NothingPrepared, Types, Apart, [Next]_vars PROVE Apart'
  OBVIOUS
<1>1. CASE UNCHANGED vars
  BY <1>1 DEF vars, database, locals, Apart, EntriesApart, EvidenceApart, WorksOnOwn
<1>2. CASE Crash
  BY <1>2 DEF Crash, End, database, Apart, EntriesApart, EvidenceApart,
     WorksOnOwn, Working
<1>3. ASSUME NEW r \in Requests, Request(r) PROVE Apart'
  <2>1. ASSUME NEW q \in Requests, q # r PROVE WorksOnOwn(q)'
    BY <1>3, <2>1, OthersDoWait DEF OthersWait, Apart, WorksOnOwn
  <2> QED
    BY <1>3, <2>1, RequestWorksOnOwn, RequestKeepsApart DEF Apart
<1> QED
  BY <1>1, <1>2, <1>3 DEF Next

LEMMA AlwaysApart == NothingPrepared => (Spec => [](Types /\ Apart))
<1> SUFFICES ASSUME NothingPrepared PROVE Spec => [](Types /\ Apart)
  OBVIOUS
<1>1. Init => Types /\ Apart
  BY InitTypes, InitApart
<1>2. Types /\ Apart /\ [Next]_vars => Types' /\ Apart'
  BY NextTypes, NextApart
<1> QED
  BY <1>1, <1>2, PTL DEF Spec

(***************************************************************************)
(* When no computers are prepared, the evidence of two machines never goes *)
(* to one folder, on any number of threads and whatever fails: two         *)
(* machines can meet in a folder only by claiming the same prepared        *)
(* computer.                                                               *)
(***************************************************************************)
THEOREM MachinesApart == NothingPrepared => (Spec => []EvidenceOfOneMachine)
<1> SUFFICES ASSUME NothingPrepared PROVE Spec => []EvidenceOfOneMachine
  OBVIOUS
<1>1. ASSUME Apart, NEW k \in Computers PROVE Cardinality(evidence[k]) <= 1
  <2>1. \A g, h \in evidence[k] : g = h
    BY <1>1 DEF Apart, EvidenceApart
  <2> QED
    BY <2>1, AtMostOne
<1>2. Apart => EvidenceOfOneMachine
  BY <1>1 DEF EvidenceOfOneMachine
<1> QED
  BY <1>2, AlwaysApart, PTL

(***************************************************************************)
(* When no computers are prepared, a machine has at most one readable      *)
(* entry, on any number of threads and whatever fails.                     *)
(***************************************************************************)
THEOREM EntriesOfOneMachine ==
    NothingPrepared => (Spec => []OneComputerPerMachine)
<1> SUFFICES ASSUME NothingPrepared PROVE Spec => []OneComputerPerMachine
  OBVIOUS
<1>1. ASSUME Types, Apart, NEW id \in Ids, NEW h \in Hardware
      PROVE  Cardinality(Matches(id, h)) <= 1
  <2>1. \A k \in Matches(id, h) : k = <<id, h>>
    BY <1>1, MatchIs DEF Apart, EntriesApart
  <2> QED
    BY <2>1, AtMostOne
<1>2. Types /\ Apart => OneComputerPerMachine
  BY <1>1 DEF OneComputerPerMachine
<1> QED
  BY <1>2, AlwaysApart, PTL

-----------------------------------------------------------------------------
(***************************************************************************)
(* Service, on any number of threads.  Nothing is prepared, nothing fails, *)
(* no two clients have the same ids, and the driver's map and lists have   *)
(* lost nothing.  Then each disk of a client whose folder exists is        *)
(* published, or some request for the client will publish it: a request    *)
(* that gives up at the folder leaves that to the one that made it, one    *)
(* whose list was replaced to the one that replaced it, which has all the  *)
(* disks before it.                                                        *)
(***************************************************************************)
IdsDiffer == \A c, e \in Clients : Automatic(c) = Automatic(e) => c = e

Undisturbed == NothingPrepared /\ IdsDiffer /\ Faults = {}

\* On the way to the folder, and on the way to a file.
Early      == {"find", "findPrepared", "check", "create"}
Publishing == {"truncate", "write", "disk", "lookup", "put", "add"}

\* The request will publish this disk of the client where it can be found.
Late(r, c, d) ==
    /\ client[r] = c
    /\ \/ pc[r] = "discover"
       \/ pc[r] \in {"truncate", "write"} /\ disk[r] = None
       \/ /\ pc[r] \in Publishing
          /\ d \in todo[r]
          /\ pc[r] = "add" /\ disk[r] = d =>
                list[r] = Len(lists[computer[r]])

Served(c, d) == Found(Automatic(c), ClientId[c], d) = c

\* What a request relies on where it is: no disk before its first, a folder
\* for its work, and all disks before it as long as the folder has no list.
AllBefore(r) ==
    lists[computer[r]] = <<>> => todo[r] = Disks[client[r]]

Prompt(r) ==
    /\ pc[r] \in Early \cup {"idle", "remember"} => disk[r] = None
    /\ pc[r] \in Working => computer[r] \in folders
    /\ pc[r] \in {"disk", "lookup"} => AllBefore(r)
    /\ pc[r] \in {"truncate", "write"} /\ disk[r] # None => AllBefore(r)
    /\ pc[r] = "put" => todo[r] = Disks[client[r]]

\* Readable entries are in folders, published files with their computer.
Filed ==
    /\ \A k \in Computers : entry[k] # Unreadable => k \in folders
    /\ \A k \in Computers, name \in Ids \X Luns :
          \A c \in Range(Published(k)[name]) : c \in Clients /\ Automatic(c) = k

\* A client in the list has its folder, or a request on its way there.
Expected ==
    \A c \in clientList :
        \/ Automatic(c) \in folders
        \/ \E r \in Requests : client[r] = c /\ pc[r] \in Early

\* A client with a folder has its disks published, or a request at it.
Attended ==
    \A c \in Clients : Automatic(c) \in folders =>
        \A d \in Disks[c] : Served(c, d) \/ \E r \in Requests : Late(r, c, d)

Service ==
    /\ \A r \in Requests : Prompt(r)
    /\ Filed
    /\ Expected
    /\ Attended

LEMMA InitService == Init => Service
  BY DEF Init, Service, Prompt, AllBefore, Filed, Expected, Attended, Early,
     Working, NoLists, Published, NoFiles, Range

\* A step of one request that adds no folder and touches no list.
Quiet(r) ==
    /\ lists' = lists
    /\ folders' = folders
    /\ \A k \in Computers : entry'[k] # Unreadable => k \in folders
    /\ \A c \in Clients : \A d \in Disks[c] : Late(r, c, d) => Late(r, c, d)'
    /\ \A c \in clientList' :
          c \in clientList \/ (client'[r] = c /\ pc'[r] \in Early)
    /\ pc[r] \in Early => \/ client'[r] = client[r] /\ pc'[r] \in Early
                          \/ Automatic(client[r]) \in folders

LEMMA QuietService ==
    ASSUME Types, Service, NEW r \in Requests, OthersWait(r), Quiet(r),
           Prompt(r)'
    PROVE  Service'
<1> USE DEF Quiet
<1>1. ASSUME NEW q \in Requests, q # r PROVE Prompt(q)'
  BY <1>1 DEF Service, OthersWait, Prompt, AllBefore
<1>2. Filed'
  BY DEF Service, Filed, Published
<1>3. Expected'
  BY DEF Service, OthersWait, Expected
<1>4. ASSUME NEW q \in Requests, NEW c \in Clients, NEW d \in Disks[c],
             Late(q, c, d)
      PROVE  Late(q, c, d)'
  BY <1>4 DEF OthersWait, Late
<1>5. \A c, d : Served(c, d)' = Served(c, d)
  BY DEF Served, Found, Published
<1>6. Attended'
  BY <1>4, <1>5 DEF Service, Attended
<1> QED
  BY <1>1, <1>2, <1>3, <1>6 DEF Service

\* Who returns is neither early nor late.
LEMMA ReturnService ==
    ASSUME Types, Service, NEW r \in Requests, Return(r), OthersWait(r),
           clientList' = clientList, UNCHANGED database, lists' = lists,
           \A c \in Clients : \A d \in Disks[c] : ~ Late(r, c, d),
           pc[r] \in Early => Automatic(client[r]) \in folders
    PROVE  Service'
<1>1. Prompt(r)'
  BY DEF Return, End, Prompt, AllBefore, Early, Working
<1>2. \A k \in Computers : entry'[k] # Unreadable => k \in folders
  BY DEF Service, Filed, database
<1>3. Quiet(r)
  BY <1>1, <1>2 DEF Quiet, database
<1> QED
  BY <1>1, <1>3, QuietService

LEMMA RegisterService ==
    ASSUME Types, Service, NEW r \in Requests, NEW c \in Clients,
           Register(r, c), OthersWait(r)
    PROVE  Service'
<1>1. /\ pc[r] = "idle" /\ pc'[r] = "remember" /\ disk' = disk
      /\ lists' = lists /\ clientList' = clientList
      /\ folders' = folders /\ entry' = entry
  BY DEF Register, Goto, Types, Base, database
<1>2. Prompt(r)'
  BY <1>1 DEF Service, Prompt, Early, Working
<1>3. \A e \in Clients : \A d \in Disks[e] : ~ Late(r, e, d)
  BY <1>1 DEF Late, Publishing
<1>4. pc[r] \notin Early
  BY <1>1 DEF Early
<1>5. \A k \in Computers : entry'[k] # Unreadable => k \in folders
  BY <1>1 DEF Service, Filed
<1>6. Quiet(r)
  BY <1>1, <1>2, <1>3, <1>4, <1>5 DEF Quiet
<1> QED
  BY <1>2, <1>6, QuietService

LEMMA RememberService ==
    ASSUME Types, Service, NEW r \in Requests, Remember(r), OthersWait(r)
    PROVE  Service'
<1>1. pc[r] = "remember" /\ lists' = lists /\ UNCHANGED database
  BY DEF Remember, Goto
<1>2. \A e \in Clients : \A d \in Disks[e] : ~ Late(r, e, d)
  BY <1>1 DEF Late, Publishing
<1>3. pc[r] \notin Early
  BY <1>1 DEF Early
<1>4. CASE Return(r) /\ UNCHANGED clientList
  BY <1>1, <1>2, <1>3, <1>4, ReturnService
<1>5. CASE /\ Goto(r, "remember", "find") /\ UNCHANGED locals
           /\ \/ clientList' = clientList \cup {client[r]}
              \/ UNCHANGED clientList
  <2>1. pc'[r] = "find" /\ disk' = disk /\ client' = client
    BY <1>5 DEF Goto, locals, Types, Base
  <2>2. Prompt(r)'
    BY <1>1, <2>1 DEF Service, Prompt, Early, Working
  <2>3. \A c \in clientList' :
            c \in clientList \/ (client'[r] = c /\ pc'[r] \in Early)
    BY <1>5, <2>1 DEF Early
  <2>4. /\ folders' = folders
        /\ \A k \in Computers : entry'[k] # Unreadable => k \in folders
    BY <1>1 DEF Service, Filed, database
  <2>5. Quiet(r)
    BY <1>1, <1>2, <1>3, <2>2, <2>3, <2>4 DEF Quiet
  <2> QED
    BY <2>2, <2>5, QuietService
<1> QED
  BY <1>4, <1>5 DEF Remember

LEMMA FindService ==
    ASSUME NothingPrepared, Types, Apart, Service, NEW r \in Requests,
           FindMachine(r) \/ FindPrepared(r), OthersWait(r)
    PROVE  Service'
<1>1. /\ pc[r] \in {"find", "findPrepared"} /\ client[r] \in Clients
      /\ client' = client /\ disk' = disk /\ clientList' = clientList
      /\ lists' = lists /\ folders' = folders /\ entry' = entry
  BY DEF FindMachine, FindPrepared, Types, Equipped, database
<1>2. \A e \in Clients : \A d \in Disks[e] : ~ Late(r, e, d)
  BY <1>1 DEF Late, Publishing
<1>3. \A k \in Computers : entry'[k] # Unreadable => k \in folders
  BY <1>1 DEF Service, Filed
<1>4. disk'[r] = None
  BY <1>1 DEF Service, Prompt, Early
<1>5. CASE pc'[r] \in {"findPrepared", "check"}
  <2>1. Prompt(r)'
    BY <1>4, <1>5 DEF Prompt, Early, Working
  <2>2. pc'[r] \in Early
    BY <1>5 DEF Early
  <2>3. Quiet(r)
    BY <1>1, <1>2, <1>3, <2>1, <2>2 DEF Quiet
  <2> QED
    BY <2>1, <2>3, QuietService
<1>6. ASSUME NEW k \in Matches(ClientId[client[r]], HardwareId[client[r]]),
             computer'[r] = k, pc'[r] = "discover"
      PROVE  Service'
  <2>1. k \in folders /\ k = Automatic(client[r])
    BY MatchIs DEF Service, Filed, Apart, EntriesApart, Automatic
  <2>2. Prompt(r)'
    BY <1>1, <1>6, <2>1 DEF Prompt, Early
  <2>3. Quiet(r)
    BY <1>1, <1>2, <1>3, <2>1, <2>2 DEF Quiet
  <2> QED
    BY <2>2, <2>3, QuietService
<1>7. CASE FindMachine(r)
  BY <1>5, <1>6, <1>7 DEF FindMachine, Goto, Types, Base
<1>8. CASE FindPrepared(r)
  <2>1. pc'[r] = "check"
    BY <1>8, NoneToClaim DEF FindPrepared, Goto, Apart, Types, Base
  <2> QED
    BY <1>5, <2>1
<1> QED
  BY <1>7, <1>8

LEMMA CheckDuplicateService ==
    ASSUME Types, Apart, Service, NEW r \in Requests,
           CheckDuplicate(r), OthersWait(r)
    PROVE  Service'
<1>1. /\ pc[r] = "check" /\ clientList' = clientList /\ lists' = lists
      /\ UNCHANGED database /\ folders' = folders
      /\ computer[r] = Automatic(client[r])
  BY DEF CheckDuplicate, database, Apart, WorksOnOwn
<1>2. \A e \in Clients : \A d \in Disks[e] : ~ Late(r, e, d)
  BY <1>1 DEF Late, Publishing
<1>3. CASE Return(r) /\ computer[r] \in folders
  BY <1>1, <1>2, <1>3, ReturnService
<1>4. CASE Goto(r, "check", "create") /\ UNCHANGED locals
  <2>1. pc'[r] = "create" /\ disk' = disk /\ client' = client
    BY <1>4 DEF Goto, locals, Types, Base
  <2>2. Prompt(r)'
    BY <1>1, <2>1 DEF Service, Prompt, Early, Working
  <2>3. \A k \in Computers : entry'[k] # Unreadable => k \in folders
    BY <1>1 DEF Service, Filed, database
  <2>4. pc'[r] \in Early
    BY <2>1 DEF Early
  <2>5. Quiet(r)
    BY <1>1, <1>2, <2>1, <2>2, <2>3, <2>4 DEF Quiet
  <2> QED
    BY <2>2, <2>5, QuietService
<1> QED
  BY <1>3, <1>4 DEF CheckDuplicate

LEMMA MakeDirectoryService ==
    ASSUME IdsDiffer, Types, Apart, Service, NEW r \in Requests,
           MakeDirectory(r), OthersWait(r)
    PROVE  Service'
<1>1. /\ pc[r] = "create" /\ pc'[r] = "truncate" /\ disk'[r] = None
      /\ client' = client /\ client[r] \in Clients /\ computer' = computer
      /\ computer[r] = Automatic(client[r]) /\ clientList' = clientList
      /\ lists' = lists /\ entry' = entry
      /\ folders' = folders \cup {computer[r]}
  BY DEF MakeDirectory, Goto, locals, Types, Base, Apart, WorksOnOwn, Service,
     Prompt, Early
<1>2. ASSUME NEW q \in Requests PROVE Prompt(q)'
  <2>1. CASE q = r
    BY <1>1, <2>1 DEF Prompt, Early, AllBefore
  <2>2. CASE q # r
    BY <1>1, <2>2 DEF Service, OthersWait, Prompt, AllBefore
  <2> QED
    BY <2>1, <2>2
<1>3. Filed'
  BY <1>1 DEF Service, Filed, Published
<1>4. Expected'
  BY <1>1 DEF Service, OthersWait, Expected
<1>5. ASSUME NEW c \in Clients, Automatic(c) \in folders', NEW d \in Disks[c]
      PROVE  Served(c, d)' \/ \E q \in Requests : Late(q, c, d)'
  <2>1. CASE c = client[r]
    BY <1>1, <2>1 DEF Late
  <2>2. CASE c # client[r]
    <3>1. Automatic(c) \in folders
      BY <1>1, <1>5, <2>2 DEF IdsDiffer
    <3>2. Served(c, d)' = Served(c, d)
      BY <1>1 DEF Served, Found, Published
    <3>3. \A q \in Requests : Late(q, c, d) => Late(q, c, d)'
      BY <1>1, <2>2 DEF OthersWait, Late
    <3> QED
      BY <3>1, <3>2, <3>3 DEF Service, Attended
  <2> QED
    BY <2>1, <2>2
<1> QED
  BY <1>2, <1>3, <1>4, <1>5 DEF Service, Attended

LEMMA EntryService ==
    ASSUME Types, Apart, Service, NEW r \in Requests,
           Truncate(r) \/ WriteEntry(r), OthersWait(r)
    PROVE  Service'
<1>1. /\ pc[r] \in {"truncate", "write"} /\ client[r] \in Clients
      /\ client[r] # None /\ computer[r] \in folders
      /\ clientList' = clientList /\ lists' = lists /\ folders' = folders
  BY RegistrationAssumption
     DEF Truncate, WriteEntry, Goto, Apart, WorksOnOwn, Working, Service, Prompt
<1>2. UNCHANGED locals
  BY <1>1 DEF Truncate, WriteEntry
<1>3. pc'[r] = IF pc[r] = "truncate" THEN "write"
               ELSE IF disk[r] = None THEN "discover" ELSE "lookup"
  BY <1>1 DEF Truncate, WriteEntry, Goto, Types, Base
<1>4. \A k \in Computers : entry'[k] # Unreadable => k \in folders
  BY <1>1 DEF Truncate, WriteEntry, Types, Base, Service, Filed
<1>5. Prompt(r)'
  BY <1>1, <1>2, <1>3
     DEF Service, Prompt, AllBefore, Early, Working, locals
<1>6. \A c \in Clients : \A d \in Disks[c] : Late(r, c, d) => Late(r, c, d)'
  BY <1>1, <1>2, <1>3 DEF Late, Publishing, locals
<1>7. pc[r] \notin Early
  BY <1>1 DEF Early
<1>8. Quiet(r)
  BY <1>1, <1>4, <1>5, <1>6, <1>7 DEF Quiet
<1> QED
  BY <1>5, <1>8, QuietService

LEMMA DiscoverService ==
    ASSUME Types, Service, NEW r \in Requests, Discover(r), OthersWait(r)
    PROVE  Service'
<1>1. /\ pc[r] = "discover" /\ pc'[r] = "disk"
      /\ client' = client /\ computer' = computer
      /\ todo'[r] = Disks[client[r]] /\ clientList' = clientList
      /\ lists' = lists /\ folders' = folders /\ entry' = entry
  BY DEF Discover, Goto, Types, Base, database
<1>2. \A k \in Computers : entry'[k] # Unreadable => k \in folders
  BY <1>1 DEF Service, Filed
<1>3. Prompt(r)'
  BY <1>1 DEF Service, Prompt, AllBefore, Early, Working
<1>4. \A c \in Clients : \A d \in Disks[c] : Late(r, c, d) => Late(r, c, d)'
  BY <1>1 DEF Late, Publishing
<1>5. pc[r] \notin Early
  BY <1>1 DEF Early
<1>6. Quiet(r)
  BY <1>1, <1>2, <1>3, <1>4, <1>5 DEF Quiet
<1> QED
  BY <1>3, <1>6, QuietService

LEMMA DiskService ==
    ASSUME Types, Service, NEW r \in Requests,
           LookUp(r) \/ \E d \in Luns : NextDisk(r, d), OthersWait(r)
    PROVE  Service'
<1>1. /\ client' = client /\ computer' = computer /\ todo' = todo
      /\ clientList' = clientList
      /\ lists' = lists /\ folders' = folders /\ entry' = entry
  BY DEF LookUp, NextDisk, database
<1>2. \A k \in Computers : entry'[k] # Unreadable => k \in folders
  BY <1>1 DEF Service, Filed
<1>3. pc[r] \in {"disk", "lookup"}
  BY DEF LookUp, NextDisk, Goto
<1>4. pc[r] \notin Early
  BY <1>3 DEF Early
<1>5. CASE pc[r] = "disk" /\ pc'[r] = "truncate"
  <2>1. Prompt(r)'
    BY <1>1, <1>5 DEF Service, Prompt, AllBefore, Early, Working
  <2>2. \A c \in Clients : \A d \in Disks[c] : Late(r, c, d) => Late(r, c, d)'
    BY <1>1, <1>5 DEF Late, Publishing
  <2>3. Quiet(r)
    BY <1>1, <1>2, <1>4, <2>1, <2>2 DEF Quiet
  <2> QED
    BY <2>1, <2>3, QuietService
<1>6. CASE LookUp(r)
  <2>1. /\ pc[r] = "lookup" /\ list'[r] = Len(lists[computer[r]])
        /\ pc'[r] = IF lists[computer[r]] = <<>> THEN "put" ELSE "add"
    BY <1>6 DEF LookUp, Goto, Types, Base
  <2>2. Prompt(r)'
    BY <1>1, <2>1 DEF Service, Prompt, AllBefore, Early, Working
  <2>3. \A c \in Clients : \A d \in Disks[c] : Late(r, c, d) => Late(r, c, d)'
    BY <1>1, <2>1 DEF Late, Publishing
  <2>4. Quiet(r)
    BY <1>1, <1>2, <1>4, <2>2, <2>3 DEF Quiet
  <2> QED
    BY <2>2, <2>4, QuietService
<1> QED
  BY <1>5, <1>6 DEF NextDisk, Goto, Types, Base

LEMMA PutListService ==
    ASSUME IdsDiffer, Types, Apart, Service, NEW r \in Requests,
           PutList(r), OthersWait(r)
    PROVE  Service'
<1>0. PICK k : k = computer[r]
  OBVIOUS
<1>1. /\ pc[r] = "put" /\ pc'[r] = "add" /\ list'[r] = Len(lists[k]) + 1
      /\ client' = client /\ computer' = computer /\ todo' = todo
      /\ clientList' = clientList /\ folders' = folders /\ entry' = entry
      /\ k \in Computers /\ k = Automatic(client[r]) /\ client[r] \in Clients
      /\ k \in folders /\ todo[r] = Disks[client[r]]
  BY <1>0 DEF PutList, Goto, database, Types, Base, Equipped, Apart, WorksOnOwn,
     Working, Service, Prompt
<1>2. /\ lists' = [lists EXCEPT ![k] = Append(lists[k], NoFiles)]
      /\ lists \in [Computers -> Seq(Files)]
  BY <1>0 DEF PutList, Types
<1>3. /\ Len(lists'[k]) = Len(lists[k]) + 1 /\ lists'[k] # <<>>
      /\ lists'[k][Len(lists'[k])] = NoFiles
      /\ \A m \in Computers \ {k} : lists'[m] = lists[m]
  BY <1>1, <1>2, NoFilesAreFiles, AppendProperties, LenProperties
<1>4. /\ Published(k)' = NoFiles
      /\ \A m \in Computers \ {k} : Published(m)' = Published(m)
  BY <1>3 DEF Published
<1>5. ASSUME NEW q \in Requests PROVE Prompt(q)'
  <2>1. CASE q = r
    BY <1>0, <1>1, <2>1 DEF Prompt, Early, Working
  <2>2. CASE q # r
    <3>1. ASSUME pc[q] \in Working PROVE computer[q] \in Computers
      BY <3>1 DEF Types, Equipped, Working
    <3>2. ASSUME pc[q] \in Working, AllBefore(q) PROVE AllBefore(q)'
      BY <1>1, <1>3, <2>2, <3>1, <3>2 DEF OthersWait, AllBefore
    <3> QED
      BY <1>1, <2>2, <3>2 DEF Service, OthersWait, Prompt, Working
  <2> QED
    BY <2>1, <2>2
<1>6. Filed'
  <2>1. ASSUME NEW m \in Computers, NEW name \in Ids \X Luns,
               NEW c \in Range(Published(m)'[name])
        PROVE  c \in Clients /\ Automatic(c) = m
    <3>1. CASE m = k
      BY <1>4, <2>1, <3>1 DEF NoFiles, Range
    <3>2. CASE m # k
      BY <1>4, <2>1, <3>2 DEF Service, Filed
    <3> QED
      BY <3>1, <3>2
  <2> QED
    BY <1>1, <2>1 DEF Service, Filed
<1>7. Expected'
  BY <1>1 DEF Service, OthersWait, Expected, Early
<1>8. ASSUME NEW c \in Clients, Automatic(c) \in folders, NEW d \in Disks[c]
      PROVE  Served(c, d)' \/ \E q \in Requests : Late(q, c, d)'
  <2>1. CASE c = client[r]
    BY <1>0, <1>1, <1>3, <2>1 DEF Late, Publishing
  <2>2. CASE c # client[r]
    <3>1. Automatic(c) \in Computers \ {k}
      BY <1>1, <2>2, Facts DEF IdsDiffer
    <3>2. Served(c, d)' = Served(c, d)
      BY <1>4, <3>1 DEF Served, Found
    <3>3. ASSUME NEW q \in Requests, Late(q, c, d) PROVE Late(q, c, d)'
      <4>1. q # r
        BY <2>2, <3>3 DEF Late
      <4>2. pc[q] = "add" => computer[q] = Automatic(c)
        BY <3>3 DEF Late, Apart, WorksOnOwn, Working
      <4> QED
        BY <1>1, <1>3, <3>1, <3>3, <4>1, <4>2 DEF OthersWait, Late
    <3> QED
      BY <1>8, <3>2, <3>3 DEF Service, Attended
  <2> QED
    BY <2>1, <2>2
<1> QED
  BY <1>1, <1>5, <1>6, <1>7, <1>8 DEF Service, Attended

LEMMA PublishedFiles ==
    ASSUME Types, NEW k \in Computers
    PROVE  Published(k) \in Files
<1>1. lists[k] \in Seq(Files)
  BY DEF Types
<1>2. ASSUME lists[k] # <<>> PROVE lists[k][Len(lists[k])] \in Files
  <2>1. Len(lists[k]) \in 1 .. Len(lists[k])
    BY <1>1, <1>2, EmptySeq, LenProperties
  <2> QED
    BY <1>1, <2>1, ElementOfSeq
<1> QED
  BY <1>2, NoFilesAreFiles DEF Published

\* A file is published if it is added to the last list of its folder.
LEMMA AddFilePublishes ==
    ASSUME Types, NEW r \in Requests, AddFile(r)
    PROVE  /\ client[r] \in Clients /\ computer[r] \in Computers
           /\ disk[r] \in Luns /\ lists'[computer[r]] # <<>>
           /\ \A k \in Computers :
                 /\ Len(lists'[k]) = Len(lists[k])
                 /\ lists'[k] = <<>> <=> lists[k] = <<>>
                 /\ Published(k)' =
                       IF k = computer[r] /\ list[r] = Len(lists[k])
                       THEN WithFile(Published(k), client[r], disk[r])
                       ELSE Published(k)
<1>0. PICK k : k = computer[r]
  OBVIOUS
<1> DEFINE after == WithFile(lists[k][list[r]], client[r], disk[r])
<1>1. /\ client[r] \in Clients /\ k \in Computers /\ disk[r] \in Luns
      /\ lists \in [Computers -> Seq(Files)]
      /\ list[r] \in 1 .. Len(lists[k])
  <2>1. list[r] \in 0 .. Len(lists[k]) /\ list[r] # 0
    BY <1>0 DEF AddFile, Types, Equipped
  <2> QED
    BY <1>0, <2>1, LenProperties DEF AddFile, Types, Equipped
<1>2. PICK l : l = [lists[k] EXCEPT ![list[r]] = after]
  OBVIOUS
<1>3. lists' = [lists EXCEPT ![k] = l]
  BY <1>0, <1>1, <1>2 DEF AddFile, Publish
<1>4. after \in Files
  BY <1>1, ElementOfSeq, FileAdded
<1> HIDE DEF after
<1>5. lists[k] \in Seq(Files) /\ Len(lists[k]) \in Nat
  BY <1>1, LenProperties
<1>6. /\ l \in Seq(Files) /\ Len(l) = Len(lists[k]) /\ l[list[r]] = after
      /\ \A j \in 1 .. Len(l) : j # list[r] => l[j] = lists[k][j]
  BY <1>1, <1>2, <1>4, <1>5, ExceptSeq
<1>7. l # <<>> /\ lists[k] # <<>>
  BY <1>1, <1>5, <1>6, EmptySeq
<1>8. lists'[k] = l /\ \A m \in Computers \ {k} : lists'[m] = lists[m]
  BY <1>1, <1>3
<1>9. Published(k)' = l[Len(l)] /\ Published(k) = lists[k][Len(lists[k])]
  BY <1>7, <1>8 DEF Published
<1>10. Published(k)' = IF list[r] = Len(lists[k])
                       THEN WithFile(Published(k), client[r], disk[r])
                       ELSE Published(k)
  <2>1. CASE list[r] = Len(lists[k])
    BY <1>6, <1>9, <2>1 DEF after
  <2>2. CASE list[r] # Len(lists[k])
    <3>1. Len(l) \in 1 .. Len(l)
      BY <1>1, <1>5, <1>6
    <3> QED
      BY <1>6, <1>9, <2>2, <3>1
  <2> QED
    BY <2>1, <2>2
<1>11. \A m \in Computers \ {k} : Published(m)' = Published(m)
  BY <1>8 DEF Published
<1> QED
  BY <1>0, <1>1, <1>6, <1>7, <1>8, <1>10, <1>11

\* Where only this client has files of a name, its file is found.
LEMMA FileServed ==
    ASSUME NEW files \in Files, NEW c \in Clients, NEW d \in Luns
    PROVE  /\ \A name \in Ids \X Luns :
                 Range(WithFile(files, c, d)[name])
                     \subseteq Range(files[name]) \cup {c}
           /\ (\A e \in Range(files[<<ClientId[c], d>>]) : e = c) =>
                 /\ WithFile(files, c, d)[<<ClientId[c], d>>] # <<>>
                 /\ Head(WithFile(files, c, d)[<<ClientId[c], d>>]) = c
<1> DEFINE it  == <<ClientId[c], d>>
           old == files[it]
           new == IF c \in Range(old) THEN old ELSE Append(old, c)
<1>1. it \in Ids \X Luns
  BY Facts
<1>2. old \in Seq(Clients) /\ Len(old) \in Nat
  BY <1>1, LenProperties DEF Files
<1>3. ASSUME NEW name \in Ids \X Luns
      PROVE  WithFile(files, c, d)[name] = IF name = it THEN new ELSE files[name]
  BY <1>3 DEF WithFile, Files
<1> HIDE DEF it, old
<1>4. /\ Append(old, c) \in Seq(Clients) /\ Append(old, c) # <<>>
      /\ Len(Append(old, c)) = Len(old) + 1
      /\ Append(old, c)[Len(old) + 1] = c
      /\ \A j \in 1 .. Len(old) : Append(old, c)[j] = old[j]
  BY <1>2, AppendProperties
<1>5. /\ Range(old) = {old[j] : j \in 1 .. Len(old)}
      /\ Range(Append(old, c)) = {Append(old, c)[j] : j \in 1 .. Len(old) + 1}
  BY <1>2, <1>4, LenProperties DEF Range
<1>6. Range(new) \subseteq Range(old) \cup {c}
  BY <1>2, <1>4, <1>5
<1>7. ASSUME \A e \in Range(old) : e = c
      PROVE  new # <<>> /\ Head(new) = c
  <2>1. CASE c \in Range(old)
    <3>1. 1 \in 1 .. Len(old)
      BY <1>2, <1>5, <2>1
    <3> QED
      BY <1>2, <1>5, <1>7, <2>1, <3>1, EmptySeq
  <2>2. CASE c \notin Range(old)
    <3>1. Len(old) = 0
      <4>1. ASSUME Len(old) # 0 PROVE FALSE
        <5>1. old[1] \in Range(old)
          BY <1>2, <1>5, <4>1
        <5> QED
          BY <1>7, <2>2, <5>1
      <4> QED
        BY <4>1
    <3> QED
      BY <1>4, <2>2, <3>1
  <2> QED
    BY <2>1, <2>2
<1> HIDE DEF new
<1> QED
  BY <1>1, <1>3, <1>6, <1>7 DEF it, old

LEMMA AddFileService ==
    ASSUME IdsDiffer, Types, Apart, Service, NEW r \in Requests,
           AddFile(r), OthersWait(r)
    PROVE  Service'
<1>0. PICK k, e, f : k = computer[r] /\ e = client[r] /\ f = disk[r]
  OBVIOUS
<1>1. /\ pc[r] = "add" /\ clientList' = clientList /\ folders' = folders
      /\ entry' = entry
  BY DEF AddFile
<1>2. k = Automatic(e) /\ k \in folders
  BY <1>0, <1>1 DEF Apart, WorksOnOwn, Working, Service, Prompt
<1>3. /\ e \in Clients /\ k \in Computers /\ f \in Luns /\ lists'[k] # <<>>
      /\ \A m \in Computers :
            /\ Len(lists'[m]) = Len(lists[m])
            /\ lists'[m] = <<>> <=> lists[m] = <<>>
            /\ Published(m)' = IF m = k /\ list[r] = Len(lists[m])
                               THEN WithFile(Published(m), e, f)
                               ELSE Published(m)
  BY <1>0, AddFilePublishes
<1>4. \A m \in Computers : Published(m) \in Files
  BY PublishedFiles
<1>5. \/ todo[r] = {f} /\ pc'[r] = "idle" /\ disk'[r] = None
      \/ /\ todo[r] # {f} /\ pc'[r] = "disk" /\ todo'[r] = todo[r] \ {f}
         /\ client'[r] = e /\ computer'[r] = k
  BY <1>0, <1>1 DEF AddFile, Added, Return, End, Goto, Types, Base
<1>6. ASSUME NEW q \in Requests PROVE Prompt(q)'
  <2>1. CASE q = r
    BY <1>1, <1>2, <1>3, <1>5, <2>1 DEF Prompt, AllBefore, Early, Working
  <2>2. CASE q # r
    <3>1. ASSUME pc[q] \in Working PROVE computer[q] \in Computers
      BY <3>1 DEF Types, Equipped, Working
    <3>2. ASSUME pc[q] \in Working, AllBefore(q) PROVE AllBefore(q)'
      BY <1>3, <2>2, <3>1, <3>2 DEF OthersWait, AllBefore
    <3> QED
      BY <1>1, <2>2, <3>2 DEF Service, OthersWait, Prompt, Working
  <2> QED
    BY <2>1, <2>2
<1>7. Filed'
  <2>1. ASSUME NEW m \in Computers, NEW name \in Ids \X Luns,
               NEW c \in Range(Published(m)'[name])
        PROVE  c \in Clients /\ Automatic(c) = m
    <3>1. c \in Range(Published(m)[name]) \/ (c = e /\ m = k)
      <4>1. Range(WithFile(Published(m), e, f)[name])
                \subseteq Range(Published(m)[name]) \cup {e}
        BY <1>3, <1>4, FileServed
      <4> QED
        BY <1>3, <2>1, <4>1
    <3> QED
      BY <1>2, <1>3, <2>1, <3>1 DEF Service, Filed
  <2> QED
    BY <1>1, <2>1 DEF Service, Filed
<1>8. Expected'
  BY <1>1 DEF Service, OthersWait, Expected, Early
<1>9. ASSUME NEW c \in Clients, Automatic(c) \in folders, NEW d \in Disks[c]
      PROVE  Served(c, d)' \/ \E q \in Requests : Late(q, c, d)'
  <2>1. PICK m : m = Automatic(c)
    OBVIOUS
  <2>2. /\ m \in Computers /\ d \in Luns /\ <<ClientId[c], d>> \in Ids \X Luns
    BY <1>9, <2>1, Facts
  <2>3. CASE Served(c, d)
    <3>1. /\ Published(m)[<<ClientId[c], d>>] # <<>>
          /\ Head(Published(m)[<<ClientId[c], d>>]) = c
      BY <2>1, <2>3, RegistrationAssumption DEF Served, Found
    <3>2. /\ Published(m)'[<<ClientId[c], d>>] # <<>>
          /\ Head(Published(m)'[<<ClientId[c], d>>]) = c
      BY <1>3, <1>4, <2>2, <3>1, FileAdded
    <3> QED
      BY <2>1, <3>2 DEF Served, Found
  <2>4. ASSUME NEW q \in Requests, q # r, Late(q, c, d) PROVE Late(q, c, d)'
    <3>1. pc[q] = "add" => computer[q] = m
      BY <2>1, <2>4 DEF Late, Apart, WorksOnOwn, Working
    <3> QED
      BY <1>3, <2>2, <2>4, <3>1 DEF OthersWait, Late
  <2>5. ASSUME Late(r, c, d) PROVE Served(c, d)' \/ Late(r, c, d)'
    <3>1. c = e /\ d \in todo[r] /\ (d = f => list[r] = Len(lists[k]))
      BY <1>0, <1>1, <2>5 DEF Late
    <3>2. CASE d # f
      BY <1>5, <3>1, <3>2 DEF Late, Publishing
    <3>3. CASE d = f
      <4>1. Published(k)' = WithFile(Published(k), c, d)
        BY <1>3, <3>1, <3>3
      <4>2. \A b \in Range(Published(k)[<<ClientId[c], d>>]) : b = c
        BY <1>2, <2>1, <2>2, <3>1 DEF Service, Filed, IdsDiffer
      <4>3. /\ Published(k)'[<<ClientId[c], d>>] # <<>>
            /\ Head(Published(k)'[<<ClientId[c], d>>]) = c
        BY <1>3, <1>4, <2>2, <4>1, <4>2, FileServed
      <4> QED
        BY <1>2, <3>1, <4>3 DEF Served, Found
    <3> QED
      BY <3>2, <3>3
  <2> QED
    BY <1>9, <2>3, <2>4, <2>5 DEF Service, Attended
<1> QED
  BY <1>1, <1>6, <1>7, <1>8, <1>9 DEF Service, Attended

\* What was lost stays lost until the server stops.
LEMMA LostForGood ==
    ASSUME lost, [Next]_vars, ~Crash
    PROVE  lost'
<1>1. CASE UNCHANGED vars
  BY <1>1 DEF vars
<1>2. ASSUME NEW r \in Requests, Request(r) PROVE lost'
  BY <1>2 DEF Request, Step, Register, Ignore, Prepare, Remember, FindMachine,
     FindPrepared, CheckDuplicate, MakeDirectory, Truncate, WriteEntry, DatabaseFails,
     Discover, DiscoverFails, NextDisk, LookUp, PutList, AddFile, PutListLoses,
     AddFileLoses, AddFileUnseen, vars
<1> QED
  BY <1>1, <1>2 DEF Next

LEMMA NextService ==
    Undisturbed /\ Types /\ LossKnown /\ Apart /\ (lost \/ Service) /\ [Next]_vars
        => lost' \/ Service'
<1> SUFFICES ASSUME Undisturbed, Types, LossKnown, Apart, lost \/ Service, [Next]_vars,
                    ~lost'
             PROVE  Service'
  OBVIOUS
<1>0. Service /\ ~lost
  BY LostForGood DEF Undisturbed, Crash
<1>1. NothingPrepared /\ IdsDiffer /\ Faults = {}
  BY DEF Undisturbed
<1>2. CASE UNCHANGED vars
  <2>1. \A c \in Clients : \A d \in Disks[c] : Served(c, d)' = Served(c, d)
    BY <1>2 DEF vars, Served, Found, Published
  <2>2. \A q \in Requests : \A c, d : Late(q, c, d)' = Late(q, c, d)
    BY <1>2 DEF vars, locals, Late
  <2>3. Filed'
    BY <1>0, <1>2 DEF vars, database, Service, Filed, Published
  <2>4. (\A q \in Requests : Prompt(q)') /\ Expected'
    BY <1>0, <1>2 DEF vars, database, locals, Service, Prompt, AllBefore, Expected
  <2>5. Attended'
    BY <1>0, <1>2, <2>1, <2>2 DEF vars, database, Service, Attended
  <2> QED
    BY <2>3, <2>4, <2>5 DEF Service
<1>3. CASE Crash
  BY <1>1, <1>3 DEF Crash
<1>4. ASSUME NEW r \in Requests, Request(r) PROVE Service'
  <2>1. OthersWait(r)
    BY <1>4, OthersDoWait
  <2>2. ASSUME NEW c \in Clients, Register(r, c) PROVE Service'
    BY <1>0, <2>1, <2>2, RegisterService
  <2>3. ASSUME NEW c \in Clients, Ignore(r, c) PROVE Service'
    BY <1>2, <2>3 DEF Ignore
  <2>4. ASSUME NEW k \in Prepared, NEW id \in Ids, Prepare(r, k, id) PROVE FALSE
    BY <1>1 DEF NothingPrepared
  <2>5. CASE Remember(r)
    BY <1>0, <2>1, <2>5, RememberService
  <2>6. CASE FindMachine(r) \/ FindPrepared(r)
    BY <1>0, <1>1, <2>1, <2>6, FindService
  <2>7. CASE CheckDuplicate(r)
    BY <1>0, <2>1, <2>7, CheckDuplicateService
  <2>8. CASE MakeDirectory(r)
    BY <1>0, <1>1, <2>1, <2>8, MakeDirectoryService
  <2>9. CASE Truncate(r) \/ WriteEntry(r)
    BY <1>0, <2>1, <2>9, EntryService
  <2>10. ~ DatabaseFails(r) /\ ~ DiscoverFails(r)
    BY <1>1 DEF DatabaseFails, DiscoverFails
  <2>11. CASE Discover(r)
    BY <1>0, <2>1, <2>11, DiscoverService
  <2>12. CASE LookUp(r) \/ \E d \in Luns : NextDisk(r, d)
    BY <1>0, <2>1, <2>12, DiskService
  <2>13. CASE PutList(r)
    BY <1>0, <1>1, <2>1, <2>13, PutListService
  <2>14. CASE AddFile(r)
    BY <1>0, <1>1, <2>1, <2>14, AddFileService
  <2>15. ~ PutListLoses(r) /\ ~ AddFileLoses(r) /\ ~ AddFileUnseen(r)
    BY <1>0 DEF PutListLoses, AddFileLoses, AddFileUnseen, LossKnown
  <2> QED
    BY <1>4, <2>2, <2>3, <2>4, <2>5, <2>6, <2>7, <2>8, <2>9, <2>10, <2>11,
       <2>12, <2>13, <2>14, <2>15 DEF Request, Step
<1> QED
  BY <1>2, <1>3, <1>4 DEF Next

(***************************************************************************)
(* When no computers are prepared, nothing fails and no two clients have   *)
(* the same ids, a client in the list with no registration of its own      *)
(* under way has all its disks published, on any number of threads, as     *)
(* long as the driver's map and lists have lost nothing.                   *)
(***************************************************************************)
THEOREM ListedAreServed == Undisturbed => (Spec => []ServedWhenDone)
<1> SUFFICES ASSUME Undisturbed PROVE Spec => []ServedWhenDone
  OBVIOUS
<1>1. ASSUME Types, Service PROVE ServedWhenDone
  <2>1. ASSUME NEW c \in clientList, \A r \in Requests : client[r] # c,
               NEW d \in Disks[c]
        PROVE  Found(Automatic(c), ClientId[c], d) = c
    <3>1. c \in Clients /\ Automatic(c) \in folders
      BY <1>1, <2>1 DEF Types, Base, Service, Expected
    <3>2. \A r \in Requests : ~ Late(r, c, d)
      BY <2>1 DEF Late
    <3> QED
      BY <1>1, <3>1, <3>2 DEF Service, Attended, Served
  <2> QED
    BY <1>1, <2>1, Facts DEF ServedWhenDone, Types, Base
<1>2. Types /\ (lost \/ Service) => ServedWhenDone
  BY <1>1 DEF ServedWhenDone
<1>3. NothingPrepared
  BY DEF Undisturbed
<1>4. Init => lost \/ Service
  BY InitService
<1>5. Types /\ LossKnown /\ Apart /\ (lost \/ Service) /\ [Next]_vars
          => (lost \/ Service)'
  BY NextService
<1>6. Spec => [](Types /\ Apart)
  BY <1>3, AlwaysApart
<1>7. Spec => [](Types /\ (lost \/ Service))
  BY <1>4, <1>5, <1>6, AlwaysLossKnown, PTL DEF Spec
<1> QED
  BY <1>2, <1>7, PTL

=============================================================================
