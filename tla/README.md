# Verification of the RAQET acquisition server

The acquisition server lets an investigator read the disks of remote computers
as files. A booted client registers over HTTP, the server discovers its disks
over iSCSI and publishes each as a file of an SMB share; reads of such a file
fetch blocks from the client, and every block that was fetched is kept in an
evidence file on the server with a bitmap that says which blocks are there. Web
pages let the investigator keep cases, and the computers of each.

This directory holds TLA+ modules translated from the Java source and from the
JavaScript of the pages, the TLC configurations that check them on small
instances, and TLAPS proofs for all instances. Paths below are relative to
`src/src/org/raqet/`, those that begin with `js/`, `lib/`, `partials/` or
`angular-1.4.7/` to `src/resources/static/`.

## Inventory

| Component | State | Operations | Talks to |
|---|---|---|---|
| Evidence store and factory (`iscsi/EvidenceStore`, `iscsi/EvidenceStoreFactory`) | evidence file, bitmap file; in memory: bitmap, LRU cache, reference count, map path -> store | getEvidenceStore, closeEvidenceStore, containsBlock, retrieveBlock, storeBlock | called by every block reader of a path, by several threads |
| Block reader (`iscsi/IScsiBlockReader`, `ReadRequest`, `IScsiRead10Callback`) | requests in flight, one table per open file | retrieveBlock, close; completeRequests, read-ahead, sync inside | evidence store (shared), iSCSI target (asynchronous) |
| iSCSI wrapper (`iscsi/IScsiContext`, `IScsiConnection`, `IScsiLogicalUnit`) | a libiscsi context | connect, discovery, reportLuns, read, sync, readCapacity | libiscsi through JNA |
| Input data (`iscsi/IScsiInputData`, `Block`) | position, open flag | seek, read over blocks, close | block reader |
| Remote device manager (`remote/`) | discovered devices by portal | listTargets, openDevice | iSCSI wrapper, evidence store |
| SMB file and driver (`smb/RemoteNetworkFile`, `RaqetDiskDriver`, `RaqetSearchContext`) | input data of an open file; folders of published devices | openFile, readFile, seekFile, closeFile; addRemoteDevice, startSearch | device manager; called by SMB sessions |
| Control and registration (`http/RaqetControl`, `RaqetService`, `clientapi/AcquisitionClientApi`, `ClientInfo`) | list of clients | register, diskinfo, case and computer requests | case database, device manager, disk driver |
| Case database (`database/`) | a directory per case and computer with a JSON entry | createCase, createComputer, getCases, getComputers, getCase, findClient, update | file system |
| Management pages (`js/`, `partials/`) | the page shown, its lists, its form, requests under way | states and their links, addCase, addComputer, deleteCase; callbacks of answers | `RaqetService` over HTTP |
| ui-router, ngResource, Angular (`lib/`, `angular-1.4.7/`), vendored | transition under way, resources being filled | transitionTo, query, get, $save, $delete | the pages |
| Start-up, utilities, message classes, native bindings | none worth a model | | |

What is hard in them, and what makes them correct:

* **Evidence store.** Several SMB sessions share one store under two different
  monitors (the factory's during open and close, the store's during storeBlock
  and retrieveBlock), and two accesses of the bitmap take neither. Any file
  operation may fail half way, and the server may be killed at any point.
  Correct means: a block is never called available before its bytes are in the
  evidence file, what is served is the device's content, two objects never
  write the same files, files are closed with the last user and not before,
  and a close makes progress durable.
* **Block reader.** Answers arrive out of order and only when a reader polls;
  other readers fill the shared bitmap meanwhile; a failed answer ends whatever
  call is running. Correct means: a read that returns returns an available
  block, no request is forgotten, the limit on requests holds, and every read
  ends.
* **SMB file and input data.** `closeFile` and `seekFile` do not take the lock
  that `readFile` holds; a file is opened lazily by any of several calls; opening
  can fail at six places, some of which leave a session behind. Correct means: a
  read returns the bytes of its range or fails, sessions and references are given
  back once, and whoever is inside the monitor leaves it.
* **Registration.** Check-then-add on the list of clients, which is filled
  before discovery and publication have succeeded; find-then-claim on prepared
  computers. Correct means: a folder holds the evidence of one machine, a machine
  has one computer, published files stay, and a known client's disks are
  published.
* **Disk information.** A report is accepted by the list in memory and stored by
  what the client's object there remembers, while registrations run and entries
  are claimed and rewritten; a file is tested, then opened, then written. Correct
  means: what a machine tells goes to the folder of its own evidence, what was
  told first stays, and an accepted report is stored.
* **Case database.** Directory first, entry second, rewritten in place, no lock.
  Correct means: an interrupted step never makes two computers of one, and what is
  stored is never replaced by a later creation.
* **Management pages.** Answers come in any order, after the user has left the
  page, or never; a refusal is answered with status 200. Correct means: a page
  shows an entry only under its own address, and success means stored.

`PROJECT.json` lists these hazards one by one, at the line where each bites.

## Modules

| Module | Contents |
|---|---|
| `Acquisition` | abstract specification: three growing sets of blocks (written, acquired, recorded), and what is left when the last user leaves or the server restarts: what is recorded |
| `EvidenceStore` | the store of one path with its factory |
| `MCEvidenceStore` | instances for TLC: device content, symmetry |
| `EvidenceStoreProofs` | theorems: types, references, kept bytes, marked blocks |
| `EvidenceStoreRefinement` | theorems: durable closes, served content, refinement of `Acquisition` |
| `EvidenceStoreUseProofs` | theorems: the cache's limit, available blocks stay, files closed with the last reference |
| `BlockReader` | retrieveBlock of every reader of a device |
| `MCBlockReader` | instances for TLC: symmetry |
| `BlockReaderProofs` | theorems: types, available blocks, limit, no request vanishes |
| `RemoteFile` | an open file of the share: read, seek, close by several threads, input data, openDevice |
| `MCRemoteFile` | instances for TLC: sets of faults |
| `RemoteFileProofs` | theorems: types, bytes of a read, sessions given back, and once |
| `ClientRegistration` | registration of a client: list of clients, case database, publication |
| `MCClientRegistration` | instances for TLC: clients, machines, disks |
| `ClientRegistrationProofs` | theorems: types for any threads; machines, folders and paths for one request at a time; machines and published disks for any threads without prepared computers |
| `DiskInformation` | `ClientRegistration` with the reports of its clients about their disks |
| `MCDiskInformation` | the instances of `MCClientRegistration` for `DiskInformation` |
| `DiskInformationProofs` | theorems: types for any threads; machines and files for one request at a time; machines for any threads without prepared computers, and files half written |
| `Management` | web pages, their requests, the service and the case database behind them |
| `MCManagement` | instances for TLC: sets of faults |
| `ManagementProofs` | theorems: types, shown and stored entries, success |

`BlockReader` abstracts the store it uses to the set of available blocks, which
only grows: that is `acquired` of `Acquisition`, which `EvidenceStore` is shown to
implement, and that it grows as long as a reader keeps its object is proved as
`AvailableBlocksStay`. A reader may begin on a store that others have filled. `RemoteFile` abstracts retrieveBlock to a step that delivers the block
or fails: `BlockReader` shows that a call ends and that a block it returns is
available. `Management` and `ClientRegistration` model the same case database for
its two kinds of callers: the pages, which create cases and computers and read
them, and the clients, which find, claim and rewrite computers. `DiskInformation`
extends `ClientRegistration`: the same threads, list and folders, with the state
that reports add; each of its steps is one of `ClientRegistration` or leaves that
state alone (`ReportSpecIsSpec`).

### EvidenceStore

State and code correspond as follows: `evidenceFile` is the file byte by byte
(`Absent` beyond its end), `bitmapFile` the set of marked blocks,
`evidenceStores` the factory's entry for the path, and `refCount`, `bitmap`,
`cachedBlocks` the fields of each object; `filesOpen` says which of its two files
are open. `recency` is the access
order of the `LinkedHashMap`. `storing[s]` is the storeBlock call inside the
monitor of `s`, `closing` the close inside the factory's monitor with the bits
it found; `ref[r]` is the object reader `r` holds.

storeBlock is two steps, because containsBlock and toByteArray may look between
the write and the bit: `StoreBlock` (cache, bytes) and `SetAvailable` (bit).
`StoreBlockFails` is its failing form, with any prefix of the bytes written.
closeEvidenceStore is `BeginClose` and one of `FinishClose`, `SyncFails` and
`DoCloseFails`. The data race of toByteArray with `BitSet.set` has two
outcomes besides the plain one: bits set meanwhile are copied (`Copies`), or a
bit beyond the sized array makes toByteArray throw (`CopyOverflows`). A reader
may close while its own storeBlock or retrieveBlock runs, because
`smb/RemoteNetworkFile.java:45` takes no lock of readFile, and its read may go on
while the close is in the factory's monitor. When doclose throws, the bitmap file
stays open if it was the evidence file whose close threw.
`AbandonEvidenceStore` stands for the ways a holder forgets its reference:
openDevice failing after createEvidenceStore, or a connection whose close throws
before the store's is called. `Crash` keeps the two files. A Java int is
modelled by its width (`ToInt`), because `(blockNumber + 1) * _blockSize`
overflows on large devices.

The image, block and cache sizes, the number of bits per byte, the width of an
int and the set of operations that may fail are constants. `MaxRef` bounds the
reference count, which leaked references let grow.

Assumed: bytes handed to storeBlock are the device's, and the device behind a
path does not change; a write to a file survives a crash of the server (the
code never calls sync, so this is about a killed process and not about a power
failure); a bit set in the bitmap is visible to the threads that look at it
later. Each reader closes its reference exactly once: the guard for that is the
test and then the call of `iscsi/IScsiInputData.java:30-35`, which two closes of
one file at the same time may both pass; the second would then go through a
libiscsi context that the first has destroyed (`iscsi/IScsiBlockReader.java:54`)
before it reaches the store, which no module follows (`RemoteFile` has the two
closes, and `GivenBackOnce` excludes them). `OneStoreInUse`, `OpenWhileUsed` and
the count that stays above zero rest on this. What a read that its own close has
overtaken still does with the object is a call of another reader, if one holds the
object, and fails on closed files otherwise; it is not followed into an object
that its own close has leaked.

### BlockReader

`pc[r]` is where reader `r` is inside retrieveBlock: `claim` (has it been
requested, is a slot free), `slot` (waitForFreeSlot), `send`, `plan`
(determineReadAheadBlocks), `drain` (completeRequests before the read-ahead),
`scan` (the read-ahead loop), `wait` and `collect` (the loop that waits), and
`fetch`. `requestsInFlight[r]` maps a block to `pending`, `good` or `failed`;
`available` is the bitmap, shared, read without a lock, and only growing.
`Sync` delivers any subset of the answers; `CompleteRequest` and `CompleteFails`
are one turn of the loop in completeRequests each, in any order, since the code
iterates over a hash map. `Faults` chooses between failing answers (`read`),
a failing poll or iscsi_service (`service`), a request that cannot be sent
(`send`) and a store that cannot write (`store`).

### ClientRegistration

`pc[r]` is where thread `r` of the HTTP server is in a request: `remember` (the
list of clients), `find` and `findPrepared` (the two calls of findClient),
`check`, `create`, `write` (createComputer), `truncate`, `write` (update: opening
the file empties it), `discover` (listTargets), `disk` (the loop over the
devices), `lookup`, `put`, `add` (RaqetDiskDriver.addRemoteDevice). A client is
what ClientInfo.equals compares: a client id, which is the boot image's, a
hardware id, and an address. `entry` holds the readable entries of the case
database; `lists[k]` every file list ever made for the folder of computer `k`,
the last of which is in the driver's map. A list is kept by file name, which is
made of client id and disk, with the files of one name in the order they were
added; a path leads to the first (`Found`), as findPseudoFile does, and
`WithFile` adds behind it. No lock guards the list of clients, the driver's map
and its lists. Two adds of clients at the same time may lose one of them, or throw
(`Remember`). A put while another thread is at its own may be lost too
(`PutListLoses`, also for different folders, which share the buckets of the
HashMap): the request goes on with a list that is not in the map, where nobody
finds its files (`AddFileUnseen`). An add while another thread adds to the same
list may be lost, or throw, which ends the request (`AddFileLoses`). `lost` says
that one of these happened in this run of the server. createComputer makes the
directory and then opens the entry, which empties it (`MakeDirectory`, `Truncate`),
also one that another thread has just written. One case is modelled, and findClient reads the entries in
one step, in any order. The names that investigators give to computers differ
from the ones the server makes.

`Faults`: the discovery throws or finds nothing (`list`), a disk is missing from
the client's message (`mapping`), a directory or an entry cannot be written
(`database`), the server is killed and restarted (`crash`).

Assumed: the calls of a torn HashMap or ArrayList return or throw (threads that
run for ever in a cycle of its entries are not modelled); a resize or a torn list
does not lose files that were published before, and no look-up of an SMB client
overlaps a put: what the model says of published files it says as long as
`lost` is false, or for requests one at a time.

### DiskInformation

`assigned[c]` is the computer in the object of client `c` in the list,
`_computerDbEntry`; `holder[c]` the thread that put the object there, because two
registrations of one client may each have an object and only the first in the
list is found again. `Registration` is a step of `ClientRegistration` with what it
does to the two: the object enters the list in `Remember`, and gets its computer
when the registration has found, claimed or created it. `report[r]` is the report
that thread `r` handles: `Accept` (the client is in the list, its computer is
taken), then for each disk `Test` (exists), `Open` and `Write` (the PrintWriter
empties the file, then writes it) or `WriteFails`. `information[k][d]` is the file
about disk `d` in the folder of `k`: which machine it is about, and whether it is
whole. A report names disks by their device, the model by their LUN, as in
`ClientRegistration`; the lists of disks it may hold are bounded by `Reported`. `Reject` is a report that
changes nothing: the client is not in the list, or its object has no computer.
`Restart` is `Crash` with the list's objects and the reports under way lost.

`Faults` are those of `ClientRegistration`; `database` also lets the opening or the
writing of a file fail.

### RemoteFile

One `RemoteNetworkFile`. `inputData` is its field `_inputData`, named by the
session behind it, and read again at each use, as the code does; `live` are the
sessions whose libiscsi context exists, `references[s]` the references a session
has to the evidence store, `open` the input data whose `_closed` is not set, and
`position[s]` their `_position`. `monitor` is the thread inside readFile, which is
synchronized; seekFile and closeFile are not. `call[t]` is the call of thread `t`
with the locals of readFile and of IScsiInputData.read (offset, count, the bytes
left, the current and the last block, the bytes so far).

readFile is `Enter`, `OpenFile` and `OpenDevice` or `OpenFails`, `CompareSize`,
`SeekTo`, then IScsiInputData.read, which reads `_position` once for the number of
bytes (`StartRead`), again for the first block (`FirstBlock`) and again for the last
(`LastBlock`), and for each block `Retrieve` or `RetrieveFails` and `Advance`, each of
which reads it once more, then `Leave`; a seek may come between any two of them, and
a block that then lies beyond the device is refused (`OnDevice`); seekFile is `OpenFile` and `Move`; closeFile is
`CloseInput`, `DestroyContext`, `CloseStore` (or `CloseFails`) and `Clear`.
`Cleared` is the NullPointerException of a field that a close has cleared. A byte
is named by its position on the device, so that `ReadsDevice` compares positions.
`overlapped` marks the reads during which a seek ran; it is history and guards
nothing.

`FaultSets` gives the sets of faults, one of which a behaviour draws at the
start: seeks (`seek`), closes at the same time (`closes`), an open that fails and
closes its session (`open`), or does not (`leak`), a read that fails (`read`), a
close that fails in the context (`destroy`) or in the store (`sync`).

### Management

`page` is the page a user is on, with the entry or list it shows and what is in
its form; `requests` are the ones under way, each with the page and the visit
that sent it and, once the server has acted, its answer. The callback of a
save starts a transition and `Arrive` ends it (ui-router: a later one, as of a
`Click`, supersedes it, and one to the state that is shown is skipped); entering
a page constructs its controller, which fetches (`Fetches`). `Receive...` are the answers: a list or an object fills
the resource of the visit that asked (`ReceiveObject`, `ReceiveList`), a save runs
its callback wherever the user is (`ReceiveSaved`). The server's side is
`CheckDuplicate`, `MakeDirectory`, `WriteEntry` and `WriteFails` (createCase and
createComputer), `Get`, `Query`, `NotImplemented` (delete and update, which
answer without doing anything) and `OtherPost`. `Crash` ends the requests under
way and keeps the directories and entries.

Left out or merged: a form's fields are one value; the form of a case and of a
computer are one kind of action with another key; an edit sends a
put, which the server ignores; what a page links to only grows, so the transition that
a click starts is taken to be over at once (`Click` enters the page), and only the
callback of a save leaves one in progress; the computer's page fetches its case
too (`js/controllers.js:35`), which only fills the links of its two downloads; the write of a new entry is one step
(who reads in the middle of it finds a directory without a readable entry, as
before it).
`faults` says whether writes fail, the server crashes, or the server runs requests
at the same time (`concurrent`); another client of the same service, who creates
entries (`OtherPost`), is a second user without pages. A booted client's rewriting
of a computer's entry (update) is in `ClientRegistration` only: `EntriesStay` is
about the service of the pages, and an update does empty an entry before it writes
it.

## Runs

| Run | Asks | Result |
|---|---|---|
| `evidence_store` | safety of the store: 2 readers, 2 objects, 3 blocks of 2 bytes, cache of 1, bitmap of 2 bytes, every fault, crashes | holds (797 687 states) |
| `evidence_store_live` | 2 readers, 1 object, 3 blocks, cache of 2, no faults but crashes and the race of toByteArray | holds (13 502 states) |
| `store_tail` | a last block of 2 bytes of 3 | `AvailableIsDevice` violated |
| `store_leak` | 1 reader, no faults | `UnusedIsClosed` violated |
| `block_reader` | 2 readers, 3 blocks, 2 slots, every fault | holds (298 938 states) |
| `block_reader_live` | 2 readers, 3 blocks, 1 slot, failing answers | holds (15 514 states) |
| `remote_file` | 2 threads, devices of 3 and 5 bytes in blocks of 2, an int of 3 bits, seven sets of faults, crashes | holds (523 746 states) |
| `registration` | 1 thread, 2 machines, one of them under 2 addresses, 1 prepared computer, reports about one disk, every fault, crashes | holds (4 872 462 states) |
| `registration_threads` | 2 threads, 2 machines, no prepared computer, reports about two disks, no faults | holds (645 571 states) |
| `registration_claim` | 2 threads, 2 machines, 1 prepared computer, no faults | `EvidenceOfOneMachine` violated |
| `management` | a browser with 2 requests under way and another client, 2 cases with a computer each; failing writes, crashes, or concurrent requests | holds (1 800 604 states) |
| `management_failed` | one browser, no faults | `CallbackOnSuccess` violated |

Why the bounds are enough: two readers and two objects are what a double open,
a close under another reader, and a second object on the same path need; three
blocks with a cache of one force evictions and reading back, and with two bits
per byte give the bitmap file a byte that can be old while the other is new. In
the reader, three blocks and two slots let a demand read meet a full table, a
read-ahead break off and two answers complete in either order. The
reference count reaches its bound of 3 only through leaked references, after all three
kinds of leak have been possible. The live run has one object, so a path is
opened anew once the calls on the last object have returned; that two objects do not
meet is `OneStoreInUse` of the other run and its theorem.

For an open file, reads of one and three bytes at positions 1 and 4 of a device
of 3 or 5 bytes begin and end inside blocks, span two, reach the end, lie behind
it, and on the larger device reach the third block, whose address overflows the
int of 3 bits. Three sessions are enough for two that leaks or closes have left
behind and one that is in use; a call begins only while it can still open one
(`Room`).

In the registration, two machines, a second address and a prepared computer give
every order of claiming, creating and coming back after a crash; a machine with two
disks lets failures and crashes fall between publications. (Any number of prepared
computers is what the theorems are about.) Both runs are of `DiskInformation`, each
of whose steps is one of `ClientRegistration` or leaves its state alone. `Reported`
is one disk in the first, where every machine reports it and a file may be cut off,
and two disks in the second, where two reports of one machine test and write the
files of both in any order.

For the pages, two requests under way are an answer of the page that was left and
one of the page that is shown, in both orders; two cases with a computer each are
what an entry shown under another's address, and a computer under another's case,
need.

Deadlock is checked in every run.

### Fairness

`EvidenceStore`: a call inside a monitor returns (weak fairness of
`SetAvailable` and `FinishClose`; neither waits for anything), and a client
closes its file after finitely many reads (strong fairness of `BeginClose`,
because the close of another reader, in the factory's monitor, disables it
meanwhile). No fairness of opens, stores or crashes; a close that throws (by the
race of toByteArray) is not excluded.

`BlockReader`: a thread inside retrieveBlock runs (weak fairness of `Step`), and
a request for which sync is called again and again is answered or times out
(strong fairness of `Answered`): sync polls for at most a second
(`iscsi/IScsiConnection.java:32`), and openDevice sets a time-out of five seconds
on the context (`remote/RemoteDeviceManager.java:151`), after which libiscsi fails
the request. No fairness of new reads.

`DiskInformation`: a thread that handles a registration or a report takes its steps
(weak fairness of `GoesOn` for each thread). They are file operations and accesses of
lists, and the discovery of the client's disks, of which this assumes that it returns:
the loop of `iscsi/IScsiConnection.java:71` has no time-out of its own. No fairness of
new registrations, reports or crashes.

`RemoteFile`: a thread inside a call takes its steps (weak fairness of `Step` for
each thread), which includes that retrieveBlock returns or throws
(`block_reader_live`). No fairness of new calls or crashes.

`Management` states no fairness: a user need not click, and a request may stay
without an answer for ever.

### What the violated properties say

* **`store_tail`.** For the partial last block `EvidenceStore` transfers
  `(blockNumber + 1) * blockSize - imageLength` bytes: the length of what lies
  beyond the image instead of what lies inside it. With a tail of more than half
  a block, the end of the device is never written to the evidence file although
  the block is marked. (The comparison before it is made in int arithmetic, so on
  a device of 2 GiB or more the partial last block is written whole; `ToInt` keeps
  that in the model.)
* **`store_leak`.** A close that throws in synctodisk drops no reference, and its
  caller has already marked itself closed. The run needs no I/O error and no second
  reader: the race of toByteArray with a storeBlock is enough, and that may be the
  one of a read of the same file, beside which closeFile runs.
* **`registration_claim`.** Finding a prepared computer and claiming it are not
  one step, so two machines that boot the same image at the same time share a
  folder, and with it the evidence file of each disk.
* **`management_failed`.** A creation that was refused is answered with the body
  "Failed" and status 200, so the success callback of addCase runs and the user is
  taken to the list of cases as if the case were there.

The two passing registration runs bound that disagreement: it needs two threads
(`registration`) and a prepared computer (`registration_threads`), which
`OneMachineInFolder` and `MachinesApart` prove for all instances. In the same way
`LastCloseClosesFiles` bounds `store_leak`: files stay open only after a close that
threw or a reference that was forgotten, whatever readers do in between. What the
code does not have, and does not promise: a client whose registration failed is
ignored from then on, and its reports are lost with a null pointer, a file about a
disk that was cut off is never written again, a directory without a readable entry blocks its name, and
two threads that register one machine under two addresses may replace each
other's list of files, and two registrations at the same time may lose a list or a
file to the driver's unsynchronized map and lists, after which a client in the list
is ignored without its disks (`lost`).

## Proofs

TLC's instances are small; the theorems below hold for every value of the
constants under the assumptions named in each module.

### EvidenceStore

For every set of readers and objects, every geometry, every set of faults. The
argument rests on `References`, an inductive invariant with the types: the
object a reader holds is the one in the factory's map; the count of an object is
at least the number of its holders (leaks only make it larger); and a close in
progress belongs to a holder. Nothing ties the storeBlock call inside an object's
monitor to a holder, who may have closed or forgotten the object meanwhile. `OneStoreInUse` and the type of `refCount`,
which never goes below zero, are not inductive without it: a decrement is safe
only because the closing reader is counted.

| Theorem | Property | From |
|---|---|---|
| `TypeCorrect` | `TypeOK` | types and `References` |
| `OneStore` | `OneStoreInUse` | `References` |
| `StoreOpenWhileUsed` | `OpenWhileUsed` | `References`, `MappedIsOpen`; assumes `NoCloseFault` |
| `DeviceBytesStay` | `WrittenIsKept` | every writer of the file writes device bytes, extends with zeros only where nothing is, and never shortens |
| `MarkedBlocksAreThere` | `RecordedIsWritten` | `MarkedIsStored`: bits on disk, in memory, in a close or about to be set are blocks whose transfer was complete; assumes `CompleteTransfers` |
| `CloseIsDurable` | `ClosePersists` | `References`, and the array of a bitmap covers all its bits |
| `AvailableBlocksAreDevice` | `AvailableIsDevice` | `MarkedIsStored` and cached data are the device's; assumes `CompleteTransfers` |
| `StoreImplementsAcquisition` | `ImplementsAcquisition` | all of the above, and `AcquiredCovers`: the bits in the file are among the ones in memory; assumes `CompleteTransfers` |
| `CacheStaysWithinLimit` | `CacheWithinLimit` | `CachesOrdered` |
| `AvailableBlocksStay` | `AvailableStays` | each action: a constructor that loads a bitmap makes an object that no reader holds |
| `LastCloseClosesFiles` | `UnusedIsClosed` | `References`, `ExactlyCounted`; assumes `NoReferenceLost` of every step |

`CachesOrdered` ties each cache to its access order: the order lists every cached
block once, lists nothing else, and is no longer than the cache may be.
`CacheWithinLimit` is not inductive without it, because a block is evicted when
the cache is full, by the order alone, and a block that is already cached is put
again: that this does not let it grow needs that order and map have the same
blocks (lemmas `OnceCounts` and the three operations on an order: an access moves a
block to the end, an eviction drops the first, a put appends). `ExactlyCounted` says
that open files are those of the object in the map, and that its count is the
number of readers that hold it and not zero. `NoReferenceLost` says of a step that
it is no close that throws (`SyncFails`, `DoCloseFails`) and no holder that forgets
its object. Any number of readers, crashes, failing opens and writes, and closes that
run beside any storeBlock and return, are allowed; without it the property is
false (`store_leak`).

`CompleteTransfers` says that the length the code computes covers the bytes the
block has on the device. It is false for the partial last block (run
`store_tail`); the lemma `WholeBlocksTransfer` proves it for every image of whole
blocks. `NoCloseFault` excludes a failing doclose, after which the factory would
hand out a closed object.

### BlockReader

For every device, number of slots, set of readers and set of faults. The
inductive invariant is `TypeOK` with two facts about each reader: `Bounded`, the
number of its requests at each place of the call (at most the limit, and below
it where the next step sends one), and `Asked`, that a reader which waits for its
block has a request for it in its table or finds it in the store. Neither
property is inductive by itself: the limit is tested at one place and used at
another with completions between them, and a block is fetched after a loop whose
exit only says that no request is left.

| Theorem | Property | From |
|---|---|---|
| `TypeCorrect` | `TypeOK` | the invariant |
| `BlockIsAvailable` | `AvailableOnFetch` | `Asked`: a request leaves the table only with its block stored or with an exception that ends the call |
| `LimitKept` | `InFlightWithinLimit` | `Bounded` |
| `NoRequestVanishes` | `RequestsSettled` | each action, from the types |

### RemoteFile

For any number of threads, every geometry of device, block and int, every set of
faults, and crashes. What the invariants relate is in steps that several threads
take between each other's, so each is an induction over all actions.

| Theorem | Property | From |
|---|---|---|
| `TypeCorrect` | `TypeOK` | `Base`, `Counted`, `Clipped` |
| `ReadsReturnDevice` | `ReadsDevice` | `Base`, `Reading` |
| `GivenBackAtMostOnce` | `GivenBackOnce` | `Base`, `Accounted` |
| `NoSessionIsLost` | `NoSessionLost` | `Base`, `Accounted`, `Known` |

`Base` is inductive on its own: types, where calls of each kind can be, and that a
read beyond its entrance is the thread in the monitor. `Accounted` says that a
session that is being connected is new and one call's, that open data have
exactly one reference, and, for closes one at a time, that they have a context
which only the close that just destroyed it may lack. It is what makes
`GivenBackOnce` inductive: a close that failed closes the data and keeps the
field, and the next one skips both parts only because open data are counted.
`Known` adds, without seeks, leaks and failing closes, that every session and
reference is the field's or the connecting read's, and how far a close has
undone the field's.

`Reading` is about each read that no seek overlapped: before the loop nothing is
read; in it, what was read is the device from the read's offset on, the position
of the session is behind it, the current block holds the position, the last block
holds the last byte that is left (between `StartRead` and the loop only the parts that were computed), and a block that is done either ended the read
or ended at its own last byte. That the loop over block numbers ends exactly
when nothing is left follows from it: two blocks that hold one position are the
same (`OneBlock`). Positions move only in the monitor and in seeks, which is why
no other thread disturbs it. `Counted` bounds a reference count
from below by the threads that may still drop it. `Clipped`, that a read does not
collect more than it was asked for, holds also for reads that seeks do disturb; that
the blocks are the device's does not, because a seek between two readings of
`_position` may put them beyond it, and follows from `Reading` for the others.

### ClientRegistration

`TypeCorrect` holds for any number of threads. Its invariant `Types` adds to
`TypeOK` what a request holds where it is (`Equipped`): a request that adds a
file has a list that was put in the driver's map, although that map may have
another by then, or one that the map has lost (`LossKnown`). The other theorems have one of three hypotheses, each for any
number of machines, addresses and disks:

* `OneAtATime`: no two elements of `Requests` differ. Any prepared computers, every
  fault and crashes between any two steps.
* `NothingPrepared`: `Prepared` is empty. Any number of threads, every fault,
  crashes. The run `registration_claim` shows that with two threads and a prepared
  computer neither can be dropped.
* `Undisturbed`: nothing is prepared, no two clients have the same two ids
  (`IdsDiffer`), and nothing fails. Any number of threads.

| Theorem | Property | From |
|---|---|---|
| `TypeCorrect` | `TypeOK` | `Types` |
| `OneMachineInFolder` | `EvidenceOfOneMachine` | `Alone` |
| `OneEntryOfMachine` | `OneComputerPerMachine` | `Alone` |
| `PathsKept` | `PathsKeepTheirDevice` | `OneList`: a folder gets at most one list, and a request about to put one finds none |
| `MachinesApart` | `EvidenceOfOneMachine` | `Apart`; assumes `NothingPrepared` |
| `EntriesOfOneMachine` | `OneComputerPerMachine` | `Apart`; assumes `NothingPrepared` |
| `ListedAreServed` | `ServedWhenDone` | `Service`, as long as nothing is `lost`; assumes `Undisturbed` |

`Alone` says that folders, evidence and entries agree (evidence only in folders
that exist, of one machine, which is the entry's if it is readable), that no two
entries are of one machine, and what the request that runs knows: its object is
of its machine, its folder is new or of its machine, and no other entry is. The
two properties are not inductive: an entry that a crash cut off leaves a folder
with evidence and without an owner, and only the agreement of folder and entry
keeps another machine out of it.

`Apart` says that what is in a folder and what a request works on belong to the
machine the computer is named by. Without prepared computers no request ever gets
another name, so this is inductive whatever other threads do between its steps.

`Service` is about what several registrations of one client leave to each other. A
request that finds its folder made by another gives up; one that finds no list of
files puts a new one over whatever was put meanwhile; one that added its file to a
list that has been replaced has published nothing. `Attended` says that each disk
of a client whose folder exists is published, or that some request will publish it
where it can be found (`Late`: the disk is among those it has before it and, if it
is about to be added, the list it will go to is still the last). `Expected` says
the same of the folder: a client in the list has it, or a request that will make it
or find it made. `Prompt` is what makes the two inductive: whoever may still
replace a list has all disks of its client before it (`AllBefore`), so that what a
replaced list held is published again. `IdsDiffer` is needed: a list that a
registration under a second address replaces holds the files of another client,
which nobody adds again. A put or an add that is lost breaks all of it, which is why the
property promises nothing once `lost` is true. TLC finds that counterexample with two threads and one
machine under two addresses. A fault ends a request that others counted
on, and the client stays in the list without its disks; a crash leaves a folder
whose entry is not readable, at which the next registration of the client gives up.

### Management

For any number of users, requests, cases, computers and names, and every set of
faults.

| Theorem | Property | From |
|---|---|---|
| `TypeCorrect` | `TypeOK` | `Consistent` |
| `ShownMeansStored` | `ShownIsStored` | `Consistent` and `Serial` |
| `SuccessMeansStored` | `SuccessIsStored` | `Serial` |
| `StoredEntriesStay` | `EntriesStay` | `Consistent` and `Serial` |

`Consistent` is inductive on its own: types; an entry lies in its directory; a
request under way is one of its kind, belongs to the page that sent it, and two
under way differ; a page's object and list are what its state has. `Serial` adds,
when requests are handled one at a time: between the test for the directory and
the write nothing is stored under the key; a success told, an object or a list on
its way back and what a page shows are stored. The action lemma `Keep` carries it
over each step: stored entries stay, so what was told before stays true.

### DiskInformation

For any number of threads: `ReportTypesCorrect`, from the types of this module and
of `ClientRegistration`, whose theorems hold here because each step is one of its
steps or a stutter. The others assume what is in the last column.

| Theorem | Property | From |
|---|---|---|
| `OneMachineTold` | `FolderOfOneMachine` | `Marks`, `Alone`; assumes `OneAtATime` |
| `OwnComputer` | `RememberedComputerIsOwn` | `Marks`, `Alone`; assumes `OneAtATime` |
| `ToldStays` | `FirstInformationStays` | `Unwritten`; assumes `OneAtATime` |
| `FoldersApart` | `FolderOfOneMachine` | `Apart`, `ToldApart`; assumes `NothingPrepared` |
| `ComputersApart` | `RememberedComputerIsOwn` | `Apart`, `ToldApart`; assumes `NothingPrepared` |
| `CutOffIsUnderWay` | `CutOffIsBeingWritten` | itself; assumes `NothingFails` |

A machine is `Marked` in a computer if its evidence or information is in the folder,
a client's object remembers the computer, or a report is on its way there. `Marks`
says that a marked computer has a folder, that its entry, if readable, and any entry
a request is about to write into it are the machine's, and that no other machine is
marked. It is needed because the entry may be unreadable for ever after a crash
while the memory and the files go on: what keeps a second machine out is then that
the folder exists and nothing readable is in it. `Alone`, of `ClientRegistration`,
gives that the folder a request creates is new and the entry it publishes under is
its own. `Unwritten` says that the file a report is about to open is not there, and
the one it is about to print is cut off.

`ToldApart` extends `Apart` to what the list remembers, what reports work on and
what was told, for any number of threads, every fault and crashes.
`CutOffIsBeingWritten` is inductive as it stands: the report that empties a file is
the one that writes it next, and the file is whole after each write, whoever else
is about to write it. Its hypothesis `NothingFails` excludes failing writes and
crashes only; prepared computers and every other fault are allowed.

### Only model-checked

The liveness properties (`EventuallyRecorded`, `ReadTerminates`, `ClientsServed`,
`ReportsStored`, `MonitorIsFreed`), which are out of the prover's reach. What they
say about safety is proved: of `ClientsServed` that no client is left out once its
registrations are over, as long as nothing is lost (`ListedAreServed`), of `ReportsStored` that no file stays
half written when no report writes it (`CutOffIsUnderWay`). That these calls and
requests end stays with TLC. `PathsKeepTheirDevice` and `FirstInformationStays` are
proved for requests one at a time and do not hold for several. `WholeBlocksTransfer`
covers devices of whole blocks; for a partial last block the code does not have the
properties that assume `CompleteTransfers`.

## Not modelled

Not modelled, for good:

* libiscsi and the native bindings, the SMB library with its sessions, and HTTP
  routing. What the code relies on is in the actions that call them.
* Directory searches of the share (`RaqetSearchContext`): a cursor over the
  driver's lists that the SMB library asks for one entry at a time; it changes
  no state but its own position.
* Angular, ngResource and ui-router, vendored in `resources/static`: most lines
  of JavaScript in the repository are theirs. Only the lines that decide what the
  pages do (transitions, the filling of resources, callbacks) are modelled, in
  `Management`.
* The log lines a client sends, which are appended to a file nothing reads; the
  download of a boot image, which runs a tool on a new temporary file.
* Message and value classes, formatting, logging, configuration and start-up.

Left out, and possible next: targets that an investigator adds by address (a web request
that runs the discovery and the publication of `ClientRegistration` without a
client; two such targets of one name share an evidence file in `/tmp`), and the
composition of `RemoteFile`, `BlockReader` and `EvidenceStore` in one module, whose interfaces
are compared under "Modules" above. A GOOD answer with fewer bytes than asked for
belongs to that composition: the reader stores the rest of the block as zeros.
