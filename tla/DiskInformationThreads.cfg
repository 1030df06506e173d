\* Two threads, two machines, no prepared computers, no failures.
SPECIFICATION ReportFairSpec
CONSTANTS
    Requests = {r1, r2}
    Clients = {"first", "other"}
    ClientId <- MCClientId
    HardwareId <- MCHardwareId
    Disks <- MCDisks
    Prepared = {}
    NoHardware = "none"
    Unreadable = Unreadable
    None = None
    Faults = {}
    Reported = {{0, 1}}
INVARIANTS
    FolderOfOneMachine
    RememberedComputerIsOwn
    ServedWhenDone
    CutOffIsBeingWritten
PROPERTIES
    ClientsServed
    ReportsStored
