\* Requests one at a time; every failure, and crashes at any point.
SPECIFICATION ReportSpec
CONSTANTS
    Requests = {r1}
    Clients = {"first", "moved", "other"}
    ClientId <- MCClientId
    HardwareId <- MCHardwareId
    Disks <- MCDisks
    Prepared = {p1}
    NoHardware = "none"
    Unreadable = Unreadable
    None = None
    Faults = {"list", "mapping", "database", "crash"}
    Reported = {{0}}
INVARIANTS
    TypeOK
    EvidenceOfOneMachine
    OneComputerPerMachine
    ReportTypeOK
    FolderOfOneMachine
    RememberedComputerIsOwn
PROPERTIES
    PathsKeepTheirDevice
    FirstInformationStays
