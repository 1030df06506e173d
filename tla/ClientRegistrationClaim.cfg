\* Two threads, two machines and one prepared computer; no failures.
SPECIFICATION Spec
CONSTANTS
    Requests = {r1, r2}
    Clients = {"first", "other"}
    ClientId <- MCClientId
    HardwareId <- MCHardwareId
    Disks <- MCDisks
    Prepared = {p1}
    NoHardware = "none"
    Unreadable = Unreadable
    None = None
    Faults = {}
INVARIANTS
    EvidenceOfOneMachine
