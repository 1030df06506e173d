\* One browser with two requests at a time, and another client.
SPECIFICATION Spec
CONSTANTS
    Users = {u1}
    Numbers = {n1, n2}
    Cases = {alpha, beta}
    Computers = {"pc"}
    Typed = {"Alpha", "alpha", "Beta"}
    Escaped <- MCEscaped
    Names = {first, second}
    Missing = Missing
    None = None
    FaultSets <- MCFaultSets
INVARIANTS
    TypeOK
    ShownIsStored
    SuccessIsStored
PROPERTIES
    EntriesStay
SYMMETRY
    MCSymmetry
