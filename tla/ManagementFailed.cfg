\* No fault and no concurrency at all: the callback of a save all the same runs
\* for a case that the server refused.
SPECIFICATION Spec
CONSTANTS
    Users = {u1}
    Numbers = {n1, n2}
    Cases = {alpha, beta}
    Computers = {"pc"}
    Typed = {"Alpha", "alpha", "Beta"}
    Escaped <- MCEscaped
    Names = {first, second}
    Missing = Missing
    None = None
    FaultSets <- MCNoFaults
PROPERTY
    CallbackOnSuccess
SYMMETRY
    MCSymmetry
