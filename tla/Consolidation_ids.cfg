SPECIFICATION Spec
CONSTANTS
    a = a
    b = b
    Lines = {a, b}
    Batches <- TwoLines
    MaxCalls = 2
    Faults <- NoFaults
INVARIANT IdsAreUnique
CHECK_DEADLOCK FALSE
