SPECIFICATION Spec
CONSTANTS
    Keys = {k1}
    k1 = k1
    Workers = {w1, w2}
    w1 = w1
    w2 = w2
    NoKey = NoKey
    MaxLife = 1
    Faults <- NoFaults
INVARIANT AtMostOncePerLife
