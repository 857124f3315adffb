SPECIFICATION Spec
CONSTANTS
    Keys = {k1, k2, k3}
    k1 = k1
    k2 = k2
    k3 = k3
    Workers = {w1}
    w1 = w1
    NoKey = NoKey
    MaxLife = 3
    Faults <- WriteFaults
INVARIANT AtMostOnceEver
PROPERTY ImplementsOnceLog
