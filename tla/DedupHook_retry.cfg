SPECIFICATION Spec
CONSTANTS
    Keys = {k1}
    k1 = k1
    Workers = {w1}
    w1 = w1
    NoKey = NoKey
    MaxLife = 1
    Faults <- WriteFaults
INVARIANT AnsweredMeansStored
