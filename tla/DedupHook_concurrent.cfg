SPECIFICATION FairSpec
CONSTANTS
    Keys = {k1, k2}
    k1 = k1
    k2 = k2
    Workers = {w1, w2}
    w1 = w1
    w2 = w2
    NoKey = NoKey
    MaxLife = 2
    Faults <- AllFaults
INVARIANTS TypeOK SafetyInv CopiesByDistinctWorkers RestoredNotRewritten NoUnexplainedSuppression
PROPERTY PoisonedFailsClosed AnsweredIsEventuallyStored
CHECK_DEADLOCK FALSE
