SPECIFICATION FairSpec
CONSTANTS
    a = a
    b = b
    Lines = {a, b}
    Batches <- SomeBatches
    MaxCalls = 2
    Faults <- AllFaults
INVARIANTS
    TypeOK SafetyInv WrittenOnceInOrder AcknowledgedIsDurable SeenIsExplained KnownNotRewritten
PROPERTY ImplementsAckedLog CallsEnd
CHECK_DEADLOCK FALSE
