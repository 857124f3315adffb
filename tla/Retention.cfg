SPECIFICATION Spec
CONSTANTS
    Ids <- SomeIds
    CandidateSet <- SomeCandidates
    RuleSet <- SomeRules
    Decisions <- SomeDecisions
    MaxRules = 2
    Scale = 2
CONSTRAINT SecondBatch
INVARIANTS TypeOK Partition AgreesWithSingle ScopeGuardIsolates PoolIsAList
PROPERTY RankingTakesTheTop
