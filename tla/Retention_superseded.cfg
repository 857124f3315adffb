SPECIFICATION Spec
CONSTANTS
    Ids <- SomeIds
    CandidateSet <- SomeCandidates
    RuleSet <- SomeRules
    Decisions <- NoChoice
    MaxRules = 1
    Scale = 2
CONSTRAINT SecondBatch
INVARIANT SupersededIsInvalidated
