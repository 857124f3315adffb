SPECIFICATION Spec
CONSTANTS
    Heads <- NulHeads
    Scopes <- NoScope
    Texts <- FewTexts
    MaxOffered = 2
INVARIANTS DistinctTuplesDistinctKeys
