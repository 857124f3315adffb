SPECIFICATION Spec
CONSTANTS
    Readers = {r1, r2}
    r1 = r1
    r2 = r2
    t1 = t1
    t2 = t2
    Tokens = {t1, t2}
    Limits = {0, 2}
    MaxKey = 2
    MaxEpisodes = 3
    ClonePanics = TRUE
SYMMETRY Symmetry
INVARIANTS TypeOK RetrievalSeesThePast KeysSortByInsertion HitsAreTheBest
PROPERTY AnswersAreStable
