\* Every text of up to 10 characters, cut into pieces of 3; 3 of its chunks,
\* within 7 characters, may be the evidence for an answer.
SPECIFICATION RetrievalSpec
CONSTANTS
    MaxChars = 3
    MinChars = 2
    Overlap = 1
    MaxSize = 10
    Batch = 3
    TopK = 4
    TopKFinal = 3
    MaxContext = 7
    MinScore = 1
    Threshold = 2
    Scores <- SomeScores
INVARIANTS
    NothingLost
    SharedBounded
    CitesOwnScore
    ContextFits
    NothingNearerLeftOut
    AbstainsOnlyWhenWeak
PROPERTIES
    AlwaysAdvances
    Terminates
