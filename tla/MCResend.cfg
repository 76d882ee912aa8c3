SPECIFICATION AnswerSpec
CONSTANTS
    OverflowChecks = FALSE
    MaxLog = 5
    Content = {c1}
    MaxSeq = 1
    MaxSequences = 3
INVARIANTS
    RTypeOK
    OnlyAppAgain
    FillsSkipNoApp
    Ascending
    AppAllAgain
    CatchesUp
    NoOrphans
PROPERTIES
    AnswerEnds
    MongoImplementsStore
CHECK_DEADLOCK FALSE
