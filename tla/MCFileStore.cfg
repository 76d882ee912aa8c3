SPECIFICATION OkSpec
CONSTANTS
    Content = {c1, c2}
    MaxSeq = 2
    MaxBody = 3
    Callers = {1, 2}
    OutboundCap = 1
    AdminCap = 1
    MaxCalls <- MCMaxCalls
    MaxNumber = 3
INVARIANTS
    FTypeOK
    ReadsBack
    Recoverable
    AnswersAreTrue
    QuietAfterShutdown
PROPERTIES
    ImplementsStore
CHECK_DEADLOCK FALSE
