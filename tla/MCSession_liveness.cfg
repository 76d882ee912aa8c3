SPECIFICATION FairSpec
CONSTANTS
    OverflowChecks = FALSE
    PeerMessages <- FewMessages
    Faults <- NoFaults
    AppDecisions <- AllDecisions
    OutboundDecisions <- NoDecisions
    AdminRequests <- GracefulShutdown
    ResetOnLogon = TRUE
    EarlyEof = FALSE
    BadPeriods <- BadSecond
    MaxSender = 3
    MaxTarget = 3
    MaxQueue = 1
    MaxNow = 4
PROPERTIES
    ClosedEnds
    HandshakeEnds
    ScheduleWaitEnds
CHECK_DEADLOCK FALSE
