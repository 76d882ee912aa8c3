SPECIFICATION Spec
CONSTANTS
    OverflowChecks = TRUE
    PeerMessages <- EventMessages
    Faults <- EventFaults
    AppDecisions <- AcceptOnly
    OutboundDecisions <- SendOrTerminate
    AdminRequests <- AllRequests
    ResetOnLogon = FALSE
    EarlyEof = FALSE
    BadPeriods <- NoPeriods
    MaxSender = 3
    MaxTarget = 2
    MaxQueue = 1
    MaxNow = 2
INVARIANTS
    AwaiterKept
    StopsOnlyWhenTold
    WrittenIsStored
CHECK_DEADLOCK FALSE
