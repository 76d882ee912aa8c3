SPECIFICATION Spec
CONSTANTS
    OverflowChecks = FALSE
    PeerMessages <- GapMessages
    Faults <- NoFaults
    AppDecisions <- AcceptOnly
    OutboundDecisions <- NoDecisions
    AdminRequests <- NoRequests
    ResetOnLogon = FALSE
    EarlyEof = FALSE
    BadPeriods <- NoPeriods
    MaxSender = 4
    MaxTarget = 3
    MaxQueue = 1
    MaxNow = 2
PROPERTY PeriodChangeReestablishes
CHECK_DEADLOCK FALSE
