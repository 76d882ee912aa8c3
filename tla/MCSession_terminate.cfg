SPECIFICATION Spec
CONSTANTS
    OverflowChecks = FALSE
    PeerMessages <- LogonOnly
    Faults <- NoFaults
    AppDecisions <- AcceptOnly
    OutboundDecisions <- NoDecisions
    AdminRequests <- NoRequests
    ResetOnLogon = FALSE
    EarlyEof = FALSE
    BadPeriods <- NoPeriods
    MaxSender = 4
    MaxTarget = 3
    MaxQueue = 1
    MaxNow = 0
PROPERTY TerminatesOnce
CHECK_DEADLOCK FALSE
