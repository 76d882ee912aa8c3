SPECIFICATION Spec
CONSTANTS
    OverflowChecks = FALSE
    PeerMessages <- LogonOnly
    Faults <- NoFaults
    AppDecisions <- AcceptOnly
    OutboundDecisions <- NoDecisions
    AdminRequests <- NoRequests
    ResetOnLogon = FALSE
    EarlyEof = TRUE
    BadPeriods <- NoPeriods
    MaxSender = 4
    MaxTarget = 3
    MaxQueue = 1
    MaxNow = 0
INVARIANT StopsOnlyWhenTold
CHECK_DEADLOCK FALSE
