SPECIFICATION Spec
CONSTANTS
    OverflowChecks = TRUE
    PeerMessages <- AllMessages
    Faults <- NoFaults
    AppDecisions <- AcceptOnly
    OutboundDecisions <- NoDecisions
    AdminRequests <- NoRequests
    ResetOnLogon = FALSE
    EarlyEof = FALSE
    BadPeriods <- NoPeriods
    MaxSender = 5
    MaxTarget = 4
    MaxQueue = 2
    MaxNow = 0
INVARIANTS
    TypeOK
    NoRedelivery
    ResendWindow
    ResendRequestsBounded
    LogonFirst
PROPERTIES
    TargetNeverLowered
CHECK_DEADLOCK FALSE
