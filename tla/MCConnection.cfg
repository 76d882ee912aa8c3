SPECIFICATION FairConnection
CONSTANTS
    MaxConns = 2
    EventCap = 2
    MailboxCap = 1
INVARIANT EventsInOrder
PROPERTIES
    SessionUnblocks
    SilentPeerDropped
    ShutdownCompletes
CHECK_DEADLOCK FALSE
