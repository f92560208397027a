\* A client whose connection breaks once (the handler of the old session may still be
\* at work), a lost acknowledgement, a channel that overflows, a broker that
\* stalls, or a restart.  The system stops when the bounds are used up.
SPECIFICATION FairSpec
CONSTANTS
    Clients = {c1}
    MaxSessions = 2
    MaxEvents = 3
    Slack = 1
    WireSize = 1
    MaxBreaks = 1
    MaxLostAcks = 1
    MaxRestarts = 1
    BrokerStalls = TRUE
    c1 = c1
INVARIANTS
    HistoryIsPrefix
    CursorVouches
    FreshSessionComplete
PROPERTIES
    EventuallyReceived
CHECK_DEADLOCK FALSE
