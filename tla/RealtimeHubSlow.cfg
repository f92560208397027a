\* A client whose channel overflows reconnects.  The system stops when the bounds
\* are used up.
SPECIFICATION Spec
CONSTANTS
    Clients = {c1}
    MaxSessions = 2
    MaxEvents = 3
    Slack = 1
    WireSize = 1
    MaxBreaks = 1
    MaxLostAcks = 1
    MaxRestarts = 0
    BrokerStalls = FALSE
    c1 = c1
INVARIANTS
    RecoversOnReconnect
CHECK_DEADLOCK FALSE
