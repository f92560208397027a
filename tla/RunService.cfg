\* Two callers, four requests, clients that wait for create and may leave;
\* goroutines are scheduled and the gateway does not restart.
SPECIFICATION FairSpec
CONSTANTS
    Runs = {r1}
    Senders = {p1, p2}
    Capacity = 2
    MaxInputs = 4
    Operations = {"create", "get", "start", "stop", "input"}
    MaxRequests = 4
    MaxCrashes = 0
    ClientsWait = TRUE
    ClientsLeave = TRUE
    None = None
\* The gateway may have no request left to serve.
CHECK_DEADLOCK FALSE
INVARIANTS
    NoPanic
    SingleStream
    RecordBehind
    
PROPERTIES
    LifecycleKept
    StopClosesStream
    StreamEndsRun
