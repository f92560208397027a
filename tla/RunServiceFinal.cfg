\* After a restart, a get that reads the row before the run goes on and
\* caches it after.
SPECIFICATION Spec
CONSTANTS
    Runs = {r1}
    Senders = {p1, p2}
    Capacity = 2
    MaxInputs = 4
    Operations = {"create", "get", "start", "stop", "input"}
    MaxRequests = 4
    MaxCrashes = 1
    ClientsWait = TRUE
    ClientsLeave = FALSE
    None = None
SYMMETRY CallerSymmetry
\* The gateway may have no request left to serve.
CHECK_DEADLOCK FALSE
PROPERTIES
    FinalIsFinal
