\* A crash, and clients that do not wait for the answer to their create.
SPECIFICATION Spec
CONSTANTS
    Runs = {r1}
    Senders = {p1, p2}
    Capacity = 2
    MaxInputs = 4
    Operations = {"create", "get", "start", "stop"}
    MaxRequests = 4
    MaxCrashes = 1
    ClientsWait = FALSE
    ClientsLeave = TRUE
    None = None
SYMMETRY CallerSymmetry
\* The system stops when the bounds are used up.
CHECK_DEADLOCK FALSE
PROPERTIES
    ContractKept
