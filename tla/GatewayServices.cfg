\* Five kinds of clients and the graph's own, one restart, two requests at a time.
\* The system stops when the bounds are used up.
SPECIFICATION Spec
CONSTANTS
    Callers = {p1, p2}
    Users = {u1, u2}
    Names = {n1, n2}
    Resources = {x1}
    Keys = {k1}
    Secrets = {v1}
    Uses = {"members", "channels", "messages", "secrets", "tasks", "graph"}
    Brief = {"channels"}
    MaxRequests = 3
    MaxRestarts = 1
    Nothing = Nothing
    p1 = p1
    p2 = p2
    u1 = u1
    u2 = u2
    n1 = n1
    n2 = n2
    x1 = x1
    k1 = k1
    v1 = v1
SYMMETRY Symmetry
INVARIANTS
    AckedIsDurable
    
    PublishedIsDurable
    ChannelsAgree
    SecretsSettle
    OwnersDecide
    RunningMeansWork
    
    
CHECK_DEADLOCK FALSE
