SPECIFICATION ToolSpec
CONSTANTS
    Prompts = {c1}
    Cancels = {q1}
    MaxRestarts = 0
    SaveFails = FALSE
    NoteCap = 1
    PipeSize = 1
    MaxUpdates = 1
    Extras = {}
    Refusable = {1, 2, 3}
    None = None
    c1 = c1
    q1 = q1
    StreamSize = 1
    OutputBuffer = 1
    MaxWritten = 2
    MaxTyped = 2
    CloneRequests = {k1, k2, k3}
    k1 = k1
    k2 = k2
    k3 = k3
    MaxKills = 1
    LastDirectory = 3
    MaxVersion = 4
    EventQueue = 2
    MaxWatches = 3
    Publications = {p1, p2}
    p1 = p1
    p2 = p2
    RunIds = {r1, r2}
    r1 = r1
    r2 = r2
    Branches = {b1, b2}
    b1 = b1
    b2 = b2
    NoBranch = NoBranch
    Work = {w1, w2}
    w1 = w1
    w2 = w2
    Folders = {f1}
    OtherSaves = {o1}
    f1 = f1
    o1 = o1
    MaxTries = 2
    MaxImports = 1
    MaxHostStops = 2
INVARIANTS
    ChatSettles
    NoSendOnClosed
    ShownIsPrefix
    
    OnePullRequest
    PullRequestHasWork
    GitStaysPut
    ApprovalSurvives
PROPERTIES
    MutexFreed
    
    
    SeesLastChange
CHECK_DEADLOCK FALSE
