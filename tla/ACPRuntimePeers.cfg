\* A client starts the run again while it is running.
SPECIFICATION Spec
CONSTANTS
    Starters = {p1, p2}
    Stoppers = {q1}
    Writers = {}
    NoteCap = 1
    PipeSize = 1
    MaxUpdates = 1
    Extras = {"permission", "long"}
    Refusable = {1, 2}
    OutCap = 1
    Overlap = TRUE
    None = None
    p1 = p1
    p2 = p2
    q1 = q1
INVARIANTS
    OnePeerPerRun
CHECK_DEADLOCK FALSE
