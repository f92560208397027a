\* One start and one stop of a run whose agent is killed by the stop.
SPECIFICATION FairSpec
CONSTANTS
    Starters = {p1}
    Stoppers = {q1}
    Writers = {}
    NoteCap = 1
    PipeSize = 1
    MaxUpdates = 1
    Extras = {"long"}
    Refusable = {1, 2}
    OutCap = 1
    Overlap = FALSE
    None = None
    p1 = p1
    q1 = q1
PROPERTIES
    StopReturns
CHECK_DEADLOCK FALSE
