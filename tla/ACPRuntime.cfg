\* A start and, if it fails, another one and a stop; an agent that may
\* stop answering, die, or write a line too long to read.  The system stops when
\* the run is over.
SPECIFICATION Spec
CONSTANTS
    Starters = {p1, p2}
    Stoppers = {q1}
    Writers = {}
    NoteCap = 1
    PipeSize = 1
    MaxUpdates = 2
    Extras = {"permission", "long"}
    Refusable = {1, 2}
    OutCap = 1
    Overlap = FALSE
    None = None
    p1 = p1
    p2 = p2
    q1 = q1
INVARIANTS
    NoPanic
    UpdatesInTransit
CHECK_DEADLOCK FALSE
