\* One start, a stop and an input, whose agent may stop answering, die, or write
\* a line too long to read.  The system stops when the run is over.
SPECIFICATION FairSpec
CONSTANTS
    Starters = {p1}
    Stoppers = {q1}
    Writers = {i1}
    NoteCap = 1
    PipeSize = 1
    MaxUpdates = 1
    Extras = {"long"}
    Refusable = {1, 2}
    OutCap = 1
    Overlap = FALSE
    None = None
    p1 = p1
    q1 = q1
    i1 = i1
PROPERTIES
    StartReleases
    PeerEndEndsRun
CHECK_DEADLOCK FALSE
