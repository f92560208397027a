SPECIFICATION Spec
CONSTANTS
    Prompts = {c1, c2}
    Cancels = {}
    MaxRestarts = 1
    SaveFails = TRUE
    NoteCap = 1
    PipeSize = 1
    MaxUpdates = 1
    Extras = {}
    Refusable = {1, 2, 3}
    None = None
    c1 = c1
    c2 = c2
SYMMETRY PromptSymmetry
INVARIANTS
    OnePeer
    AnsweredIsKept
    FileBehind
CHECK_DEADLOCK FALSE
