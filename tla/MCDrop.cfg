SPECIFICATION Spec
CONSTANTS
    Ids = {f1, f2}
    Edits = {f2}
    Origins = {o1}
    None = None
    MaxRemovals = 1
    MaxTroubles = 1
INVARIANT RemovedKeyGone
PROPERTIES KeptUntilRemoved EditSafe 
CHECK_DEADLOCK FALSE
