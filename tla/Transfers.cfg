SPECIFICATION Spec
CONSTANTS
    Pushes = {s1}
    Pulls = {l1}
    Overwriting = {}
    MaxConn = 2
    MaxWorkers = 2
    Overlap = FALSE
    None = None
INVARIANT RunningIsAccountedFor
 
 
 
CHECK_DEADLOCK FALSE
PROPERTY TransfersEnd
