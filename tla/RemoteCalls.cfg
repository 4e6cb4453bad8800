SPECIFICATION Spec
CONSTANTS
    Cmds = {c1}
    Reqs = {r1}
    Output <- ShortLines
    Cap = 1
    PipeCap = 1
    MaxConn = 2
    None = None
INVARIANT OutputIsWhole
 
 
PROPERTY RequestsEnd
CHECK_DEADLOCK FALSE
