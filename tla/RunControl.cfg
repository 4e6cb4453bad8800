SPECIFICATION Spec
CONSTANTS
    Runs = {r1}
    Jobs = {j1}
    Scheduled = {j1}
    MaxConn = 2
    QueueCap = 1
    None = None
INVARIANT TypeOK
 
INVARIANT RunningIsAccountedFor
