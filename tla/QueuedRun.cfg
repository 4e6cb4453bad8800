SPECIFICATION FairSpec
CONSTANTS
    Runs = {r1}
    Jobs = {j1}
    Scheduled = {}
    MaxConn = 1
    QueueCap = 1
    None = None
PROPERTY QueuedIsDispatched
