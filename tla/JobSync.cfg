SPECIFICATION Spec
CONSTANTS
    MaxIds = 2
    Names = {n1}
    Gui = {g1}
    MaxConn = 2
    MaxEdits = 2
    QueueCap = 8
    Overlap = FALSE
    None = None
 
 
CHECK_DEADLOCK FALSE
PROPERTY Converges
