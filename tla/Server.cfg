SPECIFICATION ServerSpec
CONSTANTS
    Keys = {k1}
    Values = {v1, v2}
    Callers = {c1, c2}
    Absent = Absent
    Providers = {"local", "s3", "onedrive", "gdrive"}
    Large = {v2}
    MaxAttempts = 2
    MaxIds = 4
    Careful = TRUE
    Clouds = {"onedrive", "box"}
    Apps = {a1}
    Users = {u1, u2}
    Buckets = {b1}
    Folders = {f1}
    Requests = {q1, q2}
    MaxFlows = 1
    Nothing = Nothing
    Tokens = {t1}
    Enrolls = {e1, e2}
    NoAgent = NoAgent
    Entries <- Snapshot
    MaxEdits = 2
    Gone = Gone
 
 
 
INVARIANT TokensFit
INVARIANT RestartKeepsBackend
PROPERTY LinksAreOneTime
INVARIANT OneClientPerToken
 
INVARIANT NothingOutlivesItsAgent
INVARIANT NeverDamaged
INVARIANT ReportIsTrue
PROPERTY ExistingIsKept
CHECK_DEADLOCK FALSE
