SPECIFICATION FairSpec
CONSTANTS
    Backends = {local}
    Local = local
    Hashes = {h1}
    SnapIds = {s1, s2}
    Jobs = {"byCount", "byAge"}
    Clients = {c1}
    KeepLast <- MixedLast
    KeepDays <- MixedDays
    Grace = 1
    MaxClock = 2
    Allow = {}
 
PROPERTY MaintenanceEnds
PROPERTY GarbageReclaimed
