SPECIFICATION Spec
CONSTANTS
    Backends = {local, cloud}
    Local = local
    Hashes = {h1}
    SnapIds = {s1}
    Jobs = {j1}
    Clients = {c1, c2}
    KeepLast <- NoLimit
    KeepDays <- NoLimit
    Grace = 1
    MaxClock = 2
    Allow = {"crash", "error"}
SYMMETRY Symmetric
INVARIANT TypeOK
INVARIANT SnapshotsRestorable
 
PROPERTY SweepOnlyGarbage
