SPECIFICATION BackupSpec
CONSTANTS
    Agents = {a1}
    Files = {f1, f2}
    None = None
    Backends = {local}
    Local = local
    Hashes = {h1, h2}
    SnapIds = {s1}
    Jobs = {j1}
    Clients <- MCClients
    KeepLast <- NoLimit
    KeepDays <- NoLimit
    Grace = 1
    MaxClock = 0
    Allow = {}
SYMMETRY Symmetric
INVARIANT BackupTypeOK
INVARIANT CommittedWhole
PROPERTY SuccessCoversScan
