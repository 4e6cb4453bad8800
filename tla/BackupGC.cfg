SPECIFICATION BackupSpec
CONSTANTS
    Agents = {a1}
    Files = {f1}
    None = None
    Backends = {local}
    Local = local
    Hashes = {h1, h2}
    SnapIds = {s1}
    Jobs = {j1}
    Clients <- MCClients
    KeepLast <- NoLimit
    KeepDays <- NoLimit
    Grace = 1
    MaxClock = 1
    Allow = {"gc"}
SYMMETRY Symmetric
INVARIANT CommittedWhole
