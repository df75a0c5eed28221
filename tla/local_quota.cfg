\* Two uploads at a time against a limit of one version.
CONSTANTS
    a1 = a1
    a2 = a2
    b1 = b1
    b2 = b2
    Charts <- FourVersions
    Deletions <- VersionOrChart
    Limit = 1
    Requests = {r1, r2}
    Workers = {w1}
    Ops = {"upload", "delete", "sync", "restart"}
    Faults = {"load", "lost"}
    None = None
SPECIFICATION Spec
INVARIANTS TypeOK QuotaBound
SYMMETRY Symmetry
