\* Two handlers and two sync goroutines on one name, and restarts.
CONSTANTS
    Names <- OneName
    Lower <- LowerCase
    URLs = {"u1", "u2"}
    Builtin <- NoBuiltin
    BuiltinURL <- NoAddress
    Offers <- Plain
    Requests = {r1, r2}
    Workers = {w1, w2}
    Ops = {"create", "update", "delete", "sync", "syncall", "restart"}
    Faults = {"api", "load"}
    None = None
SYMMETRY Symmetry
SPECIFICATION MirrorSpec
INVARIANTS TypeOK InProgressHasWorker CacheMirrorsCRs
PROPERTY NoLostUpdate
