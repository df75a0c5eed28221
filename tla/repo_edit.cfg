\* Two handlers at a time on three spellings; Kubernetes calls and loads
\* fail, answers are lost, all are synchronised, the process restarts.
CONSTANTS
    Names <- WithOfficial
    Lower <- LowerCase
    URLs = {"hub", "u1"}
    Builtin <- Official
    BuiltinURL <- OfficialURL
    Offers <- AuthOffers
    Requests = {r1, r2}
    Workers = {w1}
    Ops = {"create", "update", "delete", "syncall", "restart"}
    Faults = {"api", "load"}
    None = None
SYMMETRY Symmetry
SPECIFICATION Spec
INVARIANT OfficialGenuine
PROPERTY RegistrySpec
