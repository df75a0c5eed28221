\* An update overtakes a sync that has loaded the index already.
CONSTANTS
    Names <- OneName
    Lower <- LowerCase
    URLs = {"u1", "u2"}
    Builtin <- NoBuiltin
    BuiltinURL <- NoAddress
    Offers <- Plain
    Requests = {r1}
    Workers = {w1}
    Ops = {"create", "update", "sync"}
    Faults = {}
    None = None
SPECIFICATION Spec
INVARIANT IndexCurrent
