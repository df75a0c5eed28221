\* An update that brings no credentials deletes those the CR still names.
CONSTANTS
    Names <- OneName
    Lower <- LowerCase
    URLs = {"u1", "u2"}
    Builtin <- NoBuiltin
    BuiltinURL <- NoAddress
    Offers <- TLSOffers
    Requests = {r1}
    Workers = {w1}
    Ops = {"create", "update"}
    Faults = {}
    None = None
SPECIFICATION Spec
INVARIANT RefsResolve

