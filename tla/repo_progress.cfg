\* No fault: syncs end and the official repository is served, whatever
\* clients add, delete and synchronise meanwhile.
CONSTANTS
    Names <- WithOfficial
    Lower <- LowerCase
    URLs = {"hub", "u1"}
    Builtin <- Official
    BuiltinURL <- OfficialURL
    Offers <- TLSOffers
    Requests = {r1}
    Workers = {w1, w2}
    Ops = {"create", "delete", "sync"}
    Faults = {}
    None = None
SPECIFICATION FairSpec
PROPERTIES SyncsFinish BuiltinsServed
