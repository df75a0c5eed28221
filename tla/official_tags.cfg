\* Two requests at a time, every fault, a token that expires.
CONSTANTS
    Requests = {r1, r2}
    Tags <- TwoTags
    TagLists <- OneOrBoth
    Display = "openfuyao"
    Key = "openfuyao"
    MaxRetries = 3
    MaxIndex = 1
    Faults = {"harbor", "token", "load", "api"}
    None = None
SPECIFICATION FairSpec
INVARIANTS TypeOK TagsFollowName AnswerNotOlder
PROPERTY TagRequestsEnd
