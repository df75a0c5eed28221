\* The display name of the chart in this repository, one request at a time.
CONSTANTS
    Requests = {r1}
    Tags <- TwoTags
    TagLists <- OneEach
    Display = "openFuyao"
    Key = "openfuyao"
    MaxRetries = 3
    MaxIndex = 1
    Faults = {}
    None = None
SPECIFICATION Spec
INVARIANT LoneTagServed
