\* Two requests of any kind at a time.
CONSTANTS
    Clients = {c1, c2}
    Syncer = s
    Remover = x
    Versions = {1, 2, 3}
    Orders <- SomeOrders
    Unlocated = {3}
    MaxLoads = 2
    MaxRequests = 3
    None = None
SPECIFICATION Spec
INVARIANTS TypeOK ListedNewest VersionsOfOneIndex
 
SYMMETRY ClientSymmetry
CHECK_DEADLOCK FALSE
