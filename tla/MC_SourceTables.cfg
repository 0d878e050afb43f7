CONSTANTS
    MaxOps = 3
    MaxRefresh = 2
    Empty = Empty
    Dbs = 3
    TableCount <- MCTableCount
    HiveLimit = 2
    MaxRequests = 2
SPECIFICATION FairSpec
INVARIANTS
    LoadTypeOK
    ShownPrefix
    HiddenReachable
PROPERTIES
    OverlayReleased
