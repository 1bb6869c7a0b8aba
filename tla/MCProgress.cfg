SPECIFICATION ProgressSpec
CONSTANTS
    Index = {i1}
    Shard = {s1}
    Locator = {l1}
    Value = {a}
    Key = {a}
    NoRow = NoRow NoKey = NoKey NoLocator = NoLocator NoEvent = NoEvent
    KeyOf <- MCKeyOf
    MaxCursor = 2 MaxRetained = 2
    Worker = {w1, w2} NoOwner = NoOwner NoImage = NoImage
    BatchLimit = 1 MaxFence = 6 MayFail = {w1}
PROPERTIES CatchUp
CHECK_DEADLOCK FALSE
