SPECIFICATION MCSpec
CONSTANTS
    Index = {i1}
    Shard = {s1}
    Locator = {l1, l2}
    Value = {a, b}
    Key = {a, b}
    NoRow = NoRow NoKey = NoKey NoLocator = NoLocator NoEvent = NoEvent
    KeyOf <- MCKeyOf
    MaxCursor = 2 MaxRetained = 2
    Worker = {w1} NoOwner = NoOwner NoImage = NoImage
    BatchLimit = 1 MaxFence = 1 MayFail = {w1}
    Reader = {r1} MaxCandidates = 1
INVARIANTS FreshIndexComplete
CHECK_DEADLOCK FALSE
SYMMETRY Symmetry
