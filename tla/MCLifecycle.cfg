SPECIFICATION MCSpec
CONSTANTS
    Index = {i1}
    Shard = {s1}
    Locator = {l1, l2}
    Value = {a, b}
    Key = {a, b}
    NoRow = NoRow NoKey = NoKey NoLocator = NoLocator NoEvent = NoEvent
    KeyOf <- MCKeyOf
    MaxCursor = 3 MaxRetained = 2
    Worker = {w1} NoOwner = NoOwner NoImage = NoImage
    BatchLimit = 1 MaxFence = 1 MayFail = {w1}
    Reader = {r1} MaxCandidates = 1
INVARIANTS AsyncTypeOK RetentionBound RecoveryInv FreshUnlessUndrained ReadTypeOK ReadComplete
CHECK_DEADLOCK FALSE
SYMMETRY Symmetry
