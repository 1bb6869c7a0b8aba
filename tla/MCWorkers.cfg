SPECIFICATION MCSpec
CONSTANTS
    i1 = i1 i2 = i2 l1 = l1 a = a b = b
    Index = {i1, i2}
    Shard = {s1}
    Locator = {l1, l2}
    Value = {a, b}
    Key = {a, b}
    NoRow = NoRow NoKey = NoKey NoLocator = NoLocator NoEvent = NoEvent
    KeyOf <- MCKeyOf
    MaxCursor = 3 MaxRetained = 3
    Worker = {w1, w2} NoOwner = NoOwner NoImage = NoImage
    BatchLimit = 1 MaxFence = 2 MayFail = {w1, w2}
INVARIANTS GapFree ConsumerBounds AckBehindWatermark ReplayTruth FencesDistinct
PROPERTIES WatermarkMonotone PoisonStops
CHECK_DEADLOCK FALSE
SYMMETRY WorkerSymmetry
