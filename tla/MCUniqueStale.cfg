SPECIFICATION MCSpec
CONSTANTS
    s1 = s1
    Shard = {s1, s2}
    Locator = {l1}
    Key = {a, b}
    Writer = {w1, w2}
    Operation = {p1, p2}
    Reader = {r1}
    NoKey = NoKey NoOwner = NoOwner NoEntry = NoEntry
    NoOperation = NoOperation NoWriter = NoWriter
SYMMETRY Symmetry
INVARIANTS RecoveryNeverCorrupt
