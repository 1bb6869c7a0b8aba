SPECIFICATION MCSpec
CONSTANTS
    NumShards = 2
    k1 = k1 k2 = k2
    Key = {k1, k2}
    Stripe <- MCStripe
    c1 = c1 p1 = p1
    w0 = w0 w1 = w1
    Write = {w0, w1}
    Target <- MCTarget
    Process = {p1, p2}
    Call = {c1, c2}
    Retention = 1 MaxTime = 1
    MaxReceipts = 1 CleanupLimit = 1
    PoolSize = 1 Workers = 1
    NoKey = NoKey NoWrite = NoWrite NoReceipt = NoReceipt
INVARIANTS IdempotentTypeOK NeverRepeated AnswerTruth OneReceipt TableBound IdempotentInv
PROPERTIES CallsEnd
