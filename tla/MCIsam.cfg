SPECIFICATION MCSpec
CONSTANTS
    b1 = b1 b2 = b2 b3 = b3 b4 = b4 p1 = p1 p2 = p2 k1 = k1 k2 = k2 k3 = k3
    Batch = {b1, b2, b3, b4}
    Process = {p1, p2}
    Key = {k1, k2, k3}
    ProcessOf <- MCProcessOf
    KeyOf <- MCKeyOf
    Window = 2 Empty = Empty Torn = Torn
INVARIANTS PipelineTypeOK AckedSurvives NeverSelfCorrupt PipelineInv
PROPERTIES NoRollback
