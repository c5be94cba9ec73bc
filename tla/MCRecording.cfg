INIT Init
NEXT Next
CONSTANTS
    None = None
    f1 = f1
    f2 = f2
    Frame = {f1, f2}
    RingSize = 1
    PageSize = 1
    Bounds <- Both
SYMMETRY Symmetry
INVARIANTS
    AcknowledgedIsRecorded
    NothingMissingBetween
PROPERTY SeenIsKept
CHECK_DEADLOCK FALSE
