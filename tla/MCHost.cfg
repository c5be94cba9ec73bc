INIT Init
NEXT Next
CONSTANTS
    None = None
    c1 = c1
    c2 = c2
    p1 = p1
    p2 = p2
    n1 = n1
    n2 = n2
    f1 = f1
    f2 = f2
SYMMETRY Symmetry
INVARIANTS
    HistoryIsTrue
    ConfigIsTrue
    HostIsTrue
CHECK_DEADLOCK FALSE
