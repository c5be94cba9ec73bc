SPECIFICATION Spec
CONSTANTS
    None = None
    s1 = s1
    s2 = s2
    h1 = h1
    f1 = f1
    c1 = c1
    r1 = r1
    r2 = r2
    r3 = r3
PROPERTIES
    DemandIsMet
    ServiceEndsWhenIdle
CHECK_DEADLOCK FALSE
