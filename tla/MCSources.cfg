INIT Init
NEXT Next
CONSTANTS
    None = None
    s1 = s1
    m1 = m1
    e1 = e1
    e2 = e2
    w1 = w1
    w2 = w2
    r1 = r1
    r2 = r2
    OfChat <- SmallChat
    OfProgress <- SmallProgress
    Frames = {f1, f2}
    Bound = 1
    a = a
    b = b
    Services = {p1, p2}
    Versions = {1, 2}
    Tasks = 3
    Upsets = 1
    UserEdits = 1
    Parts = {"media", "setup", "chats"}
SYMMETRY Symmetry
INVARIANTS
    CancellationIsSound
    SetupIsSafe
PROPERTIES
    InferredIsSound
CHECK_DEADLOCK FALSE
