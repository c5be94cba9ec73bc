SPECIFICATION Spec
CONSTANTS
    None = None
    m1 = m1
    m2 = m2
    r1 = r1
    r2 = r2
    q1 = q1
    q2 = q2
    q3 = q3
    p1 = p1
    p2 = p2
    OfLlama <- SmallLlama
    OfWatch <- SmallWatch
    OfSplash <- SmallSplash
    OfOmlx <- SmallOmlx
    OfActivity <- SmallActivity
    OfStudio <- SmallStudio
SYMMETRY Symmetry
INVARIANTS
    IdleIsLeftAlone
    CompletionsAreTrue
    RepliesAreTold
    ServerIsReadRightly
    ActivityIsTrue
    LmIsReadRightly
CHECK_DEADLOCK FALSE
