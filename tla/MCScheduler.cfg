SPECIFICATION Spec
CONSTANTS
    BackoffBase = 1
    BackoffMax = 3
    RedetectStreak = 2
    RedetectAfter = 2
    View = {v1, v2}
    Key = {k1, k2, k3}
    Fingerprint = {a, b}
    None = None
    Capacity = 2
    Floor = 1
    Cadence = {2}
    Outcome <- SomeOutcomes
    MaxNow = 3
    MaxGeneration = 3
SYMMETRY Symmetry
INVARIANTS
    AwaitedReadsAreHeld
    GenerationsAreUnique
PROPERTIES
    ReadsAreSpaced
CHECK_DEADLOCK FALSE
