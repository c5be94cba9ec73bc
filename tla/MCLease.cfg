SPECIFICATION Spec
CONSTANTS
    Frame = {f1, f2, f3}
    None = None
    Capacity = 2
    TTL = 2
    MaxNow = 3
    MaxEpoch = 3
SYMMETRY Symmetry
INVARIANTS
    EpochFencesLeaders
PROPERTIES
    LeaderKeepsLease
    PollFindsLiveLeader
    LeaseIsTerms
CHECK_DEADLOCK FALSE
