SPECIFICATION FairSpec
CONSTANTS
    RunId = {r1, r2}
    NoRun = NoRun
    Selection = {a, b}
    Epoch = {1, 2}
    NoReading = NoReading
CHECK_DEADLOCK FALSE
INVARIANTS
    FreshIsWatched
    FreshIsAskedSince
    OneConnectionObserved
    RefreshIsInFlight
PROPERTIES
    LiveFramePolls
    ResumedFrameIsAnswered
