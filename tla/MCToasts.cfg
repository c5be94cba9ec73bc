SPECIFICATION Spec
CONSTANTS
    Frame = {f1, f2}
    k1 = k1
    unslotted = unslotted
    Key = {k1, unslotted}
    None = None
    Rule <- MCRule
    PartFresh <- MCPartFresh
    Swap <- MCSwap
    Reading <- MCReading
    Badged <- MCBadged
    PanelFrame = {}
    Preference = "all"
    Minute = 1
    Hour = 3
    PerHour = 2
    ToastFresh = 1
    HostGap = 1
    AlertSlots = 1
    LogSize = 2
    SinceFresh = 1
    MaxLag = 2
    MaxNow = 2
    MaxOpen = 2
    MaxGivenUp = 1
    MaxServed = 3
    MaxTerm = 2
SYMMETRY Symmetry
INVARIANTS
    EpisodesAreSound
    ToastsAreLimited
    ToastsOncePerTerm
CHECK_DEADLOCK FALSE
