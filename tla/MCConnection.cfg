SPECIFICATION FairSpec
CONSTANTS
    BackoffBase = 1
    BackoffMax = 1
    RedetectStreak = 2
    RedetectAfter = 1
    r1 = r1
    r2 = r2
    r3 = r3
    a = a
    b = b
    c = c
    d = d
    k = k
    Runtime = {r1, r2, r3}
    Detectable = {r1, r3}
    Server = {a, b, c, d}
    RuntimeOf <- Runtimes
    Key = {k}
    KeyOf <- KeysOf
    Counting = {r1}
    Choice <- Choices
    None = None
    MaxChanges = 2
INVARIANTS
    AdapterFollowsSlot
    ExplicitChoiceStands
    RoutesAreFenced
PROPERTIES
    PortIsFollowed
    ChangeIsWithdrawn
