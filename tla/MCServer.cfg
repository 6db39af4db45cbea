SPECIFICATION FairSpec
CONSTANTS
    c1 = c1
    c2 = c2
    c3 = c3
    s1 = s1
    None = None
    Conns = {c1, c2, c3}
    Subs = {s1}
    Slots = 1
    WatchSlots = 1
    Pause = 3
INVARIANTS
    SlotsKept
PROPERTIES
    ClientServed
    StopEnds
    RetryLimited
