SPECIFICATION WatchFairSpec
CONSTANTS
    w1 = w1
    w2 = w2
    Nothing = Nothing
    Watchers = {w1, w2}
    Buffer = 1
    Limit = 4
INVARIANTS
    NothingLost
PROPERTIES
    ImplementsLatest
    Delivered
