SPECIFICATION Spec
CONSTANTS
    s1 = s1
    s2 = s2
    n1 = n1
    n2 = n2
    n3 = n3
    q1 = q1
    r1 = r1
    r2 = r2
    None = None
    Snapshots <- MCSnapshots
    Blank <- MCBlank
    Refreshable = {s1}
    Hits <- MCHits
    Tabs <- MCTabs
    Rules = {"a", "b"}
    Apart = {"direct", "proxy"}
    Settings <- MCSettings
    Heights = {1, 3}
    Counts = {1, 2}
    Requests = {r1, r2}
SYMMETRY Symmetry
CONSTRAINT Bound
INVARIANTS
    InBounds
    FlagsTrue
    RequestOnce
PROPERTIES
    SelectionKept
