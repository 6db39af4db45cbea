SPECIFICATION FairSpec
CONSTANTS
    c1 = c1
    Refresher = Refresher
    s1 = s1
    s2 = s2
    i1 = i1
    i2 = i2
    i3 = i3
    Other = Other
    None = None
    Clients = {c1, Refresher}
    Subs = {s1}
    Calls = {i1, i2, i3}
    Workers = 1
PROPERTIES
    RefreshesEnd
