SPECIFICATION Spec
CONSTANTS
    n1 = n1
    n2 = n2
    bad = bad
    d1 = d1
    d2 = d2
    t1 = t1
    t2 = t2
    None = None
    Off = Off
    Nodes = {n1, n2, bad}
    Insecure = {bad}
    Cores = {d1, d2}
    Tunnels = {t1, t2}
INVARIANTS
    TrafficFlows
    StatusTrue
    ProxyReaches
PROPERTIES
    ImplementsConnection
