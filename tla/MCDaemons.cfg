SPECIFICATION Spec
CONSTANTS
    d1 = d1
    d2 = d2
    d3 = d3
    u1 = u1
    u2 = u2
    x1 = x1
    None = None
    Procs = {d1, d2, d3}
    Users = {u1, u2}
    Stoppers = {x1}
SYMMETRY Symmetry
CONSTRAINT OneOld
INVARIANTS
    ServerReachable
    HandoverKept
    VerdictTrue
