SPECIFICATION FairSpec
CONSTANTS
    n1 = n1
    n2 = n2
    c1 = c1
    c2 = c2
    c3 = c3
    NoTarget = NoTarget
    Callers = {c1, c2, c3}
    Nodes = {n1, n2}
    Targets = {"all", "one"}
    Match <- Matching
INVARIANTS
    EngineAlone
    ProbeCurrent
    ShownAtRest
PROPERTIES
    ChangesGetTheirTurn
