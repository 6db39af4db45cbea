SPECIFICATION Spec
CONSTANTS
    n1 = n1
    n2 = n2
    home = home
    feed = feed
    r1 = r1
    None = None
    Nodes = {n1, n2}
    Subs = {home, feed}
    Local = {home}
    Requests = {r1}
    Ops = {"Connect", "SetTun", "Disconnect", "AddSubscription", "RemoveSubscription", "RemoveNode", "Refresh"}
    SubOf <- MCSubOf
INVARIANTS
    RefsLive
    NoOrphanConnection
    ConnectionMatchesState
PROPERTIES
    FoldsSurviveChanges
    SwitchEnds
    ProxySurvivesRefusal
    ImplementsService
