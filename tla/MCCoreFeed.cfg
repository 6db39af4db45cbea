SPECIFICATION Spec
CONSTANTS
    n1 = n1
    n2 = n2
    home = home
    feed = feed
    r1 = r1
    r2 = r2
    None = None
    Nodes = {n1, n2}
    Subs = {feed}
    Local = {}
    Requests = {r1, r2}
    Ops = {"Connect", "SetTun", "Refresh"}
    SubOf <- MCSubOfFeed
PROPERTIES
    KeptUnlessGone
