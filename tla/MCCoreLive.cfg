SPECIFICATION FairSpec
CONSTANTS
    n1 = n1
    n2 = n2
    home = home
    feed = feed
    r1 = r1
    None = None
    Nodes = {n1}
    Subs = {home}
    Local = {home}
    Requests = {r1}
    Ops = {"Connect", "SetTun", "Disconnect", "RemoveNode"}
    SubOf <- MCSubOf
PROPERTIES
    ChangesEnd
    StartupEnds
    StopEnds
