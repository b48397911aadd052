SPECIFICATION FairSpec
CONSTANTS
    c1 = c1
    c2 = c2
    a1 = a1
    a2 = a2
    p1 = p1
    p2 = p2
    None = None
    Bad = Bad
    Configs = {c1, c2}
    Addrs = {a1, a2}
    Paths = {p1, p2}
    ListenOf <- MCListenOf
    PathOf <- TwoSockets
    Override = None
    FirstConfig = c1
    Conns = {k1}
    MaxEdits = 2
    MaxSignals = 2
INVARIANTS TypeOK CurrentListenerReachable ListenerMatchesConfig QuietMeansLoaded DrainSafe
PROPERTIES QueuedTermEnds ConnectionsAnswered
CHECK_DEADLOCK FALSE
