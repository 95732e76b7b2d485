CONSTANTS
    p1 = p1
    s1 = s1
    s2 = s2
    Sockets = {s1, s2}
    Probes = {p1}
    ProbeOf <- MCProbeOf
    Updates = {u1}
    Emitters = {}
    Requests = {r1}
    Workers = {w1}
    Queue = queue
    Loop = loop
    Stopper = stopper
    QueueCap = 1
    None = None
SPECIFICATION Spec
SYMMETRY Symmetry
INVARIANTS RefreshFlagOwned CacheMatchesConnections LocksOwned
CHECK_DEADLOCK FALSE
