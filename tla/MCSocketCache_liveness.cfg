CONSTANTS
    p1 = p1
    s1 = s1
    s2 = s2
    Sockets = {s1}
    Probes = {p1}
    ProbeOf <- MCProbeOf
    Updates = {}
    Emitters = {e1}
    Requests = {r1, r2}
    Workers = {w1}
    Queue = queue
    Loop = loop
    Stopper = stopper
    QueueCap = 1
    None = None
SPECIFICATION FairSpec
INVARIANTS TypeOK
PROPERTIES RequestsServed DisconnectCompletes ShutdownCompletes
CHECK_DEADLOCK FALSE
