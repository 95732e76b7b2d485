CONSTANTS
    p1 = p1
    i1 = i1
    i2 = i2
    s1 = s1
    s2 = s2
    s3 = s3
    None = None
    Probes = {p1}
    Instances = {i1, i2}
    Sockets = {s1, s2, s3}
    ProbeOf <- MCProbeOf
    InstanceOf <- MCInstanceOf
    LastSocket <- MCLastSocket
    Isolation = "serializable"
    Faults = {"statement", "commit"}
SPECIFICATION Spec
INVARIANTS TypeOK OnlineMatchesSessions IInv SessionsOwned
PROPERTIES PresenceSpec ChangesAnnounced
