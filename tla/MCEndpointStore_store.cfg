CONSTANTS
    o1 = o1
    o2 = o2
    p1 = p1
    p2 = p2
    t1 = t1
    c1 = c1
    Orgs = {o1, o2}
    Org = o1
    Probes = {p1, p2}
    OwnerOf <- MCOwnerOf
    Public = {p2}
    Tags = {t1}
    Endpoints = {2}
    CheckIds = {1, 2, 3}
    Types = {"http", "ping"}
    Contents <- MCContents
    Clients = {c1}
    NumSessions = 2
    MaxRequests = 3
SPECIFICATION Spec
INVARIANTS TypeOK IndexesAgree NoOrphans
PROPERTIES EventsSuffice
CHECK_DEADLOCK FALSE
