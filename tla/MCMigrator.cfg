CONSTANTS
    s1 = s1
    s2 = s2
    m1 = m1
    m2 = m2
    m3 = m3
    m4 = m4
    c1 = c1
    c2 = c2
    t1 = t1
    q1 = q1
    e1 = e1
    Servers = {s1, s2}
    Releases <- MCReleases
    Stored <- MCStored
    MaxFaults = 1
SPECIFICATION Spec
INVARIANTS TypeOK DataKept  RoutesAgree 
CHECK_DEADLOCK FALSE
