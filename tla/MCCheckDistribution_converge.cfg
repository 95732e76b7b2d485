CONSTANTS
    i1 = i1
    i2 = i2
    s1 = s1
    s2 = s2
    None = None
    Instances = {i1, i2}
    InstanceOf <- MCInstanceOf
    Sockets = {s1, s2}
    Connected = {s1}
    Checks = {1}
    MaxChanges = 1
    MaxFaults = 1
SPECIFICATION FairSpec
INVARIANTS TypeOK SharesPartition
PROPERTIES Converges Settles
CHECK_DEADLOCK FALSE
