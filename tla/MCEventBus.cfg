CONSTANTS
    s1 = s1
    s2 = s2
    l1 = l1
    l2 = l2
    p1 = p1
    Servers = {s1, s2}
    Events = {1, 2, 3}
    Listeners = {l1, l2}
    Partitions = {p1}
    PublisherOf <- MCPublisherOf
    PartitionOf <- MCPartitionOf
    ListenerAt <- MCListenerAt
    Wants <- MCWants
    PubSize = 1
    InSize = 1
    AckSize = 1
    SubSize = 1
    ChanSize = 1
    None = None
    MaxFaults = 1
SPECIFICATION FairSpec
INVARIANT TypeOK
CHECK_DEADLOCK FALSE
PROPERTIES DeliverySpec  
