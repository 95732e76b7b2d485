CONSTANTS
    c1 = c1
    c2 = c2
    l1 = l1
    l2 = l2
    Checks = {c1, c2}
    Frequency <- MCFrequency
    OffsetOf <- MCOffsetOf
    Offsets = {0, 1}
    Default = 1
    Loaders = {l1, l2}
    QueueSize = 1
    None = None
    Garbled = Garbled
    Now = 1
    MaxTime = 2
    MaxChanges = 1
    MaxFaults = 1
SPECIFICATION FairSpec
INVARIANTS TypeOK EachPointOnce InOrder
PROPERTIES CatchesUp FollowsOffset
