SPECIFICATION Spec
CONSTANTS
    r1 = r1
    s1 = s1
    s2 = s2
    m1 = m1
    m2 = m2
    Runs = {r1}
    Shards = {s1}
    RunOf <- OneShard
    Reports = {a}
    DeadLettered = DeadLettered
    NoResult = NoResult
    Workers = {w1, w2}
    Messages = {m1}
    ShardOf <- Single
    MaxDeliveries = 2
    ScanLimit = 1
    MaxFaults = 2
    StallAt <- StallAnywhere
    NoTask = NoTask
INVARIANTS
    OrphanIsReclaimable
