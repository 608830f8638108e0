SPECIFICATION Spec
CONSTANTS
    r1 = r1
    s1 = s1
    s2 = s2
    m1 = m1
    m2 = m2
    Runs = {r1}
    Shards = {s1}
    RunOf <- OneShard
    Reports = {a}
    DeadLettered = DeadLettered
    NoResult = NoResult
    Workers = {w1, w2}
    Messages = {m1, m2}
    ShardOf <- Twice
    MaxDeliveries = 1
    ScanLimit = 2
    MaxFaults = 4
    StallAt <- StallOnceClaimed
    NoTask = NoTask
SYMMETRY Symmetry
INVARIANTS
    NoLostShard
    DeliveriesBounded
    RunsAlone
