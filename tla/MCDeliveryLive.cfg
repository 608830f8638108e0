SPECIFICATION FairSpec
CONSTANTS
    r1 = r1
    s1 = s1
    s2 = s2
    m1 = m1
    m2 = m2
    Runs = {r1}
    Shards = {s1, s2}
    RunOf <- TwoShards
    Reports = {a}
    DeadLettered = DeadLettered
    NoResult = NoResult
    Workers = {w1, w2}
    Messages = {m1, m2}
    ShardOf <- OneEach
    MaxDeliveries = 1
    ScanLimit = 1
    MaxFaults = 2
    StallAt <- StallOnceClaimed
    NoTask = NoTask
PROPERTIES
    RunEnds
    CancelEndsRun
    GroupSkipsNothing
INVARIANTS
    OpenRunHasWork
    DeliveryInv
