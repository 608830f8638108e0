SPECIFICATION PoolFairSpec
CONSTANTS
    r1 = r1
    s1 = s1
    s2 = s2
    Runs = {r1}
    Shards = {s1, s2}
    RunOf <- OneRun
    Sessions = {c1, c2}
    Reports = {a}
    DeadLettered = DeadLettered
    NoResult = NoResult
    NoSession = NoSession
    NoCall = NoCall
    NoUpdate = NoUpdate
    PoolSize = 2
INVARIANTS
    NeverStuck
    MissStaysTrue
    PoolInv
PROPERTIES
    CallsReturn
    HealthComesBack
    DrainEnds
