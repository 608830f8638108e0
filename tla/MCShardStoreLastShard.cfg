SPECIFICATION Spec
CONSTANTS
    r1 = r1
    s1 = s1
    s2 = s2
    Runs = {r1}
    Shards = {s1}
    RunOf <- OneShard
    Sessions = {c1, c2}
    Reports = {a}
    DeadLettered = DeadLettered
    NoResult = NoResult
    NoSession = NoSession
    NoCall = NoCall
    NoUpdate = NoUpdate
PROPERTIES
    LastShardEndsRun
