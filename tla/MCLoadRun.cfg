SPECIFICATION Spec
CONSTANTS
    s1 = s1
    s2 = s2
    u1 = u1
    u2 = u2
    u3 = u3
    Shards = {s1, s2}
    Users = {u1, u2, u3}
    ShardOf <- TwoAndOne
    Responses <- Mixed
    MaxRequests = 2
    NoReport = NoReport
    NoMetrics = NoMetrics
SYMMETRY Symmetry
CONSTRAINT FewRequests
CHECK_DEADLOCK FALSE
INVARIANTS
    TotalsAreExact
    ExtremesAreExact
    AverageIsWeighted
    PercentilesAreNearestRank
    StopCostsOneRequest
    RunInv
