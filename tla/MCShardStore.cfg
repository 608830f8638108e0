SPECIFICATION Spec
CONSTANTS
    r1 = r1
    s1 = s1
    s2 = s2
    Runs = {r1}
    Shards = {s1, s2}
    RunOf <- OneRun
    Sessions = {c1, c2, c3}
    Reports = {a, b}
    DeadLettered = DeadLettered
    NoResult = NoResult
    NoSession = NoSession
    NoCall = NoCall
    NoUpdate = NoUpdate
SYMMETRY Symmetry
INVARIANTS
    BarrierCloses
    RunReflectsShards
    IInv
PROPERTIES
    CancelIsKept
    FinishedIsFinal
    ImplementsLifecycle
