SPECIFICATION Spec
CONSTANTS
    Clients = {c1, c2}
    Runs = {r1, r2, r3}
    MaxConcurrentRuns = 1
    MaxVirtualUsers = 3
    MaxShards = 2
    Troubled = {r1, r2, r3}
    Forms <- AllForms
    NoForm = NoForm
SYMMETRY Symmetry
CONSTRAINT OneWideRun
INVARIANTS
    AdmissionInv
    CapOvershoot
    ShardsCoverUsers
    SlotsAreAccountedFor
