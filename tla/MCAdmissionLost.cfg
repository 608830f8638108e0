SPECIFICATION FairSpec
CONSTANTS
    Clients = {c1, c2}
    Runs = {r1, r2}
    MaxConcurrentRuns = 1
    MaxVirtualUsers = 3
    MaxShards = 2
    Troubled = {}
    Forms <- AFewForms
    NoForm = NoForm
PROPERTIES
    CancelledRunEnds
