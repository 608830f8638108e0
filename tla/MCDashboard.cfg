SPECIFICATION DFairSpec
CONSTANTS
    Runs = {r1, r2}
    Home = Home
    NoRun = NoRun
    MaxRequests = 2
INVARIANTS
    OnePollChain
    PollingGoesOn
    DashboardInv
PROPERTIES
    ShownMovesOn
    PagesSettle
