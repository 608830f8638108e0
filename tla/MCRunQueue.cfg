SPECIFICATION Spec
CONSTANTS
    Runs = {r1, r2, r3}
    Workers = {w1, w2}
    NoRun = NoRun
    NoWorker = NoWorker
SYMMETRY Symmetry
INVARIANTS
    TakenOnce
    
    ClaimNeverWaits
PROPERTIES
    NeverRevived
    
