SPECIFICATION FairSpec
CONSTANTS
    Workloads = {w1, w2}
    MaxTraffic = 3
    MaxTroubles = 2
INVARIANTS
    TrafficIsAccountedFor
    NeverOverbilled
PROPERTIES
    CatchesUp
