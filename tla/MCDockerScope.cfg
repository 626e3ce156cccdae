SPECIFICATION Spec
CONSTANTS
    a1 = a1
    a2 = a2
    b = b
    c = c
    Workloads = {a1, a2, b, c}
    Tenant <- MCTenant
    ShortID <- MCShortID
    Namespaces = {"N"}
    Bridge = Bridge
    PoolSize = 1
    MaxTroubles = 2
INVARIANTS
    SharedForCause
    NetworksInUseStay
