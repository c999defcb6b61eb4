SPECIFICATION Spec
CONSTANTS
    Keys = {k1, k2, k3, k4}
    Values = {v1, v2}
    NoValue = NoValue
    Capacities <- MCCapacities
    UseCountCap = 4
INVARIANTS
    TypeOK
PROPERTIES
    LeastFrequentlyUsed
    ImplementsLossyMap
