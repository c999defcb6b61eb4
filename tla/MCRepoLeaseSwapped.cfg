SPECIFICATION Spec
CONSTANTS
    Pipelines = {p1, p2}
    RemoteTargets <- SwappedTargets
    Capacities = {2}
    UseCountCap = 2
    Handles = {h1, h2, h3, h4, h5, h6}
    Repositories = {r1, r2, r3, r4, r5, r6, r7}
    Nobody = Nobody
    NoHandle = NoHandle
    NoRepository = NoRepository
    NoTarget = NoTarget
INVARIANTS
    NoCircularWait
