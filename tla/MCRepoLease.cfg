SPECIFICATION FairSpec
CONSTANTS
    Pipelines = {p1, p2}
    RemoteTargets <- OrderedTargets
    Capacities = {0, 1}
    UseCountCap = 2
    Handles = {h1, h2, h3, h4, h5}
    Repositories = {r1, r2, r3, r4, r5, r6}
    Nobody = Nobody
    NoHandle = NoHandle
    NoRepository = NoRepository
    NoTarget = NoTarget
INVARIANTS
    TypeOK
    ExclusiveRepositories
    NoLeakedLock
    FreshWhenWorking
    NoAbandonedHandle
    NoCircularWait
PROPERTIES
    EveryRequestAnswered
