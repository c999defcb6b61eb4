SPECIFICATION Spec
CONSTANTS
    Requests = {r1, r2}
    MaxInFlight = 2
    Targets = {t1, t2}
    Manifests = {m1, m2}
    Absent = Absent
    Specs <- VariedSpecs
    Users = {"serviceAccount", "bypassSubject", "ambiguousSubject"}
    Faults = {"git", "lostAnswer", "timeout", "rejection"}
    Nobody = Nobody
    NoRequest = NoRequest
    NoPush = NoPush
INVARIANTS
    TypeOK
    AppliedWasPushed
    CommittedOnce
    PushedStatusIsTrue
PROPERTIES
    EveryCallAnswered
