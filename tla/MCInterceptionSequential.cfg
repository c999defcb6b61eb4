SPECIFICATION Spec
CONSTANTS
    Requests = {r1, r2, r3, r4}
    MaxInFlight = 1
    Targets = {t1}
    Manifests = {m1, m2}
    Absent = Absent
    Specs <- CommitApplySpecs
    Users = {"user"}
    Faults = {"git", "status"}
    Nobody = Nobody
    NoRequest = NoRequest
    NoPush = NoPush
SYMMETRY Symmetry
INVARIANTS
    GitMatchesCluster
