SPECIFICATION Spec
CONSTANTS
    None = None
    SystemUsers = {"admin"}
    Users = {"alice", "bob", "admin"}
    GitURIs = {"repo", "fork"}
    YAMLPaths = {}
    UnknownResources = {"unknown"}
    Namespaces = {"n1", "n2"}
    ManagerNamespace = "n2"
    Ids <- MCIds
    Candidates <- MCCandidates
    InitialObjects <- MCInitialObjects
    Rights <- MCRights
    InitialRights <- MCInitialRights
    HostOf <- MCHostOf
    MaxChanges = 2
INVARIANTS
    TypeOK
    ReferencesVouched
    AdmittedResolves
    BoundNeverDefault
    AssociationExact
PROPERTIES
    OwnRemoteUsers
    ScopedWithinReach
CHECK_DEADLOCK FALSE
