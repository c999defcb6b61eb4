SPECIFICATION Spec
CONSTANTS
    Objects = {"secret", "values", "release"}
    DefaultPath <- ObjectFiles
    SharedPath = "all.yaml"
    Derived <- HelmArtifacts
    None = None
    Repositories = {"up", "fork"}
    Upstream = "up"
    Branches = {"main", "feature"}
    Main = "main"
    RemoteTargets <- VariedTargets
    MaxRequests = 2
    MaxEdits = 1
    Requested = {"secret"}
    Finders = {TRUE, FALSE}
    Kinds = {"unhandled", "derived", "claimed", "wholeFile"}
    Deletions = {TRUE, FALSE}
INVARIANTS
    TypeOK
    UpstreamIncluded
PROPERTIES
    NoCommitLost
    WritesKeepSiblings
    FoundOrCreatedOnce
CHECK_DEADLOCK FALSE
