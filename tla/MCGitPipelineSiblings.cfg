SPECIFICATION Spec
CONSTANTS
    Objects = {"secret", "values", "release"}
    DefaultPath <- ObjectFiles
    SharedPath = "all.yaml"
    Derived <- HelmArtifacts
    None = None
    Repositories = {"up", "fork"}
    Upstream = "up"
    Branches = {"main", "feature"}
    Main = "main"
    RemoteTargets <- UpstreamOnly
    MaxRequests = 1
    MaxEdits = 0
    Requested = {"secret"}
    Finders = {TRUE}
    Kinds = {"unhandled"}
    Deletions = {TRUE, FALSE}
PROPERTIES
    SiblingsPreserved
CHECK_DEADLOCK FALSE
