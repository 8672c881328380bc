CONSTANTS
    j1 = j1
    a1 = a1
    Jobs = {j1}
    Apps = {a1}
    Clients = {c1}
    Calls <- AllCalls
    CallLabels <- AnyLabel
    Commits = {k1}
    None = None
    MaxBuild = 2
    MaxDeploy = 1
    MaxSecond = 1
    MaxRestart = 1
    MaxFault = 1
    SelfApps <- TheApp
    MainApps <- TheApp
    SeedScm <- SeedApp
    SeedLabel <- SeedImage
    PinnedJobs <- TheJob
SPECIFICATION Spec
INVARIANTS RunningHasOwner SelfRecordedBeforeSwap OkBuildHasArtifact
PROPERTY ResultRecorded
