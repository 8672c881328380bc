CONSTANTS
    j1 = j1
    a1 = a1
    Jobs = {j1}
    Apps = {a1}
    Clients = {c1}
    Calls <- BuildAndDeploy
    CallLabels <- ImageOnly
    Commits = {k1, k2}
    None = None
    MaxBuild = 2
    MaxDeploy = 1
    MaxSecond = 1
    MaxRestart = 0
    MaxFault = 0
    SelfApps <- Empty
    MainApps <- Empty
    SeedScm <- SeedApp
    SeedLabel <- SeedImage
    PinnedJobs <- Empty
SPECIFICATION Spec
INVARIANT ImageAtRecordedCommit
