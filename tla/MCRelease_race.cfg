CONSTANTS
    j1 = j1
    a1 = a1
    Jobs = {j1}
    Apps = {a1}
    Clients = {c1, c2}
    Calls <- BuildAndDeploy
    CallLabels <- AnyLabel
    Commits = {k1, k2}
    None = None
    MaxBuild = 2
    MaxDeploy = 2
    MaxSecond = 1
    MaxRestart = 0
    MaxFault = 0
    SelfApps <- Empty
    MainApps <- Empty
    SeedScm <- SeedApp
    SeedLabel <- SeedImage
    PinnedJobs <- Empty
SPECIFICATION Spec
SYMMETRY Symmetry
INVARIANTS OneRunPerClient UndisturbedBuild UndisturbedRollout
