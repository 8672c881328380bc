CONSTANTS
    j1 = j1
    a1 = a1
    Jobs = {j1}
    Apps = {a1}
    Clients = {c1}
    Calls <- AllCalls
    CallLabels <- ArchiveOnly
    Commits = {k1}
    None = None
    MaxBuild = 2
    MaxDeploy = 1
    MaxSecond = 2
    MaxRestart = 0
    MaxFault = 0
    SelfApps <- Empty
    MainApps <- Empty
    SeedScm <- NoSeed
    SeedLabel <- NoSeed
    PinnedJobs <- Empty
SPECIFICATION FairSpec
PROPERTIES FinalIsFinal RunsEnd
